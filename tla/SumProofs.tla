------------------------------ MODULE SumProofs ------------------------------
(***************************************************************************)
(* Induction over finite sets and numbers, and what it proves of the       *)
(* community operator SumFunctionOnSet, of which every total of the        *)
(* project is made: costs, spends, requests and capacities.                *)
(*                                                                         *)
(* The rule of induction is taken for a set: if a set of sets contains S'  *)
(* whenever it contains the strict parts of S', it contains every finite   *)
(* set.  It follows from the well-foundedness of the strict subset order,  *)
(* by the existence of a minimal counterexample.                           *)
(***************************************************************************)
EXTENDS Functions, FiniteSetTheorems, TLAPS

-----------------------------------------------------------------------------
(* Induction.                                                              *)

\* A set of sets with each set all of whose strict parts are in it contains
\* every finite set.
LEMMA SetInduction ==
  ASSUME NEW S, IsFiniteSet(S), NEW C,
         \A T \in SUBSET S : (\A U \in SUBSET T : U # T => U \in C) => T \in C
  PROVE  S \in C
<1> DEFINE Bad == (SUBSET S) \ C
<1>1. SUFFICES ASSUME Bad # {} PROVE FALSE
  OBVIOUS
<1>2. IsWellFoundedOn(StrictSubsetOrdering(S), SUBSET S)
  BY FS_StrictSubsetOrderingWellFounded, FS_FiniteSubsetsOfFinite
<1>3. Bad \subseteq SUBSET S
  OBVIOUS
<1>4. \E T \in Bad : \A U \in Bad : <<U, T>> \notin StrictSubsetOrdering(S)
  <2> HIDE DEF Bad
  <2> QED
    BY <1>1, <1>2, <1>3, WFMin
<1>5. PICK T \in Bad : \A U \in Bad : <<U, T>> \notin StrictSubsetOrdering(S)
  BY <1>4
<1>6. \A U \in SUBSET T : U # T => U \in C
  BY <1>5 DEF StrictSubsetOrdering
<1> QED
  BY <1>5, <1>6

\* A set with 0 and the successor of each of its numbers contains them all.
LEMMA NatSetInduction ==
  ASSUME NEW C, 0 \in C, \A n \in Nat : n \in C => n + 1 \in C
  PROVE  \A n \in Nat : n \in C
<1> DEFINE Bad == Nat \ C
<1>1. SUFFICES ASSUME Bad # {} PROVE FALSE
  OBVIOUS
<1>2. \E n \in Bad : \A m \in Bad : <<m, n>> \notin OpToRel(<, Nat)
  BY <1>1, NatLessThanWellFounded, WFMin
<1>3. PICK n \in Bad : \A m \in Bad : ~(m < n)
  BY <1>2 DEF OpToRel
<1>4. n # 0 /\ n - 1 \in Nat
  BY <1>3
<1>5. n - 1 \in C
  BY <1>3, <1>4
<1> QED
  BY <1>3, <1>4, <1>5

-----------------------------------------------------------------------------
(* The recursive function behind a sum exists and is determined.           *)

\* The element a fold takes out first.
Pick(s) == CHOOSE x \in s : TRUE

\* One step of the fold.
Adding(g, F, s) == IF s = {} THEN 0 ELSE F[Pick(s)] + g[s \ {Pick(s)}]

\* g is the sum of F over every set of D.
Sums(g, F, D) == g = [s \in D |-> Adding(g, F, s)]

\* What SumFunctionOnSet is defined to be.
LEMMA SumIs ==
  ASSUME NEW F, NEW S
  PROVE  SumFunctionOnSet(F, S) = (CHOOSE g : g = [s \in SUBSET S |-> Adding(g, F, s)])[S]
BY DEF SumFunctionOnSet, FoldFunctionOnSet, MapThenFoldSet, Adding, Pick

\* The parts of S of n elements at most.
UpTo(S, n) == {s \in SUBSET S : Cardinality(s) <= n}

\* A fold takes out one element of a finite set at a time.
LEMMA OneLess ==
  ASSUME NEW S, IsFiniteSet(S), NEW s \in SUBSET S, s # {}
  PROVE  /\ Pick(s) \in s
         /\ IsFiniteSet(s) /\ Cardinality(s) \in Nat \ {0}
         /\ Cardinality(s \ {Pick(s)}) = Cardinality(s) - 1
<1>1. Pick(s) \in s
  BY DEF Pick
<1>2. IsFiniteSet(s) /\ Cardinality(s) \in Nat
  BY FS_Subset, FS_CardinalityType
<1> QED
  BY <1>1, <1>2, FS_RemoveElement, FS_EmptySet

\* Sums of n elements give sums of n + 1.
LEMMA SumsExtend ==
  ASSUME NEW S, IsFiniteSet(S), NEW F, NEW n \in Nat, NEW g, Sums(g, F, UpTo(S, n))
  PROVE  \E h : Sums(h, F, UpTo(S, n + 1))
<1> DEFINE h == [s \in UpTo(S, n + 1) |-> Adding(g, F, s)]
<1>1. ASSUME NEW s \in UpTo(S, n + 1), s # {}
      PROVE  s \ {Pick(s)} \in UpTo(S, n) /\ s \ {Pick(s)} \in UpTo(S, n + 1)
  BY <1>1, OneLess DEF UpTo
<1>2. \A s \in UpTo(S, n) : s \in UpTo(S, n + 1) /\ h[s] = g[s]
  <2> TAKE s \in UpTo(S, n)
  <2>1. Cardinality(s) \in Nat
    BY FS_Subset, FS_CardinalityType DEF UpTo
  <2>2. s \in UpTo(S, n + 1)
    BY <2>1 DEF UpTo
  <2> QED
    BY <2>2 DEF Sums
<1>3. \A s \in UpTo(S, n + 1) : Adding(g, F, s) = Adding(h, F, s)
  BY <1>1, <1>2 DEF Adding
<1> QED
  BY <1>3 DEF Sums

\* There is a function that sums over every part of a finite set.
LEMMA SumsExist ==
  ASSUME NEW S, IsFiniteSet(S), NEW F
  PROVE  \E g : g = [s \in SUBSET S |-> Adding(g, F, s)]
<1> DEFINE C == {n \in Nat : \E g : Sums(g, F, UpTo(S, n))}
<1>1. 0 \in C
  <2> DEFINE g == [s \in UpTo(S, 0) |-> 0]
  <2>1. \A s \in UpTo(S, 0) : s = {}
    <3> TAKE s \in UpTo(S, 0)
    <3> QED
      BY FS_Subset, FS_CardinalityType, FS_EmptySet DEF UpTo
  <2>2. Sums(g, F, UpTo(S, 0))
    BY <2>1 DEF Sums, Adding
  <2> QED
    BY <2>2
<1>2. \A n \in Nat : n \in C => n + 1 \in C
  BY SumsExtend
<1>3. Cardinality(S) \in C
  <2> HIDE DEF C
  <2> QED
    BY <1>1, <1>2, NatSetInduction, FS_CardinalityType
<1>4. UpTo(S, Cardinality(S)) = SUBSET S
  BY FS_Subset DEF UpTo
<1>5. PICK g : Sums(g, F, SUBSET S)
  BY <1>3, <1>4
<1> QED
  BY <1>5 DEF Sums

\* Two such functions agree on a set of which both have every part.
LEMMA SumsUnique ==
  ASSUME NEW F, NEW D, NEW E, NEW T, NEW g, NEW h, IsFiniteSet(T),
         \A s \in SUBSET T : s \in D /\ s \in E, Sums(g, F, D), Sums(h, F, E)
  PROVE  g[T] = h[T]
<1> DEFINE C == {s \in SUBSET T : g[s] = h[s]}
<1>1. ASSUME NEW s \in SUBSET T, \A u \in SUBSET s : u # s => u \in C
      PROVE  s \in C
  <2>1. g[s] = Adding(g, F, s) /\ h[s] = Adding(h, F, s)
    BY DEF Sums
  <2>2. CASE s = {}
    BY <2>1, <2>2 DEF Adding
  <2>3. CASE s # {}
    <3>1. Pick(s) \in s
      BY <2>3 DEF Pick
    <3>2. g[s \ {Pick(s)}] = h[s \ {Pick(s)}]
      BY <1>1, <3>1
    <3> QED
      BY <2>1, <3>2 DEF Adding
  <2> QED
    BY <2>2, <2>3
<1>2. T \in C
  <2> HIDE DEF C
  <2> QED
    BY <1>1, SetInduction
<1> QED
  BY <1>2

-----------------------------------------------------------------------------
(* Sums.                                                                   *)

\* A sum over a finite set is an element's value and the sum of the rest.
LEMMA SumUnfolds ==
  ASSUME NEW F, NEW S, IsFiniteSet(S)
  PROVE  SumFunctionOnSet(F, S)
           = IF S = {} THEN 0
             ELSE F[Pick(S)] + SumFunctionOnSet(F, S \ {Pick(S)})
<1> DEFINE T == S \ {Pick(S)}
<1>1. IsFiniteSet(T) /\ T \in SUBSET S
  BY FS_Subset
<1>2. ASSUME NEW R, IsFiniteSet(R)
      PROVE  \E g : Sums(g, F, SUBSET R) /\ SumFunctionOnSet(F, R) = g[R]
  <2> DEFINE g == CHOOSE g : g = [s \in SUBSET R |-> Adding(g, F, s)]
  <2>1. g = [s \in SUBSET R |-> Adding(g, F, s)]
    BY <1>2, SumsExist
  <2>2. SumFunctionOnSet(F, R) = g[R]
    BY SumIs
  <2> HIDE DEF g
  <2> QED
    BY <2>1, <2>2 DEF Sums
<1>3. PICK g : Sums(g, F, SUBSET S) /\ SumFunctionOnSet(F, S) = g[S]
  BY <1>2
<1>4. PICK h : Sums(h, F, SUBSET T) /\ SumFunctionOnSet(F, T) = h[T]
  BY <1>1, <1>2
<1>5. g[T] = h[T]
  <2> HIDE DEF T
  <2>1. Sums(g, F, SUBSET S) /\ Sums(h, F, SUBSET T)
    BY <1>3, <1>4
  <2>2. \A s \in SUBSET T : s \in SUBSET S /\ s \in SUBSET T
    BY <1>1
  <2> QED
    BY <1>1, <2>1, <2>2, SumsUnique
<1>6. g[S] = Adding(g, F, S)
  BY <1>3 DEF Sums
<1> QED
  BY <1>3, <1>4, <1>5, <1>6 DEF Adding

\* Nothing sums up to 0.
LEMMA SumEmpty ==
  ASSUME NEW F
  PROVE  SumFunctionOnSet(F, {}) = 0
BY SumUnfolds, FS_EmptySet

\* A sum of integers is one.
LEMMA SumInt ==
  ASSUME NEW F, NEW S, IsFiniteSet(S), \A x \in S : F[x] \in Int
  PROVE  SumFunctionOnSet(F, S) \in Int
<1> DEFINE C == {T \in SUBSET S : SumFunctionOnSet(F, T) \in Int}
<1>1. ASSUME NEW T \in SUBSET S, \A U \in SUBSET T : U # T => U \in C
      PROVE  T \in C
  <2>1. IsFiniteSet(T)
    BY FS_Subset
  <2>2. CASE T = {}
    BY <2>2, SumEmpty
  <2>3. CASE T # {}
    <3>1. Pick(T) \in T
      BY <2>3 DEF Pick
    <3>2. SumFunctionOnSet(F, T \ {Pick(T)}) \in Int
      BY <1>1, <3>1
    <3>3. F[Pick(T)] \in Int
      BY <3>1
    <3>4. SumFunctionOnSet(F, T) = F[Pick(T)] + SumFunctionOnSet(F, T \ {Pick(T)})
      BY <2>1, <2>3, SumUnfolds
    <3> QED
      BY <3>2, <3>3, <3>4
  <2> QED
    BY <2>2, <2>3
<1> HIDE DEF C
<1>2. S \in C
  BY <1>1, SetInduction
<1> QED
  BY <1>2 DEF C

\* Any element may be split off.
LEMMA SumRemove ==
  ASSUME NEW F, NEW S, IsFiniteSet(S), \A x \in S : F[x] \in Int, NEW x \in S
  PROVE  SumFunctionOnSet(F, S) = F[x] + SumFunctionOnSet(F, S \ {x})
<1> DEFINE Split(T) ==
             \A y \in T : SumFunctionOnSet(F, T) = F[y] + SumFunctionOnSet(F, T \ {y})
           C == {T \in SUBSET S : Split(T)}
<1>1. ASSUME NEW T \in SUBSET S, \A U \in SUBSET T : U # T => U \in C
      PROVE  T \in C
  <2> SUFFICES ASSUME NEW y \in T
               PROVE  SumFunctionOnSet(F, T) = F[y] + SumFunctionOnSet(F, T \ {y})
    OBVIOUS
  <2> DEFINE z == Pick(T)
  <2>1. z \in T
    BY DEF Pick
  <2>2. IsFiniteSet(T) /\ IsFiniteSet(T \ {z}) /\ IsFiniteSet(T \ {y})
        /\ IsFiniteSet((T \ {y}) \ {z})
    BY FS_Subset
  <2>3. SumFunctionOnSet(F, T) = F[z] + SumFunctionOnSet(F, T \ {z})
    BY <2>1, <2>2, SumUnfolds
  <2> HIDE DEF z
  <2>4. CASE y = z
    BY <2>3, <2>4
  <2>5. CASE y # z
    <3>1. SumFunctionOnSet(F, T \ {z}) = F[y] + SumFunctionOnSet(F, (T \ {z}) \ {y})
      BY <1>1, <2>1, <2>5
    <3>2. SumFunctionOnSet(F, T \ {y}) = F[z] + SumFunctionOnSet(F, (T \ {y}) \ {z})
      BY <1>1, <2>1, <2>5
    <3>3. (T \ {z}) \ {y} = (T \ {y}) \ {z}
      OBVIOUS
    <3>4. F[y] \in Int /\ F[z] \in Int /\ SumFunctionOnSet(F, (T \ {y}) \ {z}) \in Int
      BY <2>1, <2>2, SumInt
    <3>5. SumFunctionOnSet(F, T) = F[z] + (F[y] + SumFunctionOnSet(F, (T \ {y}) \ {z}))
      BY <2>3, <3>1, <3>3
    <3> HIDE DEF C
    <3> QED
      BY <3>2, <3>4, <3>5
  <2> QED
    BY <2>4, <2>5
<1>2. S \in C
  <2> HIDE DEF C
  <2> QED
    BY <1>1, SetInduction
<1> QED
  BY <1>2

\* Any element may be added.
LEMMA SumAdd ==
  ASSUME NEW F, NEW S, IsFiniteSet(S), NEW x, x \notin S, \A y \in S \cup {x} : F[y] \in Int
  PROVE  SumFunctionOnSet(F, S \cup {x}) = F[x] + SumFunctionOnSet(F, S)
<1>1. IsFiniteSet(S \cup {x}) /\ (S \cup {x}) \ {x} = S
  BY FS_AddElement
<1> QED
  BY <1>1, SumRemove

\* A sum of values none of which is larger is not larger.
LEMMA SumLeq ==
  ASSUME NEW F, NEW G, NEW S, IsFiniteSet(S),
         \A x \in S : F[x] \in Int /\ G[x] \in Int /\ F[x] <= G[x]
  PROVE  SumFunctionOnSet(F, S) <= SumFunctionOnSet(G, S)
<1> DEFINE C == {T \in SUBSET S : SumFunctionOnSet(F, T) <= SumFunctionOnSet(G, T)}
<1>1. ASSUME NEW T \in SUBSET S, \A U \in SUBSET T : U # T => U \in C
      PROVE  T \in C
  <2>1. CASE T = {}
    BY <2>1, SumEmpty
  <2>2. CASE T # {}
    <3>1. PICK x \in T : TRUE
      BY <2>2
    <3> DEFINE U == T \ {x}
    <3>2. IsFiniteSet(T) /\ IsFiniteSet(U)
      BY FS_Subset
    <3>3. /\ SumFunctionOnSet(F, T) = F[x] + SumFunctionOnSet(F, U)
          /\ SumFunctionOnSet(G, T) = G[x] + SumFunctionOnSet(G, U)
      BY <3>2, SumRemove
    <3>4. SumFunctionOnSet(F, U) <= SumFunctionOnSet(G, U)
      BY <1>1
    <3>5. SumFunctionOnSet(F, U) \in Int /\ SumFunctionOnSet(G, U) \in Int
      BY <3>2, SumInt
    <3>6. F[x] \in Int /\ G[x] \in Int /\ F[x] <= G[x]
      OBVIOUS
    <3> HIDE DEF U, C
    <3>7. SumFunctionOnSet(F, T) <= SumFunctionOnSet(G, T)
      BY <3>3, <3>4, <3>5, <3>6
    <3> QED
      BY <3>7 DEF C
  <2> QED
    BY <2>1, <2>2
<1>2. S \in C
  <2> HIDE DEF C
  <2> QED
    BY <1>1, SetInduction
<1> QED
  BY <1>2

\* A sum depends on the values of the elements alone.
LEMMA SumEqual ==
  ASSUME NEW F, NEW G, NEW S, IsFiniteSet(S), \A x \in S : F[x] \in Int /\ F[x] = G[x]
  PROVE  SumFunctionOnSet(F, S) = SumFunctionOnSet(G, S)
<1>1. SumFunctionOnSet(F, S) <= SumFunctionOnSet(G, S)
  BY SumLeq
<1>2. SumFunctionOnSet(G, S) <= SumFunctionOnSet(F, S)
  BY SumLeq
<1>3. SumFunctionOnSet(F, S) \in Int /\ SumFunctionOnSet(G, S) \in Int
  BY SumInt
<1> QED
  BY <1>1, <1>2, <1>3

\* A sum of naturals is one.
LEMMA SumNat ==
  ASSUME NEW F, NEW S, IsFiniteSet(S), \A x \in S : F[x] \in Nat
  PROVE  SumFunctionOnSet(F, S) \in Nat
<1> DEFINE C == {T \in SUBSET S : SumFunctionOnSet(F, T) \in Nat}
<1>1. ASSUME NEW T \in SUBSET S, \A U \in SUBSET T : U # T => U \in C
      PROVE  T \in C
  <2>1. CASE T = {}
    BY <2>1, SumEmpty
  <2>2. CASE T # {}
    <3>1. PICK x \in T : TRUE
      BY <2>2
    <3>2. IsFiniteSet(T)
      BY FS_Subset
    <3>3. SumFunctionOnSet(F, T) = F[x] + SumFunctionOnSet(F, T \ {x})
      BY <3>2, SumRemove
    <3>4. SumFunctionOnSet(F, T \ {x}) \in Nat
      BY <1>1
    <3> QED
      BY <3>3, <3>4
  <2> QED
    BY <2>1, <2>2
<1>2. S \in C
  <2> HIDE DEF C
  <2> QED
    BY <1>1, SetInduction
<1> QED
  BY <1>2

\* The sum over two parts that share nothing is the sum of theirs.
LEMMA SumDisjoint ==
  ASSUME NEW F, NEW S, NEW T, IsFiniteSet(S), IsFiniteSet(T), S \cap T = {},
         \A x \in S \cup T : F[x] \in Int
  PROVE  SumFunctionOnSet(F, S \cup T) = SumFunctionOnSet(F, S) + SumFunctionOnSet(F, T)
<1> DEFINE C == {U \in SUBSET S : SumFunctionOnSet(F, U \cup T)
                                    = SumFunctionOnSet(F, U) + SumFunctionOnSet(F, T)}
<1>1. ASSUME NEW U \in SUBSET S, \A V \in SUBSET U : V # U => V \in C
      PROVE  U \in C
  <2>1. SumFunctionOnSet(F, T) \in Int
    BY SumInt
  <2>2. CASE U = {}
    <3>1. U \cup T = T
      BY <2>2
    <3>2. SumFunctionOnSet(F, U \cup T) = SumFunctionOnSet(F, T)
      BY <3>1, Zenon
    <3> QED
      BY <2>1, <2>2, <3>2, SumEmpty
  <2>3. CASE U # {}
    <3>1. PICK x \in U : TRUE
      BY <2>3
    <3> DEFINE V == U \ {x}
    <3>2. IsFiniteSet(U) /\ IsFiniteSet(V) /\ IsFiniteSet(U \cup T) /\ IsFiniteSet(V \cup T)
      BY FS_Subset, FS_Union
    <3>3. SumFunctionOnSet(F, U) = F[x] + SumFunctionOnSet(F, V)
      BY <3>2, SumRemove
    <3>4. (U \cup T) \ {x} = V \cup T
      OBVIOUS
    <3>5. SumFunctionOnSet(F, U \cup T) = F[x] + SumFunctionOnSet(F, V \cup T)
      <4>1. SumFunctionOnSet(F, U \cup T) = F[x] + SumFunctionOnSet(F, (U \cup T) \ {x})
        BY <3>2, SumRemove
      <4> HIDE DEF V, C
      <4> QED
        BY <3>4, <4>1, Zenon
    <3>6. SumFunctionOnSet(F, V \cup T) = SumFunctionOnSet(F, V) + SumFunctionOnSet(F, T)
      BY <1>1
    <3>7. F[x] \in Int /\ SumFunctionOnSet(F, V) \in Int
      BY <3>2, SumInt
    <3> HIDE DEF V, C
    <3>8. SumFunctionOnSet(F, U \cup T) = SumFunctionOnSet(F, U) + SumFunctionOnSet(F, T)
      BY <2>1, <3>3, <3>5, <3>6, <3>7
    <3> QED
      BY <3>8 DEF C
  <2> QED
    BY <2>2, <2>3
<1>2. S \in C
  <2> HIDE DEF C
  <2> QED
    BY <1>1, SetInduction
<1> QED
  BY <1>2

\* Of naturals, a part sums up to no more than the whole.
LEMMA SumSubset ==
  ASSUME NEW F, NEW S, NEW T, IsFiniteSet(T), S \subseteq T, \A x \in T : F[x] \in Nat
  PROVE  SumFunctionOnSet(F, S) <= SumFunctionOnSet(F, T)
<1>1. IsFiniteSet(S) /\ IsFiniteSet(T \ S) /\ S \cup (T \ S) = T
  BY FS_Subset
<1>2. SumFunctionOnSet(F, T) = SumFunctionOnSet(F, S) + SumFunctionOnSet(F, T \ S)
  BY <1>1, SumDisjoint
<1>3. SumFunctionOnSet(F, S) \in Nat /\ SumFunctionOnSet(F, T \ S) \in Nat
  BY <1>1, SumNat
<1> QED
  BY <1>2, <1>3

\* Zeros sum up to 0.
LEMMA SumZero ==
  ASSUME NEW F, NEW S, IsFiniteSet(S), \A x \in S : F[x] = 0
  PROVE  SumFunctionOnSet(F, S) = 0
<1> DEFINE C == {T \in SUBSET S : SumFunctionOnSet(F, T) = 0}
<1>1. ASSUME NEW T \in SUBSET S, \A U \in SUBSET T : U # T => U \in C
      PROVE  T \in C
  <2>1. CASE T = {}
    BY <2>1, SumEmpty
  <2>2. CASE T # {}
    <3>1. PICK x \in T : TRUE
      BY <2>2
    <3>2. IsFiniteSet(T) /\ F[x] = 0
      BY FS_Subset
    <3>3. SumFunctionOnSet(F, T) = F[x] + SumFunctionOnSet(F, T \ {x})
      BY <3>2, SumRemove
    <3>4. SumFunctionOnSet(F, T \ {x}) = 0
      BY <1>1
    <3> QED
      BY <3>2, <3>3, <3>4
  <2> QED
    BY <2>1, <2>2
<1>2. S \in C
  <2> HIDE DEF C
  <2> QED
    BY <1>1, SetInduction
<1> QED
  BY <1>2

\* The sum of what two functions make together is that of their sums.
LEMMA SumPlus ==
  ASSUME NEW F, NEW G, NEW H, NEW S, IsFiniteSet(S),
         \A x \in S : F[x] \in Int /\ G[x] \in Int /\ H[x] = F[x] + G[x]
  PROVE  SumFunctionOnSet(H, S) = SumFunctionOnSet(F, S) + SumFunctionOnSet(G, S)
<1> DEFINE C == {T \in SUBSET S : SumFunctionOnSet(H, T)
                                    = SumFunctionOnSet(F, T) + SumFunctionOnSet(G, T)}
<1>1. ASSUME NEW T \in SUBSET S, \A U \in SUBSET T : U # T => U \in C
      PROVE  T \in C
  <2>1. CASE T = {}
    BY <2>1, SumEmpty
  <2>2. CASE T # {}
    <3>1. PICK x \in T : TRUE
      BY <2>2
    <3> DEFINE V == T \ {x}
    <3>2. IsFiniteSet(T) /\ IsFiniteSet(V)
      BY FS_Subset
    <3>3. \A y \in S : F[y] \in Int /\ G[y] \in Int /\ H[y] \in Int
      OBVIOUS
    <3>4. /\ SumFunctionOnSet(F, T) = F[x] + SumFunctionOnSet(F, V)
          /\ SumFunctionOnSet(G, T) = G[x] + SumFunctionOnSet(G, V)
          /\ SumFunctionOnSet(H, T) = H[x] + SumFunctionOnSet(H, V)
      BY <3>2, <3>3, SumRemove
    <3>5. SumFunctionOnSet(H, V) = SumFunctionOnSet(F, V) + SumFunctionOnSet(G, V)
      BY <1>1
    <3>6. SumFunctionOnSet(F, V) \in Int /\ SumFunctionOnSet(G, V) \in Int
      BY <3>2, <3>3, SumInt
    <3>7. F[x] \in Int /\ G[x] \in Int /\ H[x] = F[x] + G[x]
      OBVIOUS
    <3> HIDE DEF V, C
    <3>8. SumFunctionOnSet(H, T) = SumFunctionOnSet(F, T) + SumFunctionOnSet(G, T)
      BY <3>4, <3>5, <3>6, <3>7
    <3> QED
      BY <3>8 DEF C
  <2> QED
    BY <2>1, <2>2
<1>2. S \in C
  <2> HIDE DEF C
  <2> QED
    BY <1>1, SetInduction
<1> QED
  BY <1>2

\* Elements carried one to one into another set, where none counts less, sum up
\* to no more than that set.
LEMMA SumInjective ==
  ASSUME NEW F, NEW G, NEW S, NEW T, NEW h, IsFiniteSet(S), IsFiniteSet(T),
         \A x \in S : h[x] \in T /\ F[x] \in Int /\ F[x] <= G[h[x]],
         \A x, y \in S : h[x] = h[y] => x = y,
         \A y \in T : G[y] \in Nat
  PROVE  SumFunctionOnSet(F, S) <= SumFunctionOnSet(G, T)
<1> DEFINE Image(U) == {h[x] : x \in U}
           C == {U \in SUBSET S : SumFunctionOnSet(F, U) <= SumFunctionOnSet(G, Image(U))}
<1>1. ASSUME NEW U \in SUBSET S
      PROVE  IsFiniteSet(U) /\ Image(U) \subseteq T /\ IsFiniteSet(Image(U))
  <2>1. Image(U) \subseteq T
    OBVIOUS
  <2> HIDE DEF Image
  <2> QED
    BY <2>1, FS_Subset
<1>2. ASSUME NEW U \in SUBSET S, \A V \in SUBSET U : V # U => V \in C
      PROVE  U \in C
  <2>1. CASE U = {}
    <3>1. Image({}) = {}
      OBVIOUS
    <3> HIDE DEF Image
    <3>2. SumFunctionOnSet(F, {}) = 0 /\ SumFunctionOnSet(G, Image({})) = 0
      BY <3>1, SumEmpty, Zenon
    <3> QED
      BY <2>1, <3>2
  <2>2. CASE U # {}
    <3>1. PICK x \in U : TRUE
      BY <2>2
    <3> DEFINE V == U \ {x}
    <3>2. V \in SUBSET S
      OBVIOUS
    <3>3. Image(U) \ {h[x]} = Image(V) /\ h[x] \in Image(U)
      <4>1. \A y \in V : h[y] # h[x] /\ y \in U
        OBVIOUS
      <4>2. \A y \in U : y = x \/ y \in V
        OBVIOUS
      <4> HIDE DEF V
      <4> QED
        BY <3>1, <4>1, <4>2
    <3>4. SumFunctionOnSet(F, V) <= SumFunctionOnSet(G, Image(V))
      BY <1>2
    <3>5. F[x] \in Int /\ G[h[x]] \in Nat /\ F[x] <= G[h[x]]
      OBVIOUS
    <3>6. SumFunctionOnSet(F, U) = F[x] + SumFunctionOnSet(F, V)
      <4>1. IsFiniteSet(U) /\ \A y \in U : F[y] \in Int
        BY <1>1
      <4> QED
        BY <4>1, SumRemove
    <3> HIDE DEF Image, V, C
    <3>7. SumFunctionOnSet(G, Image(U))
            = G[h[x]] + SumFunctionOnSet(G, Image(U) \ {h[x]})
      BY <1>1, <3>3, SumRemove
    <3>8. SumFunctionOnSet(G, Image(U)) = G[h[x]] + SumFunctionOnSet(G, Image(V))
      BY <3>3, <3>7, Zenon
    <3>9. SumFunctionOnSet(F, V) \in Int /\ SumFunctionOnSet(G, Image(V)) \in Int
      BY <1>1, <3>2, SumInt
    <3>10. SumFunctionOnSet(F, U) <= SumFunctionOnSet(G, Image(U))
      BY <3>4, <3>5, <3>6, <3>8, <3>9
    <3> QED
      BY <3>10 DEF C
  <2> QED
    BY <2>1, <2>2
<1>3. S \in C
  <2> HIDE DEF C
  <2> QED
    BY <1>2, SetInduction
<1>4. SumFunctionOnSet(F, S) <= SumFunctionOnSet(G, Image(S))
  BY <1>3
<1> HIDE DEF Image
<1>5. SumFunctionOnSet(G, Image(S)) <= SumFunctionOnSet(G, T)
  BY <1>1, SumSubset
<1>6. /\ SumFunctionOnSet(F, S) \in Int /\ SumFunctionOnSet(G, Image(S)) \in Int
      /\ SumFunctionOnSet(G, T) \in Int
  BY <1>1, SumInt
<1> QED
  BY <1>4, <1>5, <1>6

\* The sums over the classes of a set, by any colouring, sum up to its own.
LEMMA SumPartition ==
  ASSUME NEW F, NEW P, NEW S, NEW K, NEW c, IsFiniteSet(S), IsFiniteSet(K),
         \A x \in S : c[x] \in K /\ F[x] \in Int,
         \A k \in K : P[k] = SumFunctionOnSet(F, {x \in S : c[x] = k})
  PROVE  SumFunctionOnSet(P, K) = SumFunctionOnSet(F, S)
<1> DEFINE Of(L) == {x \in S : c[x] \in L}
           One(k) == {x \in S : c[x] = k}
           C == {L \in SUBSET K : SumFunctionOnSet(P, L) = SumFunctionOnSet(F, Of(L))}
<1>1. \A L : IsFiniteSet(Of(L)) /\ Of(L) \subseteq S
  <2> SUFFICES ASSUME NEW L PROVE IsFiniteSet(Of(L)) /\ Of(L) \subseteq S
    OBVIOUS
  <2>1. Of(L) \subseteq S
    OBVIOUS
  <2> HIDE DEF Of
  <2> QED
    BY <2>1, FS_Subset
<1>2. \A k : IsFiniteSet(One(k)) /\ One(k) \subseteq S
  <2> SUFFICES ASSUME NEW k PROVE IsFiniteSet(One(k)) /\ One(k) \subseteq S
    OBVIOUS
  <2>1. One(k) \subseteq S
    OBVIOUS
  <2> HIDE DEF One
  <2> QED
    BY <2>1, FS_Subset
<1>3. \A k \in K : P[k] = SumFunctionOnSet(F, One(k))
  OBVIOUS
<1>4. \A k \in K : P[k] \in Int
  <2> HIDE DEF One
  <2> QED
    BY <1>2, <1>3, SumInt
<1>5. ASSUME NEW L \in SUBSET K, \A M \in SUBSET L : M # L => M \in C
      PROVE  L \in C
  <2>1. CASE L = {}
    <3>1. Of({}) = {}
      OBVIOUS
    <3> HIDE DEF Of
    <3>2. SumFunctionOnSet(P, {}) = 0 /\ SumFunctionOnSet(F, Of({})) = 0
      BY <3>1, SumEmpty, Zenon
    <3> QED
      BY <2>1, <3>2
  <2>2. CASE L # {}
    <3>1. PICK k \in L : TRUE
      BY <2>2
    <3> DEFINE M == L \ {k}
    <3>2. Of(L) = Of(M) \cup One(k) /\ Of(M) \cap One(k) = {}
      OBVIOUS
    <3>3. SumFunctionOnSet(P, M) = SumFunctionOnSet(F, Of(M))
      BY <1>5
    <3>4. SumFunctionOnSet(P, L) = P[k] + SumFunctionOnSet(P, M)
      BY <1>4, FS_Subset, SumRemove
    <3> HIDE DEF Of, One, M, C
    <3>5. SumFunctionOnSet(F, Of(M) \cup One(k))
            = SumFunctionOnSet(F, Of(M)) + SumFunctionOnSet(F, One(k))
      BY <1>1, <1>2, <3>2, SumDisjoint
    <3>6. SumFunctionOnSet(F, Of(L))
            = SumFunctionOnSet(F, Of(M)) + SumFunctionOnSet(F, One(k))
      BY <3>2, <3>5, Zenon
    <3>7. SumFunctionOnSet(F, Of(M)) \in Int /\ SumFunctionOnSet(F, One(k)) \in Int
      BY <1>1, <1>2, SumInt
    <3>8. SumFunctionOnSet(P, L) = SumFunctionOnSet(F, Of(L))
      BY <1>3, <3>3, <3>4, <3>6, <3>7
    <3> QED
      BY <3>8 DEF C
  <2> QED
    BY <2>1, <2>2
<1>6. K \in C
  <2> HIDE DEF C
  <2> QED
    BY <1>5, SetInduction
<1>7. Of(K) = S
  OBVIOUS
<1>8. SumFunctionOnSet(P, K) = SumFunctionOnSet(F, Of(K))
  BY <1>6
<1> QED
  <2> HIDE DEF Of
  <2> QED
    BY <1>7, <1>8, Zenon

\* A function written out for a part of the elements sums up to the same.
LEMMA SumOver ==
  ASSUME NEW F, NEW S, IsFiniteSet(S), \A x \in S : F[x] \in Int
  PROVE  SumFunction([x \in S |-> F[x]]) = SumFunctionOnSet(F, S)
<1> DEFINE G == [x \in S |-> F[x]]
<1>1. SumFunction(G) = SumFunctionOnSet(G, DOMAIN G)
  BY DEF SumFunction
<1>2. DOMAIN G = S /\ \A x \in S : G[x] = F[x]
  OBVIOUS
<1> HIDE DEF G
<1>3. SumFunction(G) = SumFunctionOnSet(G, S)
  BY <1>1, <1>2, Zenon
<1>4. SumFunctionOnSet(F, S) = SumFunctionOnSet(G, S)
  BY <1>2, SumEqual
<1> QED
  BY <1>3, <1>4 DEF G
=============================================================================
