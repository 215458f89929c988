------------------------- MODULE RecursionTheorems -------------------------
(***************************************************************************)
(* What recursive functions compute, for every input: the sums of the      *)
(* community modules (SumFunction, SumFunctionOnSet), which the console's  *)
(* totals, breakdowns and filters are, and loops over the elements of a    *)
(* sequence.  The facts about them follow by assuming the smallest         *)
(* counterexample: there is one, because proper inclusion of finite sets,  *)
(* and < on the naturals, are well-founded.                                *)
(***************************************************************************)
EXTENDS FiniteSetsExt, FiniteSetTheorems, TLAPS

(* A collection of subsets of a finite set has a smallest one. *)
LEMMA SmallestSubset ==
  ASSUME NEW S, IsFiniteSet(S), NEW C \in SUBSET SUBSET S, C # {}
  PROVE  \E T \in C : \A U \in SUBSET T : U # T => U \notin C
<1>1. IsWellFoundedOn(StrictSubsetOrdering(S), SUBSET S)
  BY FS_StrictSubsetOrderingWellFounded, FS_FiniteSubsetsOfFinite
<1>2. \E T \in C : \A U \in C : ~(<<U, T>> \in StrictSubsetOrdering(S))
  BY <1>1, WFMin
<1> QED
  BY <1>2 DEF StrictSubsetOrdering

(* A set of naturals has a least element. *)
LEMMA LeastNatural ==
  ASSUME NEW N \in SUBSET Nat, N # {}
  PROVE  \E n \in N : \A m \in N : n <= m
<1> DEFINE less == OpToRel(<, Nat)
<1>1. \A m, n \in Nat : m < n => <<m, n>> \in less
  BY DEF OpToRel
<1>2. IsWellFoundedOn(less, Nat)
  BY NatLessThanWellFounded
<1> HIDE DEF less
<1>3. PICK n \in N : \A m \in N : ~(<<m, n>> \in less)
  BY <1>2, WFMin
<1>4. ASSUME NEW m \in N PROVE n <= m
  <2>1. ~(m < n)
    BY <1>1, <1>3
  <2> QED
    BY <2>1
<1> QED
  BY <1>4

(* A bounded one has a greatest. *)
LEMMA GreatestNatural ==
  ASSUME NEW N \in SUBSET Nat, N # {}, NEW b \in Nat, \A n \in N : n <= b
  PROVE  Max(N) \in N /\ \A n \in N : n <= Max(N)
<1> DEFINE gaps == {b - n : n \in N}
<1>1. gaps \in SUBSET Nat /\ gaps # {}
  <2>1. \A n \in N : b - n \in Nat
    OBVIOUS
  <2> QED
    BY <2>1
<1>2. PICK g \in gaps : \A h \in gaps : g <= h
  <2> HIDE DEF gaps
  <2> QED
    BY <1>1, LeastNatural
<1>3. PICK n \in N : g = b - n
  OBVIOUS
<1>4. ASSUME NEW m \in N PROVE n >= m
  <2>1. g <= b - m
    BY <1>2
  <2> QED
    BY <1>3, <2>1
<1> QED
  BY <1>4 DEF Max

(* Counting from 0 to n. *)
LEMMA Counting ==
  ASSUME NEW n \in Nat, NEW I, 0 \in I, \A i \in 1..n : i - 1 \in I => i \in I
  PROVE  0..n \subseteq I
<1> DEFINE C == {i \in 0..n : i \notin I}
<1> SUFFICES ASSUME C # {} PROVE FALSE
  OBVIOUS
<1>1. PICK m \in C : \A i \in C : m <= i
  <2>1. C \in SUBSET Nat
    OBVIOUS
  <2> HIDE DEF C
  <2> QED
    BY <2>1, LeastNatural
<1>2. m \in 0..n /\ m \notin I
  OBVIOUS
<1>3. m \in 1..n /\ m - 1 \in 0..n
  BY <1>2
<1>4. m - 1 \in I
  <2>1. m - 1 \in I \/ m <= m - 1
    BY <1>1, <1>3
  <2> QED
    BY <1>3, <2>1
<1> QED
  BY <1>2, <1>3, <1>4

(* A loop from z, whose i-th round makes of x what step[i][x] is. *)
Loop(z, step, n, g) == g[0] = z /\ \A i \in 1..n : g[i] = step[i][g[i - 1]]

LEMMA LoopExists ==
  ASSUME NEW n \in Nat, NEW S, NEW z \in S, NEW step \in [1..n -> [S -> S]]
  PROVE  \E g \in [0..n -> S] : Loop(z, step, n, g)
<1> DEFINE I == {m \in 0..n : \E g \in [0..m -> S] : Loop(z, step, m, g)}
<1>1. 0 \in I
  <2>1. [i \in 0..0 |-> z] \in [0..0 -> S] /\ Loop(z, step, 0, [i \in 0..0 |-> z])
    BY DEF Loop
  <2> QED
    BY <2>1
<1>2. ASSUME NEW m \in 1..n, m - 1 \in I PROVE m \in I
  <2>1. PICK g \in [0..(m - 1) -> S] : Loop(z, step, m - 1, g)
    BY <1>2
  <2> DEFINE h == [i \in 0..m |-> IF i = m THEN step[m][g[m - 1]] ELSE g[i]]
  <2>2. g[m - 1] \in S /\ step[m][g[m - 1]] \in S
    <3>1. m - 1 \in 0..(m - 1)
      OBVIOUS
    <3> QED
      BY <3>1
  <2>3. h \in [0..m -> S]
    BY <2>2
  <2>4. h[0] = z
    <3>1. 0 \in 0..m /\ 0 # m
      OBVIOUS
    <3> QED
      BY <2>1, <3>1 DEF Loop
  <2>5. ASSUME NEW i \in 1..m PROVE h[i] = step[i][h[i - 1]]
    <3>1. h[i - 1] = g[i - 1]
      <4>1. i - 1 \in 0..m /\ i - 1 # m
        OBVIOUS
      <4> QED
        BY <4>1
    <3>2. CASE i = m
      <4>1. h[i] = step[m][g[m - 1]]
        BY <3>2
      <4> HIDE DEF h
      <4> QED
        BY <3>1, <3>2, <4>1
    <3>3. CASE i # m
      <4>1. i \in 1..(m - 1) /\ i \in 0..m
        BY <3>3
      <4>2. h[i] = g[i]
        BY <3>3, <4>1
      <4>3. g[i] = step[i][g[i - 1]]
        BY <2>1, <4>1 DEF Loop
      <4> HIDE DEF h
      <4> QED
        BY <3>1, <4>2, <4>3
    <3> QED
      BY <3>2, <3>3
  <2> HIDE DEF h
  <2>6. Loop(z, step, m, h)
    BY <2>4, <2>5 DEF Loop
  <2> QED
    BY <2>3, <2>6
<1>3. 0..n \subseteq I
  <2> HIDE DEF I
  <2> QED
    BY <1>1, <1>2, Counting
<1> QED
  BY <1>3

(* What a function takes finitely many arguments to is finite. *)
LEMMA FiniteImage ==
  ASSUME NEW S, IsFiniteSet(S), NEW f
  PROVE  IsFiniteSet({f[x] : x \in S})
<1> DEFINE T == {f[x] : x \in S}
           h == [x \in S |-> f[x]]
<1>1. h \in Surjection(S, T)
  BY DEF Surjection
<1> HIDE DEF h, T
<1> QED
  BY <1>1, FS_Surjection DEF T

-----------------------------------------------------------------------------
(* The recursion by which a sum is defined, and the element it picks. *)
Chosen(S) == CHOOSE x \in S : TRUE

Summing(f, S, g) ==
  g = [s \in SUBSET S |-> IF s = {} THEN 0 ELSE f[Chosen(s)] + g[s \ {Chosen(s)}]]

LEMMA SummingValue ==
  ASSUME NEW f, NEW S, NEW g, Summing(f, S, g), NEW s \in SUBSET S
  PROVE  g[s] = IF s = {} THEN 0 ELSE f[Chosen(s)] + g[s \ {Chosen(s)}]
<1> DEFINE G == [t \in SUBSET S |-> IF t = {} THEN 0 ELSE f[Chosen(t)] + g[t \ {Chosen(t)}]]
<1>1. g = G
  BY DEF Summing
<1>2. G[s] = IF s = {} THEN 0 ELSE f[Chosen(s)] + g[s \ {Chosen(s)}]
  OBVIOUS
<1> QED
  BY <1>1, <1>2

LEMMA SumIsSumming ==
  ASSUME NEW f, NEW S
  PROVE  SumFunctionOnSet(f, S) = (CHOOSE g : Summing(f, S, g))[S]
BY DEF SumFunctionOnSet, FoldFunctionOnSet, MapThenFoldSet, Summing, Chosen

LEMMA ChosenIn == ASSUME NEW S, S # {} PROVE Chosen(S) \in S
BY DEF Chosen

(* Two summings of one function agree where both are defined. *)
LEMMA SummingUnique ==
  ASSUME NEW f, NEW S, IsFiniteSet(S), NEW T, NEW g, NEW h, Summing(f, S, g), Summing(f, T, h)
  PROVE  \A s \in (SUBSET S) \cap (SUBSET T) : g[s] = h[s]
<1> DEFINE C == {s \in (SUBSET S) \cap (SUBSET T) : g[s] # h[s]}
<1> SUFFICES ASSUME C # {} PROVE FALSE
  OBVIOUS
<1>1. PICK s \in C : \A u \in SUBSET s : u # s => u \notin C
  <2>1. C \in SUBSET SUBSET S
    OBVIOUS
  <2> HIDE DEF C
  <2> QED
    BY <2>1, SmallestSubset
<1>2. CASE s = {}
  BY <1>2, SummingValue
<1>3. CASE s # {}
  <2> DEFINE u == s \ {Chosen(s)}
  <2>1. u \in (SUBSET S) \cap (SUBSET T) /\ u # s /\ u \subseteq s
    BY <1>3, ChosenIn
  <2>2. g[u] = h[u]
    BY <1>1, <2>1
  <2> QED
    BY <1>3, <2>2, SummingValue
<1> QED
  BY <1>2, <1>3

(* Every finite set has a summing. *)
LEMMA SummingExists ==
  ASSUME NEW f, NEW S, IsFiniteSet(S)
  PROVE  \E g : Summing(f, S, g)
<1> DEFINE C == {s \in SUBSET S : ~ \E g : Summing(f, s, g)}
<1> SUFFICES ASSUME C # {} PROVE FALSE
  OBVIOUS
<1>1. PICK s \in C : \A u \in SUBSET s : u # s => u \notin C
  <2>1. C \in SUBSET SUBSET S
    OBVIOUS
  <2> HIDE DEF C
  <2> QED
    BY <2>1, SmallestSubset
<1> DEFINE part(u) == CHOOSE g : Summing(f, u, g)
           below(u) == u \ {Chosen(u)}
           g == [u \in SUBSET s |-> IF u = {} THEN 0 ELSE f[Chosen(u)] + part(below(u))[below(u)]]
<1>2. ASSUME NEW u \in SUBSET s, u # s PROVE Summing(f, u, part(u))
  <2>1. \E h : Summing(f, u, h)
    BY <1>1, <1>2
  <2> QED
    BY <2>1
<1>3. ASSUME NEW u \in SUBSET s, u # s PROVE g[u] = part(u)[u]
  <2>1. CASE u = {}
    BY <1>2, <1>3, <2>1, SummingValue
  <2>2. CASE u # {}
    <3>1. below(u) \in SUBSET s /\ below(u) # s /\ below(u) \in SUBSET u
      BY <2>2, <1>3, ChosenIn
    <3>2. Summing(f, u, part(u)) /\ Summing(f, below(u), part(below(u)))
      BY <1>2, <1>3, <3>1
    <3>3. IsFiniteSet(u)
      BY FS_Subset
    <3> HIDE DEF part
    <3>4. part(u)[below(u)] = part(below(u))[below(u)]
      BY <3>1, <3>2, <3>3, SummingUnique
    <3>5. part(u)[u] = f[Chosen(u)] + part(u)[below(u)]
      BY <2>2, <3>2, SummingValue
    <3> QED
      BY <2>2, <3>4, <3>5
  <2> QED
    BY <2>1, <2>2
<1>4. \A u \in SUBSET s : u # {} => below(u) \in SUBSET s /\ below(u) # s
  BY ChosenIn
<1>5. g = [u \in SUBSET s |-> IF u = {} THEN 0 ELSE f[Chosen(u)] + g[below(u)]]
  <2>1. \A u \in SUBSET s : u # {} => part(below(u))[below(u)] = g[below(u)]
    BY <1>3, <1>4
  <2> HIDE DEF part, below
  <2> QED
    BY <2>1
<1> QED
  BY <1>5 DEF Summing

-----------------------------------------------------------------------------
(* The sum of nothing, and of a set by the element it picks. *)
LEMMA SumEmpty == ASSUME NEW f PROVE SumFunctionOnSet(f, {}) = 0
<1>1. PICK g : Summing(f, {}, g)
  BY FS_EmptySet, SummingExists
<1>2. Summing(f, {}, CHOOSE h : Summing(f, {}, h))
  BY <1>1
<1> QED
  BY <1>2, SumIsSumming, SummingValue

LEMMA SumChosen ==
  ASSUME NEW f, NEW S, IsFiniteSet(S), S # {}
  PROVE  SumFunctionOnSet(f, S) = f[Chosen(S)] + SumFunctionOnSet(f, S \ {Chosen(S)})
<1> DEFINE U == S \ {Chosen(S)}
           g == CHOOSE h : Summing(f, S, h)
           k == CHOOSE h : Summing(f, U, h)
<1>1. IsFiniteSet(U) /\ U \subseteq S
  BY FS_RemoveElement
<1>2. Summing(f, S, g)
  BY SummingExists
<1>3. Summing(f, U, k)
  BY <1>1, SummingExists
<1>4. SumFunctionOnSet(f, S) = g[S] /\ SumFunctionOnSet(f, U) = k[U]
  BY SumIsSumming
<1> HIDE DEF g, k
<1>5. g[U] = k[U]
  <2> HIDE DEF U
  <2>1. U \in (SUBSET S) \cap (SUBSET U)
    BY <1>1
  <2> QED
    BY <1>2, <1>3, <2>1, SummingUnique
<1>6. g[S] = f[Chosen(S)] + g[U]
  BY <1>2, SummingValue
<1> QED
  BY <1>4, <1>5, <1>6

(* Only the values on the set matter. *)
LEMMA SumCongruence ==
  ASSUME NEW f, NEW g, NEW S, IsFiniteSet(S), \A x \in S : f[x] = g[x]
  PROVE  SumFunctionOnSet(f, S) = SumFunctionOnSet(g, S)
<1> DEFINE C == {s \in SUBSET S : SumFunctionOnSet(f, s) # SumFunctionOnSet(g, s)}
<1> SUFFICES ASSUME C # {} PROVE FALSE
  OBVIOUS
<1>1. PICK s \in C : \A u \in SUBSET s : u # s => u \notin C
  <2>1. C \in SUBSET SUBSET S
    OBVIOUS
  <2> HIDE DEF C
  <2> QED
    BY <2>1, SmallestSubset
<1>2. s # {}
  BY SumEmpty
<1> DEFINE u == s \ {Chosen(s)}
<1>3. IsFiniteSet(s) /\ Chosen(s) \in S /\ u \in SUBSET s /\ u # s
  BY <1>2, FS_Subset, ChosenIn
<1>4. SumFunctionOnSet(f, u) = SumFunctionOnSet(g, u)
  BY <1>1, <1>3
<1>5. /\ SumFunctionOnSet(f, s) = f[Chosen(s)] + SumFunctionOnSet(f, u)
      /\ SumFunctionOnSet(g, s) = g[Chosen(s)] + SumFunctionOnSet(g, u)
  BY <1>2, <1>3, SumChosen
<1> QED
  BY <1>3, <1>4, <1>5

LEMMA SumNat ==
  ASSUME NEW f, NEW S, IsFiniteSet(S), \A x \in S : f[x] \in Nat
  PROVE  SumFunctionOnSet(f, S) \in Nat
<1> DEFINE C == {s \in SUBSET S : SumFunctionOnSet(f, s) \notin Nat}
<1> SUFFICES ASSUME C # {} PROVE FALSE
  OBVIOUS
<1>1. PICK s \in C : \A u \in SUBSET s : u # s => u \notin C
  <2>1. C \in SUBSET SUBSET S
    OBVIOUS
  <2> HIDE DEF C
  <2> QED
    BY <2>1, SmallestSubset
<1>2. s # {}
  BY SumEmpty
<1> DEFINE u == s \ {Chosen(s)}
<1>3. IsFiniteSet(s) /\ Chosen(s) \in S /\ u \in SUBSET s /\ u # s
  BY <1>2, FS_Subset, ChosenIn
<1>4. SumFunctionOnSet(f, u) \in Nat
  BY <1>1, <1>3
<1>5. SumFunctionOnSet(f, s) = f[Chosen(s)] + SumFunctionOnSet(f, u)
  BY <1>2, <1>3, SumChosen
<1> QED
  BY <1>3, <1>4, <1>5

(* Any element can be taken out first. *)
LEMMA SumRemove ==
  ASSUME NEW f, NEW S, IsFiniteSet(S), \A x \in S : f[x] \in Nat, NEW e \in S
  PROVE  SumFunctionOnSet(f, S) = f[e] + SumFunctionOnSet(f, S \ {e})
<1> DEFINE C == {s \in SUBSET S : \E x \in s : SumFunctionOnSet(f, s) # f[x] + SumFunctionOnSet(f, s \ {x})}
<1> SUFFICES ASSUME C # {} PROVE FALSE
  OBVIOUS
<1>1. PICK s \in C : \A u \in SUBSET s : u # s => u \notin C
  <2>1. C \in SUBSET SUBSET S
    OBVIOUS
  <2> HIDE DEF C
  <2> QED
    BY <2>1, SmallestSubset
<1>2. PICK x \in s : SumFunctionOnSet(f, s) # f[x] + SumFunctionOnSet(f, s \ {x})
  OBVIOUS
<1> DEFINE c == Chosen(s)
           u == s \ {c}
<1>3. IsFiniteSet(s) /\ c \in s /\ u \in SUBSET s /\ u # s
  BY FS_Subset, ChosenIn
<1>4. SumFunctionOnSet(f, s) = f[c] + SumFunctionOnSet(f, u)
  BY <1>3, SumChosen
<1> HIDE DEF c
<1>5. x # c
  BY <1>2, <1>4
<1>6. SumFunctionOnSet(f, u) = f[x] + SumFunctionOnSet(f, u \ {x})
  BY <1>1, <1>3, <1>5
<1>7. SumFunctionOnSet(f, s \ {x}) = f[c] + SumFunctionOnSet(f, (s \ {x}) \ {c})
  BY <1>1, <1>3, <1>5
<1>8. (s \ {x}) \ {c} = u \ {x}
  OBVIOUS
<1>9. SumFunctionOnSet(f, u \ {x}) \in Nat /\ f[x] \in Nat /\ f[c] \in Nat
  BY <1>3, FS_RemoveElement, SumNat
<1> QED
  BY <1>2, <1>4, <1>6, <1>7, <1>8, <1>9

-----------------------------------------------------------------------------
(* Sums over a set and its parts. *)
LEMMA SumUnion ==
  ASSUME NEW f, NEW S, NEW T, IsFiniteSet(S), IsFiniteSet(T), S \cap T = {},
         \A x \in S \cup T : f[x] \in Nat
  PROVE  SumFunctionOnSet(f, S \cup T) = SumFunctionOnSet(f, S) + SumFunctionOnSet(f, T)
<1> DEFINE Splits(u) == SumFunctionOnSet(f, u \cup T) = SumFunctionOnSet(f, u) + SumFunctionOnSet(f, T)
           C == {u \in SUBSET S : ~Splits(u)}
<1> SUFFICES ASSUME C # {} PROVE FALSE
  OBVIOUS
<1>1. PICK s \in C : \A u \in SUBSET s : u # s => u \notin C
  <2>1. C \in SUBSET SUBSET S
    OBVIOUS
  <2> HIDE DEF C
  <2> QED
    BY <2>1, SmallestSubset
<1>2. SumFunctionOnSet(f, T) \in Nat
  BY SumNat
<1>3. s # {}
  <2>1. {} \cup T = T
    OBVIOUS
  <2> QED
    BY <1>2, <2>1, SumEmpty
<1>4. PICK e \in s : TRUE
  BY <1>3
<1> DEFINE u == s \ {e}
<1>5. /\ IsFiniteSet(s) /\ IsFiniteSet(s \cup T) /\ IsFiniteSet(u)
      /\ u \in SUBSET s /\ u # s /\ s \cup T \subseteq S \cup T
  BY FS_Subset, FS_Union, FS_RemoveElement
<1>6. Splits(u)
  BY <1>1, <1>5
<1>7. (s \cup T) \ {e} = u \cup T
  OBVIOUS
<1>8. /\ SumFunctionOnSet(f, s) = f[e] + SumFunctionOnSet(f, u)
      /\ SumFunctionOnSet(f, s \cup T) = f[e] + SumFunctionOnSet(f, u \cup T)
  <2> HIDE DEF u
  <2>1. \A x \in s : f[x] \in Nat
    OBVIOUS
  <2>2. \A x \in s \cup T : f[x] \in Nat
    OBVIOUS
  <2>3. e \in s \cup T
    OBVIOUS
  <2>4. SumFunctionOnSet(f, s) = f[e] + SumFunctionOnSet(f, s \ {e})
    BY <1>5, <2>1, SumRemove
  <2>5. SumFunctionOnSet(f, s \cup T) = f[e] + SumFunctionOnSet(f, (s \cup T) \ {e})
    BY <1>5, <2>2, <2>3, SumRemove
  <2> QED
    BY <1>7, <2>4, <2>5 DEF u
<1>9. SumFunctionOnSet(f, u) \in Nat /\ f[e] \in Nat
  BY <1>5, SumNat
<1> QED
  BY <1>2, <1>6, <1>8, <1>9

LEMMA SumMonotone ==
  ASSUME NEW f, NEW T, IsFiniteSet(T), \A x \in T : f[x] \in Nat, NEW S \in SUBSET T
  PROVE  /\ SumFunctionOnSet(f, S) <= SumFunctionOnSet(f, T)
         /\ SumFunctionOnSet(f, S) \in Nat /\ SumFunctionOnSet(f, T) \in Nat
<1> DEFINE R == T \ S
<1>1. IsFiniteSet(S) /\ IsFiniteSet(R)
  BY FS_Subset
<1>2. S \cup R = T /\ S \cap R = {}
  OBVIOUS
<1>3. SumFunctionOnSet(f, S \cup R) = SumFunctionOnSet(f, S) + SumFunctionOnSet(f, R)
  <2> HIDE DEF R
  <2> QED
    BY <1>1, <1>2, SumUnion
<1>4. SumFunctionOnSet(f, S) \in Nat /\ SumFunctionOnSet(f, R) \in Nat /\ SumFunctionOnSet(f, T) \in Nat
  BY <1>1, SumNat
<1> QED
  BY <1>2, <1>3, <1>4

LEMMA SumSingleton ==
  ASSUME NEW f, NEW x, f[x] \in Nat
  PROVE  SumFunctionOnSet(f, {x}) = f[x]
<1>1. IsFiniteSet({x}) /\ {x} \ {x} = {}
  BY FS_Singleton
<1>2. SumFunctionOnSet(f, {x}) = f[x] + SumFunctionOnSet(f, {x} \ {x})
  BY <1>1, SumRemove
<1> QED
  BY <1>1, <1>2, SumEmpty

(* A sum divides over the values of any key: no element is lost or counted
   twice. *)
LEMMA SumByKey ==
  ASSUME NEW f, NEW S, IsFiniteSet(S), \A x \in S : f[x] \in Nat,
         NEW key, NEW K, IsFiniteSet(K), \A x \in S : key[x] \in K,
         NEW F, \A k \in K : F[k] = SumFunctionOnSet(f, {x \in S : key[x] = k})
  PROVE  SumFunctionOnSet(F, K) = SumFunctionOnSet(f, S)
<1> DEFINE of(L) == {x \in S : key[x] \in L}
           Divides(L) == SumFunctionOnSet(F, L) = SumFunctionOnSet(f, of(L))
           C == {L \in SUBSET K : ~Divides(L)}
<1>1. \A k \in K : F[k] \in Nat
  <2> TAKE k \in K
  <2>1. IsFiniteSet({x \in S : key[x] = k})
    BY FS_Subset
  <2> QED
    BY <2>1, SumNat
<1>2. C = {}
  <2> SUFFICES ASSUME C # {} PROVE FALSE
    OBVIOUS
  <2>1. PICK L \in C : \A u \in SUBSET L : u # L => u \notin C
    <3>1. C \in SUBSET SUBSET K
      OBVIOUS
    <3> HIDE DEF C
    <3> QED
      BY <3>1, SmallestSubset
  <2>2. L # {}
    <3>1. of({}) = {}
      OBVIOUS
    <3> QED
      BY <3>1, SumEmpty
  <2>3. PICK k \in L : TRUE
    BY <2>2
  <2> DEFINE u == L \ {k}
             here == {x \in S : key[x] = k}
  <2>4. IsFiniteSet(L) /\ u \in SUBSET L /\ u # L
    BY FS_Subset
  <2>5. Divides(u)
    BY <2>1, <2>4
  <2>6. SumFunctionOnSet(F, L) = F[k] + SumFunctionOnSet(F, u)
    BY <1>1, <2>4, SumRemove
  <2>7. of(L) = of(u) \cup here /\ of(u) \cap here = {}
    OBVIOUS
  <2>8. IsFiniteSet(of(u)) /\ IsFiniteSet(here) /\ of(u) \subseteq S /\ here \subseteq S
    BY FS_Subset
  <2>9. SumFunctionOnSet(f, of(L)) = SumFunctionOnSet(f, of(u)) + SumFunctionOnSet(f, here)
    <3>1. \A x \in of(u) \cup here : f[x] \in Nat
      OBVIOUS
    <3> HIDE DEF of, here, u
    <3> QED
      BY <2>7, <2>8, <3>1, SumUnion
  <2>10. SumFunctionOnSet(f, of(u)) \in Nat /\ SumFunctionOnSet(f, here) \in Nat
    <3> HIDE DEF of, here
    <3> QED
      BY <2>8, SumNat
  <2>11. F[k] = SumFunctionOnSet(f, here)
    OBVIOUS
  <2> HIDE DEF of, here
  <2> QED
    BY <2>1, <2>5, <2>6, <2>9, <2>10, <2>11
<1>3. of(K) = S
  OBVIOUS
<1> HIDE DEF of
<1> QED
  BY <1>2, <1>3

(* Renaming the elements changes no sum. *)
LEMMA SumBijection ==
  ASSUME NEW f, NEW S, IsFiniteSet(S), \A x \in S : f[x] \in Nat,
         NEW key, NEW K, IsFiniteSet(K), \A x \in S : key[x] \in K,
         NEW F, \A k \in K : \E x \in S : /\ F[k] = f[x] /\ key[x] = k
                                          /\ \A y \in S : key[y] = k => y = x
  PROVE  SumFunctionOnSet(F, K) = SumFunctionOnSet(f, S)
<1>1. ASSUME NEW k \in K PROVE F[k] = SumFunctionOnSet(f, {x \in S : key[x] = k})
  <2>1. PICK x \in S : F[k] = f[x] /\ key[x] = k /\ \A y \in S : key[y] = k => y = x
    OBVIOUS
  <2>2. {y \in S : key[y] = k} = {x}
    BY <2>1
  <2> QED
    BY <2>1, <2>2, SumSingleton
<1> QED
  BY <1>1, SumByKey

(* The size of a set is a sum of ones. *)
LEMMA SumOfOnes ==
  ASSUME NEW f, NEW S, IsFiniteSet(S), \A x \in S : f[x] = 1
  PROVE  SumFunctionOnSet(f, S) = Cardinality(S)
<1> DEFINE C == {s \in SUBSET S : SumFunctionOnSet(f, s) # Cardinality(s)}
<1> SUFFICES ASSUME C # {} PROVE FALSE
  OBVIOUS
<1>1. PICK s \in C : \A u \in SUBSET s : u # s => u \notin C
  <2>1. C \in SUBSET SUBSET S
    OBVIOUS
  <2> HIDE DEF C
  <2> QED
    BY <2>1, SmallestSubset
<1>2. s # {}
  BY SumEmpty, FS_EmptySet
<1>3. PICK e \in s : TRUE
  BY <1>2
<1> DEFINE u == s \ {e}
<1>4. IsFiniteSet(s) /\ e \in S /\ u \in SUBSET s /\ u # s
  BY FS_Subset
<1>5. SumFunctionOnSet(f, u) = Cardinality(u)
  BY <1>1, <1>4
<1>6. SumFunctionOnSet(f, s) = f[e] + SumFunctionOnSet(f, u)
  BY <1>4, SumRemove
<1>7. Cardinality(u) = Cardinality(s) - 1 /\ Cardinality(s) \in Nat
  BY <1>4, FS_RemoveElement, FS_CardinalityType
<1> QED
  BY <1>4, <1>5, <1>6, <1>7

(* Counting key by key. *)
CountsByKey(F, S, key, K) ==
  /\ \A x \in S : key[x] \in K
  /\ \A k \in K : F[k] = Cardinality({x \in S : key[x] = k})

LEMMA SumOfCounts ==
  ASSUME NEW S, IsFiniteSet(S), NEW key, NEW K, IsFiniteSet(K), NEW F, CountsByKey(F, S, key, K)
  PROVE  SumFunctionOnSet(F, K) = Cardinality(S)
<1>1. PICK ones : ones = [x \in S |-> 1]
  OBVIOUS
<1>2. (\A x \in S : ones[x] = 1) /\ \A x \in S : ones[x] \in Nat
  BY <1>1
<1>3. ASSUME NEW k \in K PROVE F[k] = SumFunctionOnSet(ones, {x \in S : key[x] = k})
  <2> DEFINE V == {x \in S : key[x] = k}
  <2>1. IsFiniteSet(V) /\ \A x \in V : ones[x] = 1
    BY <1>2, FS_Subset
  <2>2. F[k] = Cardinality(V)
    BY DEF CountsByKey
  <2> HIDE DEF V
  <2>3. SumFunctionOnSet(ones, V) = Cardinality(V)
    BY <2>1, SumOfOnes
  <2> QED
    BY <2>2, <2>3 DEF V
<1>4. SumFunctionOnSet(F, K) = SumFunctionOnSet(ones, S)
  BY <1>2, <1>3, SumByKey DEF CountsByKey
<1> QED
  BY <1>2, <1>4, SumOfOnes

(* Where every positive value has a positive price, so has their sum. *)
LEMMA SumPositive ==
  ASSUME NEW f, NEW S, IsFiniteSet(S), \A x \in S : f[x] \in Nat,
         NEW g, \A x \in S : g[x] \in Nat /\ (f[x] > 0 => g[x] > 0),
         SumFunctionOnSet(f, S) > 0
  PROVE  SumFunctionOnSet(g, S) > 0
<1>1. CASE \A x \in S : f[x] = 0
  <2> DEFINE C == {s \in SUBSET S : SumFunctionOnSet(f, s) # 0}
  <2>1. C # {}
    OBVIOUS
  <2>2. PICK s \in C : \A u \in SUBSET s : u # s => u \notin C
    <3>1. C \in SUBSET SUBSET S
      OBVIOUS
    <3> HIDE DEF C
    <3> QED
      BY <2>1, <3>1, SmallestSubset
  <2>3. s # {}
    BY SumEmpty
  <2>4. PICK e \in s : TRUE
    BY <2>3
  <2>5. IsFiniteSet(s) /\ f[e] = 0 /\ s \ {e} \in SUBSET s /\ s \ {e} # s
    BY <1>1, FS_Subset
  <2>6. SumFunctionOnSet(f, s \ {e}) = 0
    BY <2>2, <2>5
  <2>7. SumFunctionOnSet(f, s) = f[e] + SumFunctionOnSet(f, s \ {e})
    BY <2>5, SumRemove
  <2> QED
    BY <2>5, <2>6, <2>7
<1>2. CASE \E x \in S : f[x] # 0
  <2>1. PICK x \in S : g[x] > 0 /\ g[x] \in Nat
    BY <1>2
  <2>2. SumFunctionOnSet(g, {x}) = g[x]
    BY <2>1, SumSingleton
  <2>3. {x} \in SUBSET S
    OBVIOUS
  <2>4. SumFunctionOnSet(g, {x}) <= SumFunctionOnSet(g, S) /\ SumFunctionOnSet(g, S) \in Nat
    BY <2>3, SumMonotone
  <2> QED
    BY <2>1, <2>2, <2>4
<1> QED
  BY <1>1, <1>2
=============================================================================
