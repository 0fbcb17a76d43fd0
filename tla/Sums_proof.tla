----------------------------- MODULE Sums_proof -----------------------------
(***************************************************************************)
(* Sums over finite sets. The sums of the community modules are a          *)
(* recursive function on the subsets of a set that takes out one element   *)
(* after the other; here it is shown to be the one function with the       *)
(* equations of a sum, and what follows for the values.                    *)
(***************************************************************************)
EXTENDS Integers, FiniteSets, FiniteSetsExt, FiniteSetTheorems, WellFoundedInduction, TLAPS

\* The sum of the values of f on S.
Total(f, S) == MapThenSumSet(LAMBDA x : f[x], S)

First(s) == CHOOSE x \in s : TRUE

\* h is the recursive function that computes the sums of f on the subsets of s.
SumsOn(s, f, h) ==
    h = [t \in SUBSET s |-> IF t = {} THEN 0 ELSE f[First(t)] + h[t \ {First(t)}]]

IntOn(f, S) == \A x \in S : f[x] \in Int

-----------------------------------------------------------------------------
LEMMA TotalUnfolded ==
  ASSUME NEW f, NEW s
  PROVE  Total(f, s) = (CHOOSE h : SumsOn(s, f, h))[s]
BY Zenon DEF Total, MapThenSumSet, MapThenFoldSet, SumsOn, First

LEMMA FirstIn == ASSUME NEW s, s # {} PROVE First(s) \in s
BY DEF First

\* A set of finite sets has a smallest one.
LEMMA SmallestSubset ==
  ASSUME NEW s, IsFiniteSet(s), NEW B \in SUBSET (SUBSET s), B # {}
  PROVE  \E t \in B : \A r \in B : r \subseteq t => r = t
<1>1. IsWellFoundedOn(StrictSubsetOrdering(s), SUBSET s)
  BY FS_StrictSubsetOrderingWellFounded, FS_FiniteSubsetsOfFinite
<1>2. PICK t \in B : \A r \in B : <<r, t>> \notin StrictSubsetOrdering(s)
  BY <1>1, WFMin
<1>3. QED
  BY <1>2 DEF StrictSubsetOrdering

LEMMA SumsOnUnique ==
  ASSUME NEW s, IsFiniteSet(s), NEW f, NEW h, SumsOn(s, f, h), NEW t \in SUBSET s, NEW k,
         SumsOn(t, f, k)
  PROVE  \A r \in SUBSET t : h[r] = k[r]
<1> DEFINE B == {r \in SUBSET t : h[r] # k[r]}
<1> SUFFICES ASSUME B # {} PROVE FALSE
  OBVIOUS
<1>1. IsFiniteSet(t)
  BY FS_Subset
<1>2. PICK r \in B : \A q \in B : q \subseteq r => q = r
  <2>1. B \in SUBSET (SUBSET t)
    OBVIOUS
  <2> HIDE DEF B
  <2> QED
    BY <1>1, <2>1, SmallestSubset
<1>3. CASE r = {}
  BY <1>2, <1>3 DEF SumsOn
<1>4. CASE r # {}
  <2>1. First(r) \in r /\ r \ {First(r)} \in SUBSET t /\ r \ {First(r)} # r
    BY <1>2, <1>4, FirstIn
  <2>2. h[r \ {First(r)}] = k[r \ {First(r)}]
    BY <1>2, <2>1
  <2>3. h[r] = f[First(r)] + h[r \ {First(r)}] /\ k[r] = f[First(r)] + k[r \ {First(r)}]
    <3>1. r \in SUBSET s /\ r \in SUBSET t
      BY <1>2
    <3>2. QED
      BY <1>4, <3>1, Zenon DEF SumsOn
  <2>4. QED
    BY <1>2, <2>2, <2>3
<1>5. QED
  BY <1>3, <1>4

LEMMA SumsOnExists ==
  ASSUME NEW s, IsFiniteSet(s), NEW f
  PROVE  \E h : SumsOn(s, f, h)
<1> DEFINE B == {t \in SUBSET s : ~ \E h : SumsOn(t, f, h)}
<1> SUFFICES ASSUME B # {} PROVE FALSE
  OBVIOUS
<1>1. PICK t \in B : \A q \in B : q \subseteq t => q = t
  <2>1. B \in SUBSET (SUBSET s)
    OBVIOUS
  <2> HIDE DEF B
  <2> QED
    BY <2>1, SmallestSubset
<1>2. t \in SUBSET s /\ IsFiniteSet(t)
  BY <1>1, FS_Subset
<1> DEFINE F(r) == CHOOSE h : SumsOn(r, f, h)
<1>3. \A r \in SUBSET t : r # t => SumsOn(r, f, F(r))
  <2> TAKE r \in SUBSET t
  <2> HAVE r # t
  <2>1. \E h : SumsOn(r, f, h)
    BY <1>1, <1>2
  <2>2. QED
    BY <2>1, Zenon
<1> DEFINE G == [r \in SUBSET t |->
                   IF r = {} THEN 0
                   ELSE f[First(r)] + F(r \ {First(r)})[r \ {First(r)}]]
<1>4. \A r \in SUBSET t : r # t => G[r] = F(r)[r]
  <2> TAKE r \in SUBSET t
  <2> HAVE r # t
  <2>0. SumsOn(r, f, F(r))
    BY <1>3
  <2>1. CASE r = {}
    <3>1. F(r)[r] = 0
      BY <2>0, <2>1, Zenon DEF SumsOn
    <3>2. QED
      BY <3>1, <2>1, Zenon
  <2>2. CASE r # {}
    <3> DEFINE q == r \ {First(r)}
    <3>1. q \in SUBSET r /\ q \in SUBSET t /\ q # t /\ IsFiniteSet(r)
      BY <2>2, FirstIn, <1>2, FS_Subset
    <3>2. SumsOn(q, f, F(q))
      BY <1>3, <3>1
    <3>3. F(r)[q] = F(q)[q]
      <4> HIDE DEF F, q
      <4>1. q \in SUBSET q
        OBVIOUS
      <4>2. QED
        BY <2>0, <3>1, <3>2, <4>1, SumsOnUnique
    <3>4. F(r)[r] = f[First(r)] + F(r)[q]
      <4> HIDE DEF F
      <4>1. r \in SUBSET r
        OBVIOUS
      <4>2. QED
        BY <2>0, <2>2, <4>1, Zenon DEF SumsOn
    <3>5. G[r] = f[First(r)] + F(q)[q]
      <4> HIDE DEF F
      <4> QED BY <2>2, Zenon
    <3> QED
      BY <3>3, <3>4, <3>5, Zenon
  <2> QED
    BY <2>1, <2>2
<1>5. SumsOn(t, f, G)
  <2>1. \A r \in SUBSET t : r # {} => r \ {First(r)} \in SUBSET t /\ r \ {First(r)} # t
    BY FirstIn
  <2>2. \A r \in SUBSET t : r # {} => F(r \ {First(r)})[r \ {First(r)}] = G[r \ {First(r)}]
    BY <1>4, <2>1
  <2> HIDE DEF F
  <2>3. G = [r \in SUBSET t |-> IF r = {} THEN 0 ELSE f[First(r)] + G[r \ {First(r)}]]
    BY <2>2, Zenon
  <2> QED
    BY <2>3 DEF SumsOn
<1> QED
  BY <1>1, <1>5

-----------------------------------------------------------------------------
(* The equations of a sum.                                                 *)

LEMMA TotalEmpty == ASSUME NEW f PROVE Total(f, {}) = 0
<1>1. IsFiniteSet({})
  BY FS_EmptySet
<1>2. SumsOn({}, f, CHOOSE h : SumsOn({}, f, h))
  BY <1>1, SumsOnExists, Zenon
<1>3. QED
  BY <1>2, TotalUnfolded DEF SumsOn

LEMMA TotalStep ==
  ASSUME NEW f, NEW s, IsFiniteSet(s), s # {}
  PROVE  Total(f, s) = f[First(s)] + Total(f, s \ {First(s)})
<1> DEFINE r == s \ {First(s)}
           h == CHOOSE m : SumsOn(s, f, m)
           k == CHOOSE m : SumsOn(r, f, m)
<1>1. r \in SUBSET s /\ IsFiniteSet(r)
  BY FS_Subset
<1>2. SumsOn(s, f, h)
  BY SumsOnExists, Zenon
<1>3. SumsOn(r, f, k)
  <2> HIDE DEF r
  <2> QED
    BY <1>1, SumsOnExists, Zenon
<1>4. h[r] = k[r]
  <2> HIDE DEF h, k, r
  <2> QED
    BY <1>1, <1>2, <1>3, SumsOnUnique
<1>5. h[s] = f[First(s)] + h[r]
  <2> HIDE DEF h
  <2>1. s \in SUBSET s
    OBVIOUS
  <2> QED
    BY <1>2, <2>1, Zenon DEF SumsOn
<1>6. Total(f, s) = h[s] /\ Total(f, r) = k[r]
  BY TotalUnfolded
<1>7. QED
  BY <1>4, <1>5, <1>6

\* The sum of integers is an integer, and of natural numbers a natural number.
LEMMA TotalType ==
  ASSUME NEW f, NEW S, IsFiniteSet(S), IntOn(f, S)
  PROVE  /\ Total(f, S) \in Int
         /\ (\A x \in S : f[x] >= 0) => Total(f, S) >= 0
<1> DEFINE Right(s) == Total(f, s) \in Int /\ ((\A x \in s : f[x] >= 0) => Total(f, s) >= 0)
           B == {s \in SUBSET S : ~Right(s)}
<1> SUFFICES ASSUME B # {} PROVE FALSE
  OBVIOUS
<1>1. PICK s \in B : \A q \in B : q \subseteq s => q = s
  <2>1. B \in SUBSET (SUBSET S)
    OBVIOUS
  <2> HIDE DEF B
  <2> QED
    BY <2>1, SmallestSubset
<1>2. CASE s = {}
  BY <1>1, <1>2, TotalEmpty
<1>3. CASE s # {}
  <2> DEFINE x == First(s)
             r == s \ {x}
  <2>1. x \in s /\ r # s /\ r \in SUBSET S /\ IsFiniteSet(s)
    BY <1>1, <1>3, FirstIn, FS_Subset
  <2>2. Right(r)
    BY <1>1, <2>1
  <2>3. Total(f, s) = f[x] + Total(f, r)
    BY <1>3, <2>1, TotalStep
  <2>4. f[x] \in Int
    BY <1>1, <2>1 DEF IntOn
  <2> HIDE DEF x
  <2>5. Right(s)
    BY <2>1, <2>2, <2>3, <2>4
  <2> HIDE DEF Right
  <2>6. QED
    BY <1>1, <2>5
<1>4. QED
  BY <1>2, <1>3

\* One more element.
LEMMA TotalAdd ==
  ASSUME NEW f, NEW S, IsFiniteSet(S), IntOn(f, S), NEW s \in SUBSET S, NEW x \in S \ s
  PROVE  Total(f, s \cup {x}) = Total(f, s) + f[x]
<1> DEFINE Wrong(t, y) == Total(f, t \cup {y}) # Total(f, t) + f[y]
           B == {t \in SUBSET S : \E y \in S \ t : Wrong(t, y)}
<1> SUFFICES ASSUME B # {} PROVE FALSE
  OBVIOUS
<1>0. ASSUME NEW t \in SUBSET S PROVE IsFiniteSet(t) /\ Total(f, t) \in Int
  <2>1. IsFiniteSet(t) /\ IntOn(f, t)
    BY FS_Subset DEF IntOn
  <2>2. QED
    BY <2>1, TotalType
<1>1. PICK t \in B : \A q \in B : q \subseteq t => q = t
  <2>1. B \in SUBSET (SUBSET S)
    OBVIOUS
  <2> HIDE DEF B
  <2> QED
    BY <2>1, SmallestSubset
<1>2. PICK y \in S \ t : Total(f, t \cup {y}) # Total(f, t) + f[y]
  BY <1>1
<1> DEFINE c == First(t \cup {y})
<1>3. c \in t \cup {y}
  BY FirstIn
<1>4. Total(f, t \cup {y}) = f[c] + Total(f, (t \cup {y}) \ {c})
  <2>1. t \cup {y} \in SUBSET S
    BY <1>1, <1>2
  <2>2. IsFiniteSet(t \cup {y}) /\ t \cup {y} # {}
    BY <1>0, <2>1
  <2>3. QED
    BY <2>2, TotalStep
<1>5. f[y] \in Int /\ Total(f, t) \in Int
  BY <1>0, <1>1, <1>2 DEF IntOn
<1>6. CASE c = y
  <2>1. (t \cup {y}) \ {c} = t
    BY <1>2, <1>6
  <2>2. Total(f, t \cup {y}) = f[y] + Total(f, t)
    BY <1>4, <1>6, <2>1
  <2> HIDE DEF c
  <2>3. QED
    BY <1>2, <1>5, <2>2
<1>7. CASE c # y
  <2> DEFINE r == t \ {c}
  <2>1. c \in t /\ r \in SUBSET S /\ r # t /\ r \subseteq t /\ y \in S \ r /\ c \in S \ r
    BY <1>1, <1>2, <1>3, <1>7
  <2>2. (t \cup {y}) \ {c} = r \cup {y} /\ t = r \cup {c}
    BY <1>2, <1>7, <2>1
  <2>3. ~ \E z \in S \ r : Wrong(r, z)
    BY <1>1, <2>1
  <2>4. Total(f, r \cup {y}) = Total(f, r) + f[y]
    BY <2>1, <2>3
  <2>5. Total(f, r \cup {c}) = Total(f, r) + f[c]
    BY <2>1, <2>3
  <2>6. f[c] \in Int /\ Total(f, r) \in Int
    BY <1>0, <2>1 DEF IntOn
  <2>7. Total(f, t) = Total(f, r) + f[c]
    BY <2>2, <2>5, Zenon
  <2>8. Total(f, t \cup {y}) = f[c] + (Total(f, r) + f[y])
    BY <1>4, <2>2, <2>4, Zenon
  <2> HIDE DEF c, r, B, Wrong
  <2>9. QED
    BY <1>2, <1>5, <2>6, <2>7, <2>8
<1>8. QED
  BY <1>6, <1>7

\* Only the values on the set matter.
LEMMA TotalSame ==
  ASSUME NEW f, NEW g, NEW S, IsFiniteSet(S), \A x \in S : f[x] = g[x]
  PROVE  Total(f, S) = Total(g, S)
<1> DEFINE B == {s \in SUBSET S : Total(f, s) # Total(g, s)}
<1> SUFFICES ASSUME B # {} PROVE FALSE
  OBVIOUS
<1>1. PICK s \in B : \A q \in B : q \subseteq s => q = s
  <2>1. B \in SUBSET (SUBSET S)
    OBVIOUS
  <2> HIDE DEF B
  <2> QED
    BY <2>1, SmallestSubset
<1>2. CASE s = {}
  BY <1>1, <1>2, TotalEmpty
<1>3. CASE s # {}
  <2> DEFINE x == First(s)
             r == s \ {x}
  <2>1. x \in s /\ r # s /\ r \in SUBSET S /\ IsFiniteSet(s)
    BY <1>1, <1>3, FirstIn, FS_Subset
  <2>2. Total(f, r) = Total(g, r)
    BY <1>1, <2>1
  <2>3. Total(f, s) = f[x] + Total(f, r) /\ Total(g, s) = g[x] + Total(g, r)
    BY <1>3, <2>1, TotalStep
  <2>4. f[x] = g[x]
    BY <1>1, <2>1
  <2>5. QED
    BY <1>1, <2>2, <2>3, <2>4
<1>4. QED
  BY <1>2, <1>3

LEMMA TotalRemove ==
  ASSUME NEW f, NEW S, IsFiniteSet(S), IntOn(f, S), NEW x \in S
  PROVE  Total(f, S) = Total(f, S \ {x}) + f[x]
<1>1. S \ {x} \in SUBSET S /\ x \in S \ (S \ {x}) /\ S = (S \ {x}) \cup {x}
  OBVIOUS
<1>2. Total(f, (S \ {x}) \cup {x}) = Total(f, S \ {x}) + f[x]
  BY <1>1, TotalAdd
<1>3. QED
  BY <1>1, <1>2

\* A function that changes at one element.
LEMMA TotalChange ==
  ASSUME NEW f, NEW g, NEW S, IsFiniteSet(S), IntOn(f, S), IntOn(g, S), NEW x \in S,
         \A y \in S \ {x} : f[y] = g[y]
  PROVE  Total(g, S) = Total(f, S) - f[x] + g[x]
<1>1. Total(f, S) = Total(f, S \ {x}) + f[x] /\ Total(g, S) = Total(g, S \ {x}) + g[x]
  BY TotalRemove
<1>2. IsFiniteSet(S \ {x}) /\ IntOn(f, S \ {x})
  BY FS_Subset DEF IntOn
<1>3. Total(f, S \ {x}) = Total(g, S \ {x}) /\ Total(f, S \ {x}) \in Int
  BY <1>2, TotalSame, TotalType
<1>4. f[x] \in Int /\ g[x] \in Int
  BY DEF IntOn
<1>5. QED
  BY <1>1, <1>3, <1>4

\* The sum of a sum of two functions.
LEMMA TotalPlus ==
  ASSUME NEW f, NEW g, NEW h, NEW S, IsFiniteSet(S), IntOn(f, S), IntOn(g, S),
         \A x \in S : h[x] = f[x] + g[x]
  PROVE  Total(h, S) = Total(f, S) + Total(g, S)
<1> DEFINE B == {s \in SUBSET S : Total(h, s) # Total(f, s) + Total(g, s)}
<1> SUFFICES ASSUME B # {} PROVE FALSE
  OBVIOUS
<1>1. PICK s \in B : \A q \in B : q \subseteq s => q = s
  <2>1. B \in SUBSET (SUBSET S)
    OBVIOUS
  <2> HIDE DEF B
  <2> QED
    BY <2>1, SmallestSubset
<1>2. CASE s = {}
  BY <1>1, <1>2, TotalEmpty
<1>3. CASE s # {}
  <2> DEFINE x == First(s)
             r == s \ {x}
  <2>1. x \in s /\ r # s /\ r \in SUBSET S /\ IsFiniteSet(s) /\ IsFiniteSet(r)
    BY <1>1, <1>3, FirstIn, FS_Subset
  <2>2. Total(h, r) = Total(f, r) + Total(g, r)
    BY <1>1, <2>1
  <2>3. /\ Total(f, s) = f[x] + Total(f, r) /\ Total(g, s) = g[x] + Total(g, r)
        /\ Total(h, s) = h[x] + Total(h, r)
    BY <1>3, <2>1, TotalStep
  <2>4. IntOn(f, r) /\ IntOn(g, r)
    BY <2>1 DEF IntOn
  <2>5. Total(f, r) \in Int /\ Total(g, r) \in Int
    BY <2>1, <2>4, TotalType
  <2>6. h[x] = f[x] + g[x] /\ f[x] \in Int /\ g[x] \in Int
    BY <1>1, <2>1 DEF IntOn
  <2> HIDE DEF x, r
  <2>7. Total(h, s) = Total(f, s) + Total(g, s)
    BY <2>2, <2>3, <2>5, <2>6
  <2>8. QED
    BY <1>1, <2>7
<1>4. QED
  BY <1>2, <1>3

LEMMA TotalZero ==
  ASSUME NEW f, NEW S, IsFiniteSet(S), \A x \in S : f[x] = 0
  PROVE  Total(f, S) = 0
<1>1. IntOn(f, S) /\ \A x \in S : f[x] = f[x] + f[x]
  BY DEF IntOn
<1>2. Total(f, S) = Total(f, S) + Total(f, S) /\ Total(f, S) \in Int
  BY <1>1, TotalPlus, TotalType
<1>3. \A n \in Int : n = n + n => n = 0
  OBVIOUS
<1>4. QED
  BY <1>2, <1>3, Zenon

\* A union of sets without a common element.
LEMMA TotalUnion ==
  ASSUME NEW f, NEW S, NEW T, IsFiniteSet(S), IsFiniteSet(T), S \cap T = {},
         IntOn(f, S \cup T)
  PROVE  Total(f, S \cup T) = Total(f, S) + Total(f, T)
<1> DEFINE B == {s \in SUBSET S : Total(f, s \cup T) # Total(f, s) + Total(f, T)}
<1> SUFFICES ASSUME B # {} PROVE FALSE
  OBVIOUS
<1>0. IsFiniteSet(S \cup T) /\ IntOn(f, S) /\ IntOn(f, T)
  BY FS_Union DEF IntOn
<1>1. PICK s \in B : \A q \in B : q \subseteq s => q = s
  <2>1. B \in SUBSET (SUBSET S)
    OBVIOUS
  <2> HIDE DEF B
  <2> QED
    BY <2>1, SmallestSubset
<1>2. Total(f, T) \in Int
  BY <1>0, TotalType
<1>3. CASE s = {}
  <2>1. s \cup T = T /\ Total(f, s) = 0
    BY <1>3, TotalEmpty
  <2>2. Total(f, s \cup T) = Total(f, T)
    BY <2>1, Zenon
  <2>3. QED
    BY <1>1, <1>2, <2>1, <2>2
<1>4. CASE s # {}
  <2> DEFINE x == First(s)
             r == s \ {x}
  <2>1. /\ x \in s /\ r # s /\ r \in SUBSET S /\ x \in S \ r /\ s = r \cup {x}
        /\ r \cup T \in SUBSET (S \cup T) /\ x \in (S \cup T) \ (r \cup T)
        /\ s \cup T = (r \cup T) \cup {x} /\ f[x] \in Int
    BY <1>1, <1>4, FirstIn DEF IntOn
  <2>2. Total(f, r \cup T) = Total(f, r) + Total(f, T)
    BY <1>1, <2>1
  <2>3. Total(f, r \cup {x}) = Total(f, r) + f[x]
    BY <1>0, <2>1, TotalAdd
  <2>4. Total(f, (r \cup T) \cup {x}) = Total(f, r \cup T) + f[x]
    <3>1. PICK U : U = S \cup T
      OBVIOUS
    <3>2. PICK V : V = r \cup T
      OBVIOUS
    <3>3. IsFiniteSet(U) /\ IntOn(f, U) /\ V \in SUBSET U /\ x \in U \ V
      <4>1. IsFiniteSet(S \cup T) /\ IntOn(f, S \cup T)
        BY <1>0
      <4>2. IsFiniteSet(U) /\ IntOn(f, U)
        BY <3>1, <4>1, Zenon
      <4>3. QED
        BY <2>1, <3>1, <3>2, <4>2
    <3>4. Total(f, V \cup {x}) = Total(f, V) + f[x]
      BY <3>3, TotalAdd
    <3>5. QED
      BY <3>2, <3>4, Zenon
  <2>5. Total(f, r) \in Int
    <3>1. IsFiniteSet(r) /\ IntOn(f, r)
      BY <1>0, <2>1, FS_Subset DEF IntOn
    <3>2. QED
      BY <3>1, TotalType
  <2>6. Total(f, s) = Total(f, r) + f[x] /\ Total(f, s \cup T) = Total(f, r \cup T) + f[x]
    BY <2>1, <2>3, <2>4, Zenon
  <2> HIDE DEF x, r
  <2>7. Total(f, s \cup T) = Total(f, s) + Total(f, T)
    BY <1>2, <2>1, <2>2, <2>5, <2>6
  <2>8. QED
    BY <1>1, <2>7
<1>5. QED
  BY <1>3, <1>4

\* Numbers of elements are sums of ones.
LEMMA TotalCount ==
  ASSUME NEW f, NEW S, IsFiniteSet(S), \A x \in S : f[x] = 1
  PROVE  Total(f, S) = Cardinality(S)
<1> DEFINE B == {s \in SUBSET S : Total(f, s) # Cardinality(s)}
<1> SUFFICES ASSUME B # {} PROVE FALSE
  OBVIOUS
<1>1. PICK s \in B : \A q \in B : q \subseteq s => q = s
  <2>1. B \in SUBSET (SUBSET S)
    OBVIOUS
  <2> HIDE DEF B
  <2> QED
    BY <2>1, SmallestSubset
<1>2. CASE s = {}
  BY <1>1, <1>2, TotalEmpty, FS_EmptySet
<1>3. CASE s # {}
  <2> DEFINE x == First(s)
             r == s \ {x}
  <2>1. x \in s /\ r # s /\ r \in SUBSET S /\ IsFiniteSet(s)
    BY <1>1, <1>3, FirstIn, FS_Subset
  <2>2. Total(f, r) = Cardinality(r)
    BY <1>1, <2>1
  <2>3. Total(f, s) = f[x] + Total(f, r) /\ f[x] = 1
    BY <1>1, <1>3, <2>1, TotalStep
  <2>4. Cardinality(r) = Cardinality(s) - 1 /\ Cardinality(s) \in Nat
    BY <2>1, FS_RemoveElement, FS_CardinalityType
  <2> HIDE DEF x, r
  <2>5. Total(f, s) = Cardinality(s)
    BY <2>2, <2>3, <2>4
  <2>6. QED
    BY <1>1, <2>5
<1>4. QED
  BY <1>2, <1>3

\* A set that is divided into groups is counted group by group.
LEMMA TotalOfCounts ==
  ASSUME NEW D, IsFiniteSet(D), NEW S, IsFiniteSet(S), NEW c,
         \A x \in S : \E d \in D : x \in c[d],
         \A d, e \in D : d # e => c[d] \cap c[e] = {},
         \A d \in D : c[d] \subseteq S, NEW n, \A d \in D : n[d] = Cardinality(c[d])
  PROVE  Total(n, D) = Cardinality(S)
<1> DEFINE Of(E) == {x \in S : \E d \in E : x \in c[d]}
           B == {E \in SUBSET D : Total(n, E) # Cardinality(Of(E))}
<1>1. B = {}
  <2> SUFFICES ASSUME B # {} PROVE FALSE
    OBVIOUS
  <2>1. PICK E \in B : \A q \in B : q \subseteq E => q = E
    <3>1. B \in SUBSET (SUBSET D)
      OBVIOUS
    <3> HIDE DEF B
    <3> QED
      BY <3>1, SmallestSubset
  <2>2. CASE E = {}
    <3>1. Of(E) = {} /\ Total(n, E) = 0
      BY <2>2, TotalEmpty
    <3> HIDE DEF Of
    <3>2. QED
      BY <2>1, <3>1, FS_EmptySet
  <2>3. CASE E # {}
    <3> DEFINE e == First(E)
               F == E \ {e}
    <3>1. e \in E /\ F # E /\ F \in SUBSET D /\ IsFiniteSet(E) /\ e \in D
      BY <2>1, <2>3, FirstIn, FS_Subset
    <3>2. Total(n, F) = Cardinality(Of(F))
      BY <2>1, <3>1
    <3>3. Total(n, E) = Cardinality(c[e]) + Total(n, F)
      BY <2>3, <3>1, TotalStep
    <3>4. Of(E) = c[e] \cup Of(F) /\ c[e] \cap Of(F) = {}
      <4>1. \A d \in F : c[d] \cap c[e] = {}
        BY <3>1
      <4>2. \A x \in Of(E) : x \in c[e] \/ x \in Of(F)
        BY <3>1
      <4>3. \A x \in c[e] : x \in Of(E) /\ x \notin Of(F)
        BY <3>1, <4>1
      <4>4. \A x \in Of(F) : x \in Of(E)
        BY <3>1
      <4>5. QED
        BY <4>2, <4>3, <4>4
    <3>5. IsFiniteSet(c[e]) /\ IsFiniteSet(Of(F))
      BY <3>1, FS_Subset
    <3> HIDE DEF Of, F, e
    <3>6. Cardinality(c[e] \cup Of(F)) = Cardinality(c[e]) + Cardinality(Of(F))
      <4>1. /\ Cardinality(c[e] \cup Of(F))
                 = Cardinality(c[e]) + Cardinality(Of(F)) - Cardinality(c[e] \cap Of(F))
            /\ Cardinality(c[e]) \in Nat /\ Cardinality(Of(F)) \in Nat
        BY <3>5, FS_Union, FS_CardinalityType
      <4>2. Cardinality(c[e] \cap Of(F)) = 0
        BY <3>4, FS_EmptySet
      <4>3. QED
        BY <4>1, <4>2
    <3>7. Cardinality(Of(E)) = Total(n, E)
      BY <3>2, <3>3, <3>4, <3>6
    <3>8. QED
      BY <2>1, <3>7
  <2>4. QED
    BY <2>2, <2>3
<1>2. Of(D) = S
  OBVIOUS
<1>3. D \in SUBSET D /\ Total(n, D) = Cardinality(Of(D))
  BY <1>1
<1>4. QED
  BY <1>2, <1>3

\* A set that differs in one element.
LEMMA CountChange ==
  ASSUME NEW S, IsFiniteSet(S), NEW A \in SUBSET S, NEW B \in SUBSET S, NEW x \in S,
         A \ {x} = B \ {x}
  PROVE  /\ Cardinality(A) \in Nat /\ Cardinality(B) \in Nat
         /\ Cardinality(B) + (IF x \in A THEN 1 ELSE 0)
              = Cardinality(A) + (IF x \in B THEN 1 ELSE 0)
<1>1. IsFiniteSet(A) /\ IsFiniteSet(B) /\ IsFiniteSet(A \ {x})
  BY FS_Subset
<1>2. /\ Cardinality(A) \in Nat /\ Cardinality(B) \in Nat /\ Cardinality(A \ {x}) \in Nat
      /\ Cardinality(A \ {x}) = IF x \in A THEN Cardinality(A) - 1 ELSE Cardinality(A)
      /\ Cardinality(B \ {x}) = IF x \in B THEN Cardinality(B) - 1 ELSE Cardinality(B)
  BY <1>1, FS_RemoveElement, FS_CardinalityType
<1>3. Cardinality(A \ {x}) = Cardinality(B \ {x})
  OBVIOUS
<1>4. QED
  BY <1>2, <1>3

====
