---------------------------- MODULE PaymentsProofs ----------------------------
(***************************************************************************)
(* Whatever the generator draws, for any volume, incident hours and        *)
(* amounts: its rows satisfy the tables' constraints and fit each other,   *)
(* and what is computed from them is right.  The argument about the rows   *)
(* is one invariant: the n-th payment has the n-th order and the n-th      *)
(* event, and refunds and disputes name payments that exist.  So a new row *)
(* group can neither meet nor disturb an older one.  The rest holds of any *)
(* such rows: sums and scores over them, what the integrity checks find of *)
(* them, and what is found of a list of deliveries read in any order.      *)
(***************************************************************************)
EXTENDS PaymentsProperties, FiniteSetTheorems, WellFoundedInduction, TLAPS

------------------------------------------------------------------------------
(* Sums: a fold over a finite set is computed one element at a time, and  *)
(* any element may be taken first. *)

\* Every number is reached by counting.
LEMMA ByCounting ==
  ASSUME NEW T \in SUBSET Nat, 0 \in T, \A n \in T : n + 1 \in T
  PROVE  \A n \in Nat : n \in T
<1> DEFINE rest == Nat \ T
<1> SUFFICES ASSUME rest # {} PROVE FALSE
  OBVIOUS
<1>1. PICK least \in rest : \A n \in rest : ~(<<n, least>> \in OpToRel(<, Nat))
  <2> HIDE DEF rest
  <2>1. rest \subseteq Nat
    BY DEF rest
  <2> QED
    BY <2>1, NatLessThanWellFounded, WFMin
<1>2. least # 0 /\ least \in Nat /\ least - 1 \in Nat
  OBVIOUS
<1>3. least - 1 \notin T
  BY <1>2
<1>4. <<least - 1, least>> \in OpToRel(<, Nat)
  BY <1>2 DEF OpToRel
<1> QED
  BY <1>1, <1>2, <1>3, <1>4

\* A property of subsets that an empty set has and one more element keeps.
LEMMA ByAdding ==
  ASSUME NEW D, IsFiniteSet(D), NEW T \in SUBSET (SUBSET D), {} \in T,
         \A s \in T : \A x \in D \ s : s \cup {x} \in T
  PROVE  \A s \in SUBSET D : s \in T
<1> DEFINE counted == {n \in Nat : \A s \in SUBSET D : Cardinality(s) = n => s \in T}
<1>0. \A s \in SUBSET D : IsFiniteSet(s) /\ Cardinality(s) \in Nat
  BY FS_Subset, FS_CardinalityType
<1>1. 0 \in counted
  BY <1>0, FS_EmptySet
<1>2. ASSUME NEW n \in counted PROVE n + 1 \in counted
  <2> SUFFICES ASSUME NEW s \in SUBSET D, Cardinality(s) = n + 1 PROVE s \in T
    OBVIOUS
  <2>1. s # {}
    BY <1>0, FS_EmptySet
  <2>2. PICK x \in s : TRUE
    BY <2>1
  <2>3. Cardinality(s \ {x}) = n
    BY SMTT(40), <1>0, <2>2, FS_RemoveElement
  <2>4. s \ {x} \in T
    BY <2>3
  <2>5. (s \ {x}) \cup {x} \in T
    BY <2>4
  <2>6. (s \ {x}) \cup {x} = s
    OBVIOUS
  <2> QED
    BY <2>5, <2>6
<1>3. \A n \in Nat : n \in counted
  <2>1. counted \in SUBSET Nat
    OBVIOUS
  <2> HIDE DEF counted
  <2> QED
    BY <1>1, <1>2, <2>1, ByCounting
<1> QED
  BY <1>0, <1>3

\* So the whole set has it.
LEMMA ByAddingAll ==
  ASSUME NEW D, IsFiniteSet(D), NEW T \in SUBSET (SUBSET D), {} \in T,
         \A s \in T : \A x \in D \ s : s \cup {x} \in T
  PROVE  D \in T
<1>1. \A s \in SUBSET D : s \in T
  BY ByAdding
<1> QED
  BY <1>1

\* The element a sum takes next.
Chosen(s) == CHOOSE x \in s : TRUE

\* partial holds the sums of f over some sets, each from a smaller one.
SumsTo(f, partial, subsets) ==
  /\ partial = [s \in subsets |-> partial[s]]
  /\ \A s \in subsets : partial[s] = IF s = {} THEN 0 ELSE f[Chosen(s)] + partial[s \ {Chosen(s)}]

LEMMA PartialSums ==
  ASSUME NEW D, IsFiniteSet(D), NEW f
  PROVE  \E partial : SumsTo(f, partial, SUBSET D)
<1> DEFINE upTo(n) == {s \in SUBSET D : Cardinality(s) <= n}
           reached == {n \in Nat : \E partial : SumsTo(f, partial, upTo(n))}
<1>0. \A s \in SUBSET D : IsFiniteSet(s) /\ Cardinality(s) \in Nat
  BY FS_Subset, FS_CardinalityType
<1>1. 0 \in reached
  <2>1. \A s \in upTo(0) : s = {}
    BY <1>0, FS_EmptySet
  <2>2. SumsTo(f, [s \in upTo(0) |-> 0], upTo(0))
    BY <2>1 DEF SumsTo
  <2> QED
    BY <2>2
<1>2. ASSUME NEW n \in reached PROVE n + 1 \in reached
  <2>1. PICK partial : SumsTo(f, partial, upTo(n))
    OBVIOUS
  <2> DEFINE Term(s) == IF s = {} THEN 0 ELSE f[Chosen(s)] + partial[s \ {Chosen(s)}]
             more == [s \in upTo(n + 1) |-> Term(s)]
  <2>2. ASSUME NEW s \in upTo(n) PROVE s \in upTo(n + 1) /\ Term(s) = partial[s]
    BY <1>0, <2>1 DEF SumsTo
  <2>3. ASSUME NEW s \in upTo(n + 1), s # {} PROVE s \ {Chosen(s)} \in upTo(n)
    <3>1. Chosen(s) \in s
      BY <2>3 DEF Chosen
    <3>2. Cardinality(s \ {Chosen(s)}) = Cardinality(s) - 1
      BY <1>0, <3>1, FS_RemoveElement
    <3> QED
      BY <1>0, <3>2
  <2>4. ASSUME NEW s \in upTo(n + 1)
        PROVE more[s] = IF s = {} THEN 0 ELSE f[Chosen(s)] + more[s \ {Chosen(s)}]
    <3>1. CASE s = {}
      BY <3>1
    <3>2. CASE s # {}
      <4>1. s \ {Chosen(s)} \in upTo(n)
        BY <2>3, <3>2
      <4>2. more[s \ {Chosen(s)}] = partial[s \ {Chosen(s)}]
        BY <2>2, <4>1
      <4> QED
        BY <3>2, <4>2
    <3> QED
      BY <3>1, <3>2
  <2>5. SumsTo(f, more, upTo(n + 1))
    <3>1. more = [s \in upTo(n + 1) |-> more[s]]
      OBVIOUS
    <3> HIDE DEF more, upTo
    <3> QED
      BY <2>4, <3>1 DEF SumsTo
  <2>6. n + 1 \in Nat
    OBVIOUS
  <2> HIDE DEF more, upTo
  <2> QED
    BY <2>5, <2>6
<1>3. Cardinality(D) \in reached
  <2>1. reached \in SUBSET Nat
    OBVIOUS
  <2> HIDE DEF reached
  <2> QED
    BY <1>0, <1>1, <1>2, <2>1, ByCounting
<1>4. upTo(Cardinality(D)) = SUBSET D
  BY FS_Subset
<1> QED
  BY <1>3, <1>4

LEMMA SumIsPartial ==
  ASSUME NEW f, IsFiniteSet(DOMAIN f)
  PROVE  \E partial : SumsTo(f, partial, SUBSET DOMAIN f) /\ SumFunction(f) = partial[DOMAIN f]
<1> DEFINE D == DOMAIN f
           Eq(g) == g = [s \in SUBSET D |->
                         IF s = {} THEN 0 ELSE f[CHOOSE x \in s : TRUE] + g[s \ {CHOOSE x \in s : TRUE}]]
           sum == CHOOSE g : Eq(g)
<1>1. \E g : Eq(g)
  <2>1. PICK partial : SumsTo(f, partial, SUBSET D)
    BY PartialSums
  <2>2. Eq(partial)
    BY <2>1 DEF SumsTo, Chosen
  <2> QED
    BY <2>2
<1>2. Eq(sum)
  <2> HIDE DEF Eq
  <2> QED
    BY <1>1
<1>3. SumFunction(f) = sum[D]
  BY Zenon DEF SumFunction, SumFunctionOnSet, FoldFunctionOnSet, MapThenFoldSet
<1>4. SumsTo(f, sum, SUBSET D)
  <2> HIDE DEF sum
  <2> QED
    BY <1>2 DEF SumsTo, Chosen
<1> QED
  BY <1>3, <1>4

\* A sum is a number, and it is the sum of the rest and any one of its terms.
LEMMA SumSplits ==
  ASSUME NEW f, IsFiniteSet(DOMAIN f), \A x \in DOMAIN f : f[x] \in Int
  PROVE  \E sum \in [SUBSET DOMAIN f -> Int] :
           /\ sum[{}] = 0
           /\ \A s \in SUBSET DOMAIN f : \A x \in s : sum[s] = f[x] + sum[s \ {x}]
           /\ SumFunction(f) = sum[DOMAIN f]
<1> DEFINE D == DOMAIN f
<1>1. PICK sum : SumsTo(f, sum, SUBSET D) /\ SumFunction(f) = sum[D]
  BY SumIsPartial
<1>2. /\ sum[{}] = 0
      /\ \A s \in SUBSET D : s # {} => sum[s] = f[Chosen(s)] + sum[s \ {Chosen(s)}]
  BY <1>1 DEF SumsTo
<1>3. \A s : s # {} => Chosen(s) \in s
  BY DEF Chosen
<1>4. \A s \in SUBSET D : IsFiniteSet(s) /\ Cardinality(s) \in Nat
  BY FS_Subset, FS_CardinalityType
<1>5. \A s \in SUBSET D : \A x \in s : Cardinality(s \ {x}) = Cardinality(s) - 1
  BY <1>4, FS_RemoveElement
<1> DEFINE Splits(s) == sum[s] \in Int /\ \A x \in s : sum[s] = f[x] + sum[s \ {x}]
           split == {n \in Nat : \A s \in SUBSET D : Cardinality(s) <= n => Splits(s)}
<1>6. 0 \in split
  <2> SUFFICES ASSUME NEW s \in SUBSET D, Cardinality(s) <= 0 PROVE Splits(s)
    OBVIOUS
  <2>1. s = {}
    BY <1>4, FS_EmptySet
  <2> QED
    BY <1>2, <2>1
<1>7. ASSUME NEW n \in split PROVE n + 1 \in split
  <2>0. Splits({})
    BY <1>2
  <2> SUFFICES ASSUME NEW s \in SUBSET D, Cardinality(s) <= n + 1, s # {} PROVE Splits(s)
    <3> HIDE DEF Splits
    <3> QED
      BY <2>0
  <2> DEFINE c == Chosen(s)
  <2>1. c \in s /\ c \in D
    BY <1>3
  <2>2. \A x \in s : s \ {x} \in SUBSET D /\ Cardinality(s \ {x}) <= n
    BY <1>4, <1>5
  <2>3. \A x \in s : Splits(s \ {x})
    BY <2>2
  <2>4. sum[s] = f[c] + sum[s \ {c}] /\ sum[s] \in Int
    <3>1. sum[s] = f[c] + sum[s \ {c}]
      BY <1>2
    <3>2. f[c] \in Int /\ sum[s \ {c}] \in Int
      BY <2>1, <2>3
    <3> QED
      BY <3>1, <3>2
  <2> HIDE DEF c
  <2>5. ASSUME NEW x \in s PROVE sum[s] = f[x] + sum[s \ {x}]
    <3>1. CASE x = c
      BY <2>4, <3>1
    <3>2. CASE x # c
      <4>1. sum[s \ {c}] = f[x] + sum[(s \ {c}) \ {x}]
        BY <2>1, <2>3, <3>2
      <4>2. sum[s \ {x}] = f[c] + sum[(s \ {x}) \ {c}]
        BY <2>1, <2>3, <3>2
      <4>3. (s \ {c}) \ {x} = (s \ {x}) \ {c}
        OBVIOUS
      <4>4. f[x] \in Int /\ f[c] \in Int /\ sum[s \ {x}] \in Int /\ sum[s \ {c}] \in Int
        BY <2>1, <2>3
      <4>5. sum[(s \ {x}) \ {c}] \in Int
        <5> DEFINE t == s \ {x}
        <5>0. t \in SUBSET D /\ c \in t /\ Cardinality(t) <= n
          BY <2>1, <2>2, <3>2
        <5>1. t \ {c} \in SUBSET D /\ Cardinality(t \ {c}) <= n
          <6>1. Cardinality(t \ {c}) = Cardinality(t) - 1
            BY <1>5, <5>0
          <6>2. t \ {c} \in SUBSET D /\ Cardinality(t) \in Nat
            BY <1>4, <5>0
          <6> HIDE DEF t
          <6> QED
            BY <5>0, <6>1, <6>2
        <5> QED
          BY <5>1
      <4>6. \A a, b, d, e, g \in Int : a = b + (d + g) /\ e = b + g => a = d + e
        OBVIOUS
      <4>7. sum[s] = f[c] + (f[x] + sum[(s \ {x}) \ {c}])
        BY <2>4, <4>1, <4>3
      <4> HIDE DEF Splits
      <4> QED
        BY <2>4, <4>2, <4>4, <4>5, <4>6, <4>7
    <3> QED
      BY <3>1, <3>2
  <2> QED
    BY <2>4, <2>5
<1>8. \A s \in SUBSET D : Splits(s)
  <2>1. split \in SUBSET Nat
    OBVIOUS
  <2>2. \A n \in Nat : n \in split
    <3> HIDE DEF split
    <3> QED
      BY <1>6, <1>7, <2>1, ByCounting
  <2> QED
    BY <1>4, <2>2
<1>9. sum \in [SUBSET D -> Int]
  BY <1>1, <1>8 DEF SumsTo
<1> QED
  BY <1>1, <1>2, <1>8, <1>9

\* The first n numbers are n.
LEMMA IntervalSize ==
  ASSUME NEW n \in Nat
  PROVE  IsFiniteSet(1..n) /\ Cardinality(1..n) = n
<1>1. n \in Int /\ n - 1 + 1 = n /\ (1 > n => n = 0)
  OBVIOUS
<1> QED
  BY <1>1, FS_Interval

LEMMA DisjointCount ==
  ASSUME NEW A, IsFiniteSet(A), NEW B, IsFiniteSet(B), A \cap B = {}
  PROVE  Cardinality(A \cup B) = Cardinality(A) + Cardinality(B)
<1>1. Cardinality(A \cup B) = Cardinality(A) + Cardinality(B) - Cardinality(A \cap B)
  BY FS_Union
<1>2. Cardinality(A \cap B) = 0
  BY FS_EmptySet
<1>3. Cardinality(A) \in Nat /\ Cardinality(B) \in Nat
  BY FS_CardinalityType
<1> QED
  BY <1>1, <1>2, <1>3

\* The elements of a finite set, counted by key, are all of them.
LEMMA CountedByKey ==
  ASSUME NEW X, IsFiniteSet(X), NEW D, IsFiniteSet(D), NEW key \in [X -> D], NEW f,
         DOMAIN f = D, \A d \in D : f[d] = Cardinality({x \in X : key[x] = d})
  PROVE  SumFunction(f) = Cardinality(X)
<1> DEFINE of(s) == {x \in X : key[x] \in s}
<1>0. \A s : IsFiniteSet(of(s)) /\ Cardinality(of(s)) \in Nat
  BY FS_Subset, FS_CardinalityType
<1>1. ASSUME NEW d \in D PROVE f[d] = Cardinality(of({d})) /\ f[d] \in Int
  <2>1. of({d}) = {x \in X : key[x] = d}
    OBVIOUS
  <2>2. f[d] = Cardinality({x \in X : key[x] = d})
    OBVIOUS
  <2>3. f[d] = Cardinality(of({d}))
    BY <2>1, <2>2
  <2> HIDE DEF of
  <2> QED
    BY <1>0, <2>3
<1>2. PICK sum \in [SUBSET D -> Int] :
        /\ sum[{}] = 0
        /\ \A s \in SUBSET D : \A x \in s : sum[s] = f[x] + sum[s \ {x}]
        /\ SumFunction(f) = sum[D]
  BY <1>1, SumSplits
<1> DEFINE T == {s \in SUBSET D : sum[s] = Cardinality(of(s))}
<1>3. {} \in T
  BY <1>2, FS_EmptySet
<1>4. ASSUME NEW s \in T, NEW x \in D \ s PROVE s \cup {x} \in T
  <2>1. (s \cup {x}) \ {x} = s
    OBVIOUS
  <2>2. sum[s \cup {x}] = f[x] + sum[s]
    <3>1. s \cup {x} \in SUBSET D /\ x \in s \cup {x}
      OBVIOUS
    <3> HIDE DEF T
    <3> QED
      BY <1>2, <2>1, <3>1
  <2>3. of(s \cup {x}) = of({x}) \cup of(s) /\ of({x}) \cap of(s) = {}
    OBVIOUS
  <2>4. Cardinality(of(s \cup {x})) = Cardinality(of({x})) + Cardinality(of(s))
    BY ZenonT(40), <1>0, <2>3, DisjointCount
  <2> QED
    BY <1>1, <2>2, <2>4
<1>5. D \in T
  <2>1. T \in SUBSET (SUBSET D)
    OBVIOUS
  <2>2. \A s \in T : \A x \in D \ s : s \cup {x} \in T
    BY <1>4
  <2> HIDE DEF T
  <2> QED
    BY <1>3, <2>1, <2>2, ByAddingAll
<1>6. of(D) = X
  OBVIOUS
<1> QED
  BY <1>2, <1>5, <1>6

\* What is zero need not be summed.
LEMMA SumSkipsZeros ==
  ASSUME NEW f, IsFiniteSet(DOMAIN f), \A x \in DOMAIN f : f[x] \in Int,
         NEW g, DOMAIN g \subseteq DOMAIN f, \A x \in DOMAIN g : g[x] = f[x],
         \A x \in DOMAIN f \ DOMAIN g : f[x] = 0
  PROVE  SumFunction(g) = SumFunction(f)
<1> DEFINE D == DOMAIN f
           E == DOMAIN g
<1>1. PICK sumf \in [SUBSET D -> Int] :
        /\ sumf[{}] = 0
        /\ \A s \in SUBSET D : \A x \in s : sumf[s] = f[x] + sumf[s \ {x}]
        /\ SumFunction(f) = sumf[D]
  BY SumSplits
<1>2. IsFiniteSet(E) /\ \A x \in E : g[x] \in Int
  BY FS_Subset
<1>3. PICK sumg \in [SUBSET E -> Int] :
        /\ sumg[{}] = 0
        /\ \A s \in SUBSET E : \A x \in s : sumg[s] = g[x] + sumg[s \ {x}]
        /\ SumFunction(g) = sumg[E]
  BY <1>2, SumSplits
<1> DEFINE T == {s \in SUBSET D : sumg[s \cap E] = sumf[s]}
<1>4. {} \in T
  BY <1>1, <1>3
<1>5. ASSUME NEW s \in T, NEW x \in D \ s PROVE s \cup {x} \in T
  <2>1. s \in SUBSET D /\ sumg[s \cap E] = sumf[s]
    OBVIOUS
  <2> DEFINE more == s \cup {x}
             kept == more \cap E
  <2>2. more \in SUBSET D /\ x \in more /\ more \ {x} = s
    OBVIOUS
  <2> SUFFICES sumg[kept] = sumf[more]
    BY <2>2
  <2> HIDE DEF T, more
  <2>3. sumf[more] = f[x] + sumf[s] /\ sumf[s] \in Int
    BY <1>1, <2>1, <2>2
  <2>4. CASE x \in E
    <3>1. kept \in SUBSET E /\ x \in kept /\ kept \ {x} = s \cap E
      BY <2>2, <2>4
    <3> HIDE DEF kept
    <3>2. sumg[kept] = g[x] + sumg[s \cap E]
      <4>1. sumg[kept] = g[x] + sumg[kept \ {x}]
        BY <1>3, <3>1
      <4> QED
        BY <3>1, <4>1
    <3> QED
      BY <2>1, <2>3, <2>4, <3>2
  <2>5. CASE x \notin E
    <3>1. kept = s \cap E /\ f[x] = 0
      BY <2>2, <2>5
    <3> HIDE DEF kept
    <3> QED
      BY <2>1, <2>3, <3>1
  <2> QED
    BY <2>4, <2>5
<1>6. D \in T
  <2>1. T \in SUBSET (SUBSET D)
    OBVIOUS
  <2>2. \A s \in T : \A x \in D \ s : s \cup {x} \in T
    BY <1>5
  <2> HIDE DEF T
  <2> QED
    BY <1>4, <2>1, <2>2, ByAddingAll
<1>7. D \cap E = E
  OBVIOUS
<1> QED
  BY <1>1, <1>3, <1>6, <1>7


------------------------------------------------------------------------------
(* Rounding and rates. *)

LEMMA Division ==
  ASSUME NEW a \in Int, NEW b \in Nat \ {0}
  PROVE  /\ a \div b \in Int
         /\ b * (a \div b) <= a
         /\ a < b * (a \div b) + b
BY Z3

\* A quotient is the nearest whole number.
LEMMA Rounding ==
  ASSUME NEW n \in Int, NEW d \in Nat \ {0}
  PROVE  /\ Rounded(n, d) \in Int
         /\ 2 * d * Rounded(n, d) <= 2 * n + d
         /\ 2 * n < 2 * d * Rounded(n, d) + d
<1> DEFINE a == 2 * n + d
           b == 2 * d
           q == a \div b
<1>1. a \in Int /\ b \in Nat \ {0}
  OBVIOUS
<1>2. q \in Int /\ b * q <= a /\ a < b * q + b
  <2> HIDE DEF a, b
  <2> QED
    BY <1>1, Division
<1>3. Rounded(n, d) = q
  BY DEF Rounded
<1> HIDE DEF q
<1> QED
  BY <1>2, <1>3

\* A whole number whose multiple lies below another's is below it.
LEMMA Cancel ==
  ASSUME NEW b \in Nat \ {0}, NEW x \in Int, NEW y \in Int
  PROVE  /\ b * x < b * y + b => x <= y
         /\ b * x <= b * y => x <= y
         /\ b * x < b * y => x < y
<1>1. ASSUME x >= y + 1 PROVE b * x >= b * (y + 1)
  BY <1>1
<1>2. b * (y + 1) = b * y + b
  OBVIOUS
<1>3. ASSUME x >= y PROVE b * x >= b * y
  BY <1>3
<1>4. b * x \in Int /\ b * y \in Int /\ b * (y + 1) \in Int
  OBVIOUS
<1> QED
  BY <1>1, <1>2, <1>3, <1>4

\* The rate of a part is a share.
LEMMA RatioIsShare ==
  ASSUME NEW a \in Nat, NEW d \in Nat
  PROVE  /\ Ratio(a, d) \in Int /\ Ratio(a, d) >= 0
         /\ a <= d => Ratio(a, d) \in 0..Million
<1>1. CASE d = 0
  <2>1. Ratio(a, d) = 0
    BY <1>1 DEF Ratio
  <2>2. Million \in Nat
    BY SMT DEF Million
  <2> QED
    BY <2>1, <2>2
<1>2. CASE d # 0
  <2> DEFINE m == a * Million
             q == Rounded(m, d)
  <2>1. m \in Nat /\ Million \in Nat
    BY SMT DEF Million
  <2>2. q \in Int /\ 2 * d * q <= 2 * m + d /\ 2 * m < 2 * d * q + d
    <3>1. m \in Int /\ d \in Nat \ {0}
      BY <1>2, <2>1
    <3> HIDE DEF m
    <3> QED
      BY ONLY <3>1, Rounding
  <2>3. Ratio(a, d) = q
    BY <1>2 DEF Ratio
  <2>4. q >= 0
    <3>1. 0 < d * (2 * q + 1)
      <4> HIDE DEF q, m
      <4>1. 2 * d * q + d = d * (2 * q + 1)
        BY <2>2
      <4> QED
        BY <2>1, <2>2, <4>1
    <3>2. 0 < 2 * q + 1
      <4> HIDE DEF q, m
      <4>1. d * 0 < d * (2 * q + 1) /\ 2 * q + 1 \in Int
        BY <2>2, <3>1
      <4> QED
        BY <1>2, <4>1, Cancel
    <3> HIDE DEF q, m
    <3> QED
      BY <2>2, <3>2
  <2>5. ASSUME a <= d PROVE q <= Million
    <3>1. m <= d * Million
      BY SMT, <2>5 DEF Million
    <3> HIDE DEF q, m
    <3>2. d * (2 * q) <= d * (2 * Million + 1)
      <4>1. d * (2 * q) = 2 * d * q /\ d * (2 * Million + 1) = 2 * (d * Million) + d
        BY <2>1, <2>2
      <4> QED
        BY <2>1, <2>2, <3>1, <4>1
    <3>3. 2 * q <= 2 * Million + 1
      BY <1>2, <2>1, <2>2, <3>2, Cancel
    <3> QED
      BY <2>1, <2>2, <3>3
  <2> HIDE DEF q
  <2> QED
    BY <2>1, <2>2, <2>3, <2>4, <2>5
<1> QED
  BY <1>1, <1>2

\* The rates of two parts of one whole, together: each may be rounded up by
\* half a millionth, or down.
LEMMA TwoRatios ==
  ASSUME NEW a \in Nat, NEW b \in Nat, NEW d \in Nat, a + b <= d
  PROVE  /\ Ratio(a, d) + Ratio(b, d) <= Million + 1
         /\ d # 0 /\ a + b = d => Ratio(a, d) + Ratio(b, d) >= Million - 1
<1>1. CASE d = 0
  BY SMT, <1>1 DEF Ratio, Million
<1>2. CASE d # 0
  <2> DEFINE m == a * Million
             n == b * Million
             q == Rounded(m, d)
             p == Rounded(n, d)
  <2>1. m \in Nat /\ n \in Nat /\ Million \in Nat
    BY SMT DEF Million
  <2>2. q \in Int /\ 2 * d * q <= 2 * m + d /\ 2 * m < 2 * d * q + d
    <3>1. m \in Int /\ d \in Nat \ {0}
      BY <1>2, <2>1
    <3> HIDE DEF m
    <3> QED
      BY ONLY <3>1, Rounding
  <2>3. p \in Int /\ 2 * d * p <= 2 * n + d /\ 2 * n < 2 * d * p + d
    <3>1. n \in Int /\ d \in Nat \ {0}
      BY <1>2, <2>1
    <3> HIDE DEF n
    <3> QED
      BY ONLY <3>1, Rounding
  <2>4. Ratio(a, d) = q /\ Ratio(b, d) = p
    BY <1>2 DEF Ratio
  <2>5. m + n <= d * Million /\ (a + b = d => m + n = d * Million)
    BY SMT DEF Million
  <2> HIDE DEF q, p, m, n
  <2>6. (2 * d) * (q + p) = 2 * d * q + 2 * d * p
    BY <2>2, <2>3
  <2>7. (2 * d) * (Million + 1) = 2 * (d * Million) + 2 * d
    BY <2>1
  <2>8. (2 * d) * (q + p) <= (2 * d) * (Million + 1)
    BY <2>1, <2>2, <2>3, <2>5, <2>6, <2>7
  <2>9. q + p <= Million + 1
    BY <1>2, <2>1, <2>2, <2>3, <2>8, Cancel
  <2>10. ASSUME a + b = d PROVE Million <= q + p
    <3>1. (2 * d) * Million = 2 * (d * Million)
      BY <2>1
    <3>2. (2 * d) * Million < (2 * d) * (q + p) + 2 * d
      BY <2>1, <2>2, <2>3, <2>5, <2>6, <2>10, <3>1
    <3> QED
      BY <1>2, <2>1, <2>2, <2>3, <3>2, Cancel
  <2> QED
    BY <2>1, <2>2, <2>3, <2>4, <2>9, <2>10
<1> QED
  BY <1>1, <1>2

\* A larger share rounds to no smaller a rate.
LEMMA RatioIsMonotone ==
  ASSUME NEW a \in Nat, NEW d \in Nat \ {0}, NEW b \in Nat, NEW e \in Nat \ {0},
         a * e <= b * d
  PROVE  Ratio(a, d) <= Ratio(b, e)
<1> DEFINE m == a * Million
           n == b * Million
           q == Rounded(m, d)
           p == Rounded(n, e)
<1>1. Million \in Nat \ {0} /\ m \in Nat /\ n \in Nat
  BY SMT DEF Million
<1>2. m * e <= n * d
  <2> DEFINE x == a * e
             y == b * d
  <2>1. x \in Nat /\ y \in Nat /\ x <= y
    OBVIOUS
  <2>2. m * e = Million * x /\ n * d = Million * y
    BY <1>1
  <2> HIDE DEF m, n, x, y
  <2>3. Million * x <= Million * y
    BY <1>1, <2>1
  <2> QED
    BY <2>2, <2>3
<1>3. Ratio(a, d) = q /\ Ratio(b, e) = p
  BY DEF Ratio
<1> HIDE DEF m, n
<1>4. q \in Int /\ 2 * d * q <= 2 * m + d
  BY ONLY <1>1, d \in Nat \ {0}, Rounding
<1>5. p \in Int /\ 2 * n < 2 * e * p + e
  BY ONLY <1>1, e \in Nat \ {0}, Rounding
<1> HIDE DEF q, p
<1> DEFINE k == 2 * d * e
<1>6. k * q < k * p + k
  <2>1. e * (2 * d * q) <= e * (2 * m + d)
    BY <1>1, <1>4
  <2>2. d * (2 * n) < d * (2 * e * p + e)
    BY <1>1, <1>5
  <2>3. /\ e * (2 * d * q) = k * q /\ e * (2 * m + d) = 2 * (m * e) + d * e
        /\ d * (2 * n) = 2 * (n * d) /\ d * (2 * e * p + e) = k * p + d * e
        /\ k = 2 * (d * e) /\ d * e \in Nat
    BY <1>1, <1>4, <1>5
  <2> DEFINE me == m * e
             nd == n * d
             de == d * e
             kq == k * q
             kp == k * p
  <2>4. me \in Int /\ nd \in Int /\ de \in Nat /\ kq \in Int /\ kp \in Int /\ k \in Int
    BY <1>1, <1>4, <1>5
  <2>5. kq <= 2 * me + de /\ 2 * nd < kp + de /\ me <= nd /\ k = 2 * de
    BY <1>2, <2>1, <2>2, <2>3
  <2> HIDE DEF me, nd, de, kq, kp, k
  <2>6. kq < kp + k
    BY <2>4, <2>5
  <2> QED
    BY <2>6 DEF kq, kp
<1>7. k \in Nat \ {0}
  OBVIOUS
<1> HIDE DEF k
<1> QED
  BY <1>3, <1>4, <1>5, <1>6, <1>7, Cancel

\* The rate over two groups lies between their rates.
LEMMA RatioLiesBetween ==
  ASSUME NEW a \in Nat, NEW d \in Nat, a <= d, NEW b \in Nat, NEW e \in Nat, b <= e
  PROVE  /\ Least(Ratio(a, d), Ratio(b, e)) <= Ratio(a + b, d + e)
         /\ Ratio(a + b, d + e) <= Most(Ratio(a, d), Ratio(b, e))
<1>0. /\ Ratio(a, d) \in Int /\ Ratio(a, d) >= 0
      /\ Ratio(b, e) \in Int /\ Ratio(b, e) >= 0
      /\ Ratio(a + b, d + e) \in Int
  <2>1. a + b \in Nat /\ d + e \in Nat
    OBVIOUS
  <2>2. Ratio(a + b, d + e) \in Int
    BY ONLY <2>1, RatioIsShare
  <2> QED
    BY <2>2, RatioIsShare
<1>1. CASE d = 0
  <2>1. Ratio(a + b, d + e) = Ratio(b, e)
    BY <1>1
  <2>2. Ratio(a, d) = 0
    BY <1>1 DEF Ratio
  <2> QED
    BY <1>0, <2>1, <2>2 DEF Least, Most
<1>2. CASE e = 0
  <2>1. Ratio(a + b, d + e) = Ratio(a, d)
    BY <1>2
  <2>2. Ratio(b, e) = 0
    BY <1>2 DEF Ratio
  <2> QED
    BY <1>0, <2>1, <2>2 DEF Least, Most
<1>3. CASE d # 0 /\ e # 0
  <2>1. /\ a * (d + e) = a * d + a * e /\ b * (d + e) = b * d + b * e
        /\ (a + b) * d = a * d + b * d /\ (a + b) * e = a * e + b * e
        /\ a * d \in Int /\ a * e \in Int /\ b * d \in Int /\ b * e \in Int
    OBVIOUS
  <2>2. d \in Nat \ {0} /\ e \in Nat \ {0} /\ d + e \in Nat \ {0} /\ a + b \in Nat
    BY <1>3
  <2>3. CASE a * e <= b * d
    <3>1. a * (d + e) <= (a + b) * d /\ (a + b) * e <= b * (d + e)
      BY <2>1, <2>3
    <3>2. Ratio(a, d) <= Ratio(a + b, d + e) /\ Ratio(a + b, d + e) <= Ratio(b, e)
      BY <2>2, <3>1, RatioIsMonotone
    <3> QED
      BY <1>0, <3>2 DEF Least, Most
  <2>4. CASE b * d <= a * e
    <3>1. b * (d + e) <= (a + b) * e /\ (a + b) * d <= a * (d + e)
      BY <2>1, <2>4
    <3>2. Ratio(b, e) <= Ratio(a + b, d + e) /\ Ratio(a + b, d + e) <= Ratio(a, d)
      BY <2>2, <3>1, RatioIsMonotone
    <3> QED
      BY <1>0, <3>2 DEF Least, Most
  <2> QED
    BY <2>1, <2>3, <2>4
<1> QED
  BY <1>1, <1>2, <1>3

------------------------------------------------------------------------------
(* The invariant. *)

\* Rows of one group share their position.
RowsAlign ==
  Generated =>
    /\ Len(orders) = Len(payments)
    /\ Len(events) = Len(payments)
    /\ \A id \in DOMAIN payments : payments[id].order = id

\* Planting starts after the last draw.
PlantsAfterTraffic == phase = "planted" => Len(payments) >= Len(plan.traffic)

RowsInv == TypeOK /\ RowsAlign /\ PlantsAfterTraffic /\ RowsAreConsistent

\* Refunds and disputes are the generator's: a service writes none.
RefundsAreGenerated == ~Generated => refunds = {} /\ disputes = {}

TablesInv == RowsInv /\ RefundsAreGenerated

------------------------------------------------------------------------------
(* The tables are finite, so that they can be counted. *)

\* Rows that share a payment at most once are no more than its payments.
LEMMA OnePerPayment ==
  ASSUME NEW rows, \A r1, r2 \in rows : r1.payment = r2.payment => r1 = r2,
         NEW ids, IsFiniteSet(ids), \A r \in rows : r.payment \in ids
  PROVE  IsFiniteSet(rows) /\ Cardinality(rows) \in Nat /\ Cardinality(rows) <= Cardinality(ids)
<1> DEFINE f == [r \in rows |-> r.payment]
<1>1. f \in Injection(rows, ids)
  BY DEF Injection, IsInjective
<1> HIDE DEF f
<1>2. IsFiniteSet(rows) /\ Cardinality(rows) <= Cardinality(ids)
  BY <1>1, FS_Injection
<1> QED
  BY <1>2, FS_CardinalityType

LEMMA TablesAreFinite ==
  ASSUME TablesInv
  PROVE  /\ IsFiniteSet(DOMAIN payments) /\ IsFiniteSet(DOMAIN events)
         /\ IsFiniteSet(refunds) /\ IsFiniteSet(disputes)
<1>1. IsFiniteSet(DOMAIN payments)
  <2>1. DOMAIN payments = 1..Len(payments) /\ Len(payments) \in Nat
    BY DEF TablesInv, RowsInv, TypeOK
  <2> QED
    BY <2>1, IntervalSize
<1>2. IsFiniteSet(DOMAIN events)
  <2>1. DOMAIN events = 1..Len(events) /\ Len(events) \in Nat
    BY DEF TablesInv, RowsInv, TypeOK
  <2> QED
    BY <2>1, IntervalSize
<1>3. CASE Generated
  <2>1. /\ \A r1, r2 \in refunds : r1.payment = r2.payment => r1 = r2
        /\ \A r \in refunds : r.payment \in DOMAIN payments
        /\ \A r1, r2 \in disputes : r1.payment = r2.payment => r1 = r2
        /\ \A r \in disputes : r.payment \in DOMAIN payments
    BY <1>3 DEF TablesInv, RowsInv, RowsAreConsistent, RefundsAreCovered
  <2> QED
    BY <1>1, <1>2, <2>1, OnePerPayment
<1>4. CASE ~Generated
  BY <1>1, <1>2, <1>4, FS_EmptySet DEF TablesInv, RefundsAreGenerated
<1> QED
  BY <1>3, <1>4

LEMMA SelectedIsFinite ==
  ASSUME TablesInv, NEW window, NEW merchant, NEW method
  PROVE  LET ids == Selected(window, merchant, method)
         IN  /\ IsFiniteSet(ids)
             /\ \A s \in SUBSET ids : IsFiniteSet(s) /\ Cardinality(s) \in Nat /\ Cardinality(s) <= Cardinality(ids)
<1>1. Selected(window, merchant, method) \in SUBSET DOMAIN payments
  BY DEF Selected
<1> DEFINE ids == Selected(window, merchant, method)
<1> HIDE DEF ids
<1>2. IsFiniteSet(ids)
  BY <1>1, TablesAreFinite, FS_Subset DEF ids
<1>3. \A s \in SUBSET ids : IsFiniteSet(s) /\ Cardinality(s) \in Nat /\ Cardinality(s) <= Cardinality(ids)
  BY <1>2, FS_Subset, FS_CardinalityType
<1> QED
  BY <1>2, <1>3 DEF ids

\* The counts of a window are numbers, and its parts together no more than it.
LEMMA CountsAreNumbers ==
  ASSUME TablesInv, NEW window, NEW merchant, NEW method
  PROVE  LET counts == PaymentCounts(window, merchant, method)
         IN  /\ counts.total \in Nat /\ counts.succeeded \in Nat /\ counts.failed \in Nat
             /\ counts.succeeded + counts.failed <= counts.total
<1> DEFINE ids == Selected(window, merchant, method)
           s == Of(ids, "succeeded")
           f == Of(ids, "failed")
<1>1. s \in SUBSET ids /\ f \in SUBSET ids /\ s \cap f = {} /\ s \cup f \in SUBSET ids /\ ids \in SUBSET ids
  BY DEF Of
<1>2. IsFiniteSet(ids) /\ \A t \in SUBSET ids : IsFiniteSet(t) /\ Cardinality(t) \in Nat /\ Cardinality(t) <= Cardinality(ids)
  BY SelectedIsFinite
<1>3. PaymentCounts(window, merchant, method) =
        [total |-> Cardinality(ids), succeeded |-> Cardinality(s), failed |-> Cardinality(f)]
  BY DEF PaymentCounts, Counts
<1> HIDE DEF ids, s, f
<1>4. Cardinality(s \cup f) = Cardinality(s) + Cardinality(f)
  BY <1>1, <1>2, DisjointCount
<1> QED
  BY <1>1, <1>2, <1>3, <1>4

\* Refunds and disputes are of payments that succeeded, one each.
LEMMA RelatedAreFew ==
  ASSUME TablesInv, NEW window, NEW merchant, NEW method,
         NEW rows, rows \in SUBSET refunds \/ rows \in SUBSET disputes
  PROVE  /\ Cardinality(Related(rows, window, merchant, method)) \in Nat
         /\ Cardinality(Related(rows, window, merchant, method)) <=
              PaymentCounts(window, merchant, method).succeeded
<1> DEFINE found == Related(rows, window, merchant, method)
           ids == Of(Selected(window, merchant, method), "succeeded")
<1>1. PaymentCounts(window, merchant, method).succeeded = Cardinality(ids)
  BY DEF PaymentCounts, Counts
<1>2. IsFiniteSet(ids) /\ Cardinality(ids) \in Nat
  <2>1. ids \in SUBSET Selected(window, merchant, method)
    BY DEF Of
  <2> QED
    BY <2>1, SelectedIsFinite
<1>3. \A r \in found : r \in rows /\ r.payment \in Selected(window, merchant, method)
  BY DEF Related
<1>4. CASE Generated
  <2>1. \A r \in found : r.payment \in ids
    BY <1>3, <1>4 DEF TablesInv, RowsInv, RowsAreConsistent, RefundsAreCovered, Of
  <2>2. \A r1, r2 \in found : r1.payment = r2.payment => r1 = r2
    BY <1>3, <1>4 DEF TablesInv, RowsInv, RowsAreConsistent, RefundsAreCovered
  <2> HIDE DEF found, ids
  <2> QED
    BY <1>1, <1>2, <2>1, <2>2, OnePerPayment DEF found
<1>5. CASE ~Generated
  <2>1. found = {}
    BY <1>3, <1>5 DEF TablesInv, RefundsAreGenerated
  <2> HIDE DEF found, ids
  <2> QED
    BY <1>1, <1>2, <2>1, FS_EmptySet DEF found
<1> QED
  BY <1>4, <1>5

LEMMA CountsAreSharesOfTotal ==
  ASSUME TablesInv, NEW window, NEW merchant
  PROVE  LET counts == PaymentCounts(window, merchant, AllMethods)
         IN  /\ counts.succeeded \in Nat /\ counts.total \in Nat
             /\ counts.succeeded <= counts.total
<1> DEFINE counts == PaymentCounts(window, merchant, AllMethods)
<1>1. /\ counts.total \in Nat /\ counts.succeeded \in Nat /\ counts.failed \in Nat
      /\ counts.succeeded + counts.failed <= counts.total
  BY CountsAreNumbers
<1> HIDE DEF counts
<1>2. counts.succeeded <= counts.total
  BY <1>1
<1> QED
  BY <1>1, <1>2 DEF counts

LEMMA RatesAreSharesOfAll ==
  ASSUME TablesInv, NEW window, NEW merchant, NEW method
  PROVE  /\ SuccessRate(window, merchant, method) \in 0..Million
         /\ FailureRate(window, merchant, method) \in 0..Million
         /\ RefundRate(window, merchant, method) \in 0..Million
         /\ DisputeRate(window, merchant, method) \in 0..Million
         /\ WebhookFailureRate(window, merchant, method) \in 0..Million
<1> DEFINE counts == PaymentCounts(window, merchant, method)
<1>1. /\ counts.total \in Nat /\ counts.succeeded \in Nat /\ counts.failed \in Nat
      /\ counts.succeeded <= counts.total /\ counts.failed <= counts.total
  <2>1. /\ counts.total \in Nat /\ counts.succeeded \in Nat /\ counts.failed \in Nat
        /\ counts.succeeded + counts.failed <= counts.total
    BY CountsAreNumbers
  <2> HIDE DEF counts
  <2> QED
    BY <2>1
<1>2. /\ SuccessRate(window, merchant, method) = Ratio(counts.succeeded, counts.total)
      /\ FailureRate(window, merchant, method) = Ratio(counts.failed, counts.total)
  BY DEF SuccessRate, FailureRate
<1>3. PICK processed \in SUBSET refunds :
        RefundRate(window, merchant, method) =
          Ratio(Cardinality(Related(processed, window, merchant, method)), counts.succeeded)
  BY DEF RefundRate
<1>4. DisputeRate(window, merchant, method) =
        Ratio(Cardinality(Related(disputes, window, merchant, method)), counts.succeeded)
  BY DEF DisputeRate
<1>5. /\ Cardinality(Related(processed, window, merchant, method)) \in Nat
      /\ Cardinality(Related(processed, window, merchant, method)) <= counts.succeeded
      /\ Cardinality(Related(disputes, window, merchant, method)) \in Nat
      /\ Cardinality(Related(disputes, window, merchant, method)) <= counts.succeeded
  BY RelatedAreFew
<1>6. WebhookFailureRate(window, merchant, method) \in 0..Million
  <2> DEFINE joined == {e \in DOMAIN events : events[e].payment \in Selected(window, merchant, method)}
             failed == {e \in joined : events[e].delivery_status = "failed"}
  <2>1. joined \in SUBSET DOMAIN events /\ failed \in SUBSET joined
    OBVIOUS
  <2>2. WebhookFailureRate(window, merchant, method) = Ratio(Cardinality(failed), Cardinality(joined))
    BY DEF WebhookFailureRate
  <2> HIDE DEF joined, failed
  <2>3. IsFiniteSet(joined)
    BY <2>1, TablesAreFinite, FS_Subset
  <2>4. Cardinality(failed) \in Nat /\ Cardinality(joined) \in Nat /\ Cardinality(failed) <= Cardinality(joined)
    BY <2>1, <2>3, FS_Subset, FS_CardinalityType
  <2> QED
    BY <2>2, <2>4, RatioIsShare
<1> HIDE DEF counts
<1>7. /\ SuccessRate(window, merchant, method) \in 0..Million
      /\ FailureRate(window, merchant, method) \in 0..Million
  BY <1>1, <1>2, RatioIsShare
<1>8. /\ RefundRate(window, merchant, method) \in 0..Million
      /\ DisputeRate(window, merchant, method) \in 0..Million
  BY <1>1, <1>3, <1>4, <1>5, RatioIsShare
<1> QED
  BY <1>6, <1>7, <1>8

------------------------------------------------------------------------------
(* The health score: each factor is rounded twice, the sum of them once. *)

\* A score c and penalty points p, for a factor of weight w, both rounded once:
\* together they make the whole weight, up to half a hundredth for each.
IsExplained(w, c, p) ==
  /\ c \in 0..10000
  /\ p \in Nat
  /\ 2 * (w * c + 100 * p) >= 20000 * w - (w + 100)
  /\ 2 * (w * c + 100 * p) <= 20000 * w + (w + 100)

\* The table of weights, and of the spans from healthy to critical.
LEMMA FactorTable ==
  ASSUME NEW f \in Factors
  PROVE  \E k \in Nat :
           /\ Span(f) = 10000 * k
           /\ <<FACTOR_WEIGHTS[f], k>> \in {<<20, 25>>, <<10, 22>>, <<20, 4>>, <<15, 17>>, <<15, 60>>}
<1>1. CASE f = "success_rate"
  BY <1>1 DEF FACTOR_WEIGHTS, FACTOR_BOUNDS, Span, Most
<1>2. CASE f = "failure_rate"
  BY <1>2 DEF FACTOR_WEIGHTS, FACTOR_BOUNDS, Span, Most
<1>3. CASE f = "refund_rate"
  BY <1>3 DEF FACTOR_WEIGHTS, FACTOR_BOUNDS, Span, Most
<1>4. CASE f = "dispute_rate"
  BY <1>4 DEF FACTOR_WEIGHTS, FACTOR_BOUNDS, Span, Most
<1>5. CASE f = "webhook_reliability"
  BY <1>5 DEF FACTOR_WEIGHTS, FACTOR_BOUNDS, Span, Most
<1>6. CASE f = "anomaly_severity"
  BY <1>6 DEF FACTOR_WEIGHTS, FACTOR_BOUNDS, Span, Most
<1> QED
  BY <1>1, <1>2, <1>3, <1>4, <1>5, <1>6 DEF Factors

\* One factor, whatever its value.
LEMMA FactorIsExplained ==
  ASSUME NEW f \in Factors, NEW value \in Int
  PROVE  /\ IsExplained(FACTOR_WEIGHTS[f], FactorScore(f, value), PenaltyPoints(f, value))
         /\ Penalty(f, value) > 0 \/ PenaltyPoints(f, value) = 0
         /\ PenaltyPoints(f, value) \in Nat
<1> DEFINE w == FACTOR_WEIGHTS[f]
           P == Penalty(f, value)
<1>1. PICK k \in Nat :
        /\ Span(f) = 10000 * k
        /\ <<w, k>> \in {<<20, 25>>, <<10, 22>>, <<20, 4>>, <<15, 17>>, <<15, 60>>}
  BY FactorTable
<1>2. FACTOR_BOUNDS[f].healthy \in Int
  BY DEF Factors, FACTOR_BOUNDS
<1>3. P \in Int /\ 0 <= P /\ P <= 10000 * k
  <2>1. 10000 * k \in Nat
    OBVIOUS
  <2> QED
    BY <1>1, <1>2, <2>1 DEF Penalty, Least, Most
<1>4. Span(f) \div 10000 = k /\ Span(f) \div 100 = 100 * k
  BY <1>1
<1> DEFINE a == 10000 * k - P
           b == w * P
           d == 100 * k
           c == Rounded(a, k)
           p == Rounded(b, d)
<1>5. FactorScore(f, value) = c /\ PenaltyPoints(f, value) = p
  BY <1>4 DEF FactorScore, PenaltyPoints
<1>0. k \in Nat \ {0} /\ w \in Nat
  BY <1>1
<1>6. c \in Int /\ 2 * k * c <= 2 * (10000 * k - P) + k /\ 2 * (10000 * k - P) < 2 * k * c + k
  <2>1. a \in Int /\ k \in Nat \ {0} /\ c = Rounded(a, k)
    BY <1>0, <1>3
  <2> HIDE DEF a, c
  <2>2. c \in Int /\ 2 * k * c <= 2 * a + k /\ 2 * a < 2 * k * c + k
    BY ONLY <2>1, Rounding
  <2> QED
    BY <2>2 DEF a
<1>7. p \in Int /\ 2 * (100 * k) * p <= 2 * (w * P) + 100 * k /\ 2 * (w * P) < 2 * (100 * k) * p + 100 * k
  <2>1. b \in Int /\ d \in Nat \ {0} /\ p = Rounded(b, d)
    BY <1>0, <1>3
  <2> HIDE DEF b, d, p
  <2>2. p \in Int /\ 2 * d * p <= 2 * b + d /\ 2 * b < 2 * d * p + d
    BY ONLY <2>1, Rounding
  <2> QED
    BY <2>2 DEF b, d
<1>8. IsExplained(w, c, p) /\ p >= 0 /\ (P = 0 => p = 0)
  <2> HIDE DEF c, p, w, P
  <2>4. CASE w = 20 /\ k = 25
    <3>1. P \in Int /\ 0 <= P /\ P <= 250000
      BY <1>3, <2>4
    <3>2. c \in Int /\ 50 * c <= 500025 - 2 * P /\ 500000 - 2 * P < 50 * c + 25
      BY <1>6, <2>4, <3>1
    <3>3. p \in Int /\ 5000 * p <= 40 * P + 2500 /\ 40 * P < 5000 * p + 2500
      BY <1>7, <2>4, <3>1
    <3>4. 0 <= c /\ c <= 10000
      BY ONLY SMT, <3>1, <3>2
    <3>5. p >= 0 /\ (P = 0 => p = 0)
      BY ONLY SMT, <3>1, <3>3
    <3>6. /\ 2 * (20 * c + 100 * p) >= 399880
          /\ 2 * (20 * c + 100 * p) <= 400120
      BY ONLY SMT, <3>1, <3>2, <3>3
    <3>7. IsExplained(20, c, p)
      BY ONLY SMT, <3>2, <3>3, <3>4, <3>5, <3>6 DEF IsExplained
    <3> QED
      BY <2>4, <3>5, <3>7
  <2>5. CASE w = 10 /\ k = 22
    <3>1. P \in Int /\ 0 <= P /\ P <= 220000
      BY <1>3, <2>5
    <3>2. c \in Int /\ 44 * c <= 440022 - 2 * P /\ 440000 - 2 * P < 44 * c + 22
      BY <1>6, <2>5, <3>1
    <3>3. p \in Int /\ 4400 * p <= 20 * P + 2200 /\ 20 * P < 4400 * p + 2200
      BY <1>7, <2>5, <3>1
    <3>4. 0 <= c /\ c <= 10000
      BY ONLY SMT, <3>1, <3>2
    <3>5. p >= 0 /\ (P = 0 => p = 0)
      BY ONLY SMT, <3>1, <3>3
    <3>6. /\ 2 * (10 * c + 100 * p) >= 199890
          /\ 2 * (10 * c + 100 * p) <= 200110
      BY ONLY SMT, <3>1, <3>2, <3>3
    <3>7. IsExplained(10, c, p)
      BY ONLY SMT, <3>2, <3>3, <3>4, <3>5, <3>6 DEF IsExplained
    <3> QED
      BY <2>5, <3>5, <3>7
  <2>6. CASE w = 20 /\ k = 4
    <3>1. P \in Int /\ 0 <= P /\ P <= 40000
      BY <1>3, <2>6
    <3>2. c \in Int /\ 8 * c <= 80004 - 2 * P /\ 80000 - 2 * P < 8 * c + 4
      BY <1>6, <2>6, <3>1
    <3>3. p \in Int /\ 800 * p <= 40 * P + 400 /\ 40 * P < 800 * p + 400
      BY <1>7, <2>6, <3>1
    <3>4. 0 <= c /\ c <= 10000
      BY ONLY SMT, <3>1, <3>2
    <3>5. p >= 0 /\ (P = 0 => p = 0)
      BY ONLY SMT, <3>1, <3>3
    <3>6. /\ 2 * (20 * c + 100 * p) >= 399880
          /\ 2 * (20 * c + 100 * p) <= 400120
      BY ONLY SMT, <3>1, <3>2, <3>3
    <3>7. IsExplained(20, c, p)
      BY ONLY SMT, <3>2, <3>3, <3>4, <3>5, <3>6 DEF IsExplained
    <3> QED
      BY <2>6, <3>5, <3>7
  <2>7. CASE w = 15 /\ k = 17
    <3>1. P \in Int /\ 0 <= P /\ P <= 170000
      BY <1>3, <2>7
    <3>2. c \in Int /\ 34 * c <= 340017 - 2 * P /\ 340000 - 2 * P < 34 * c + 17
      BY <1>6, <2>7, <3>1
    <3>3. p \in Int /\ 3400 * p <= 30 * P + 1700 /\ 30 * P < 3400 * p + 1700
      BY <1>7, <2>7, <3>1
    <3>4. 0 <= c /\ c <= 10000
      BY ONLY SMT, <3>1, <3>2
    <3>5. p >= 0 /\ (P = 0 => p = 0)
      BY ONLY SMT, <3>1, <3>3
    <3>6. /\ 2 * (15 * c + 100 * p) >= 299885
          /\ 2 * (15 * c + 100 * p) <= 300115
      BY ONLY SMT, <3>1, <3>2, <3>3
    <3>7. IsExplained(15, c, p)
      BY ONLY SMT, <3>2, <3>3, <3>4, <3>5, <3>6 DEF IsExplained
    <3> QED
      BY <2>7, <3>5, <3>7
  <2>8. CASE w = 15 /\ k = 60
    <3>1. P \in Int /\ 0 <= P /\ P <= 600000
      BY <1>3, <2>8
    <3>2. c \in Int /\ 120 * c <= 1200060 - 2 * P /\ 1200000 - 2 * P < 120 * c + 60
      BY <1>6, <2>8, <3>1
    <3>3. p \in Int /\ 12000 * p <= 30 * P + 6000 /\ 30 * P < 12000 * p + 6000
      BY <1>7, <2>8, <3>1
    <3>4. 0 <= c /\ c <= 10000
      BY ONLY SMT, <3>1, <3>2
    <3>5. p >= 0 /\ (P = 0 => p = 0)
      BY ONLY SMT, <3>1, <3>3
    <3>6. /\ 2 * (15 * c + 100 * p) >= 299885
          /\ 2 * (15 * c + 100 * p) <= 300115
      BY ONLY SMT, <3>1, <3>2, <3>3
    <3>7. IsExplained(15, c, p)
      BY ONLY SMT, <3>2, <3>3, <3>4, <3>5, <3>6 DEF IsExplained
    <3> QED
      BY <2>8, <3>5, <3>7
  <2> QED
    BY <1>1, <2>4, <2>5, <2>6, <2>7, <2>8
<1>9. P > 0 \/ P = 0
  BY <1>3
<1>10. p \in Nat
  BY <1>7, <1>8
<1> HIDE DEF c, p, w, P
<1> QED
  BY <1>5, <1>8, <1>9, <1>10 DEF c, p, w, P

LEMMA FactorsAreFinite == IsFiniteSet(Factors)
<1> DEFINE s1 == {"success_rate"}
           s2 == s1 \cup {"failure_rate"}
           s3 == s2 \cup {"refund_rate"}
           s4 == s3 \cup {"dispute_rate"}
           s5 == s4 \cup {"webhook_reliability"}
<1>1. IsFiniteSet(s1) /\ IsFiniteSet(s2) /\ IsFiniteSet(s3)
  BY FS_Singleton, FS_AddElement
<1>2. IsFiniteSet(s4)
  BY <1>1, FS_AddElement
<1>3. IsFiniteSet(s5)
  BY <1>2, FS_AddElement
<1>4. IsFiniteSet(s5 \cup {"anomaly_severity"})
  BY <1>3, FS_AddElement
<1>5. Factors = s5 \cup {"anomaly_severity"}
  BY DEF Factors
<1> QED
  BY <1>4, <1>5

\* A sum over the six factors.
LEMMA SumOverFactors ==
  ASSUME NEW f, DOMAIN f = Factors, \A x \in Factors : f[x] \in Int
  PROVE  SumFunction(f) =
           f["success_rate"] + f["failure_rate"] + f["refund_rate"] + f["dispute_rate"]
             + f["webhook_reliability"] + f["anomaly_severity"]
<1>1. IsFiniteSet(Factors)
  BY FactorsAreFinite
<1>2. PICK sum \in [SUBSET Factors -> Int] :
        /\ sum[{}] = 0
        /\ \A s \in SUBSET Factors : \A x \in s : sum[s] = f[x] + sum[s \ {x}]
        /\ SumFunction(f) = sum[Factors]
  BY <1>1, SumSplits
<1> DEFINE s5 == {"failure_rate", "refund_rate", "dispute_rate", "webhook_reliability", "anomaly_severity"}
           s4 == {"refund_rate", "dispute_rate", "webhook_reliability", "anomaly_severity"}
           s3 == {"dispute_rate", "webhook_reliability", "anomaly_severity"}
           s2 == {"webhook_reliability", "anomaly_severity"}
           s1 == {"anomaly_severity"}
<1>3. /\ Factors \ {"success_rate"} = s5 /\ s5 \ {"failure_rate"} = s4
      /\ s4 \ {"refund_rate"} = s3 /\ s3 \ {"dispute_rate"} = s2
      /\ s2 \ {"webhook_reliability"} = s1 /\ s1 \ {"anomaly_severity"} = {}
  BY DEF Factors
<1>4. /\ s5 \in SUBSET Factors /\ s4 \in SUBSET Factors /\ s3 \in SUBSET Factors
      /\ s2 \in SUBSET Factors /\ s1 \in SUBSET Factors /\ Factors \in SUBSET Factors
      /\ "success_rate" \in Factors /\ "failure_rate" \in s5 /\ "refund_rate" \in s4
      /\ "dispute_rate" \in s3 /\ "webhook_reliability" \in s2 /\ "anomaly_severity" \in s1
  BY DEF Factors
<1> HIDE DEF s1, s2, s3, s4, s5
<1>8. ASSUME NEW s \in SUBSET Factors, NEW x \in s, NEW t, s \ {x} = t
      PROVE  sum[s] = f[x] + sum[t]
  BY <1>2, <1>8
<1>5. /\ sum[Factors] = f["success_rate"] + sum[s5]
      /\ sum[s5] = f["failure_rate"] + sum[s4]
      /\ sum[s4] = f["refund_rate"] + sum[s3]
      /\ sum[s3] = f["dispute_rate"] + sum[s2]
      /\ sum[s2] = f["webhook_reliability"] + sum[s1]
      /\ sum[s1] = f["anomaly_severity"] + sum[{}]
  <2>1. sum[Factors] = f["success_rate"] + sum[s5]
    BY ONLY <1>3, <1>4, <1>8
  <2>2. sum[s5] = f["failure_rate"] + sum[s4]
    BY ONLY <1>3, <1>4, <1>8
  <2>3. sum[s4] = f["refund_rate"] + sum[s3]
    BY ONLY <1>3, <1>4, <1>8
  <2>4. sum[s3] = f["dispute_rate"] + sum[s2]
    BY ONLY <1>3, <1>4, <1>8
  <2>5. sum[s2] = f["webhook_reliability"] + sum[s1]
    BY ONLY <1>3, <1>4, <1>8
  <2>6. sum[s1] = f["anomaly_severity"] + sum[{}]
    BY ONLY <1>3, <1>4, <1>8
  <2> QED
    BY <2>1, <2>2, <2>3, <2>4, <2>5, <2>6
<1>7. /\ f["success_rate"] \in Int /\ f["failure_rate"] \in Int /\ f["refund_rate"] \in Int
      /\ f["dispute_rate"] \in Int /\ f["webhook_reliability"] \in Int
      /\ f["anomaly_severity"] \in Int
  BY DEF Factors
<1>9. /\ sum[s5] \in Int /\ sum[s4] \in Int /\ sum[s3] \in Int /\ sum[s2] \in Int /\ sum[s1] \in Int
  BY <1>2, <1>4
<1> QED
  BY <1>2, <1>5, <1>7, <1>9

\* The three weights, in numbers.
LEMMA Weights ==
  ASSUME NEW c, NEW p
  PROVE  /\ IsExplained(20, c, p) =>
              /\ c \in Int /\ 0 <= c /\ c <= 10000 /\ p \in Int /\ 0 <= p
              /\ 40 * c + 200 * p >= 399880 /\ 40 * c + 200 * p <= 400120
         /\ IsExplained(10, c, p) =>
              /\ c \in Int /\ 0 <= c /\ c <= 10000 /\ p \in Int /\ 0 <= p
              /\ 20 * c + 200 * p >= 199890 /\ 20 * c + 200 * p <= 200110
         /\ IsExplained(15, c, p) =>
              /\ c \in Int /\ 0 <= c /\ c <= 10000 /\ p \in Int /\ 0 <= p
              /\ 30 * c + 200 * p >= 299885 /\ 30 * c + 200 * p <= 300115
<1>1. ASSUME IsExplained(20, c, p)
      PROVE  /\ c \in Int /\ 0 <= c /\ c <= 10000 /\ p \in Int /\ 0 <= p
             /\ 40 * c + 200 * p >= 399880 /\ 40 * c + 200 * p <= 400120
  BY SMT, <1>1 DEF IsExplained
<1>2. ASSUME IsExplained(10, c, p)
      PROVE  /\ c \in Int /\ 0 <= c /\ c <= 10000 /\ p \in Int /\ 0 <= p
             /\ 20 * c + 200 * p >= 199890 /\ 20 * c + 200 * p <= 200110
  BY SMT, <1>2 DEF IsExplained
<1>3. ASSUME IsExplained(15, c, p)
      PROVE  /\ c \in Int /\ 0 <= c /\ c <= 10000 /\ p \in Int /\ 0 <= p
             /\ 30 * c + 200 * p >= 299885 /\ 30 * c + 200 * p <= 300115
  BY SMT, <1>3 DEF IsExplained
<1> QED
  BY <1>1, <1>2, <1>3

\* The whole score and all its penalties, whatever the values of the factors.
LEMMA FactorsAreExplained ==
  ASSUME NEW values, \A f \in Factors : values[f] \in Int,
         NEW total, total = SumFunction([f \in Factors |-> FACTOR_WEIGHTS[f] * FactorScore(f, values[f])]),
         NEW points, points = SumFunction([f \in Factors |-> PenaltyPoints(f, values[f])])
  PROVE  /\ total \in Nat /\ total <= 1000000 /\ points \in Nat
         /\ 1999300 <= 2 * total + 200 * points /\ 2 * total + 200 * points <= 2000700
<1> DEFINE c == [f \in Factors |-> FactorScore(f, values[f])]
           p == [f \in Factors |-> PenaltyPoints(f, values[f])]
           s == [f \in Factors |-> FACTOR_WEIGHTS[f] * FactorScore(f, values[f])]
<1>1. \A f \in Factors : IsExplained(FACTOR_WEIGHTS[f], c[f], p[f])
  BY FactorIsExplained
<1>2. /\ "success_rate" \in Factors /\ "failure_rate" \in Factors /\ "refund_rate" \in Factors
      /\ "dispute_rate" \in Factors /\ "webhook_reliability" \in Factors
      /\ "anomaly_severity" \in Factors
  BY DEF Factors
<1>3. /\ s["success_rate"] = 20 * c["success_rate"]
      /\ s["failure_rate"] = 20 * c["failure_rate"]
      /\ s["refund_rate"] = 10 * c["refund_rate"]
      /\ s["dispute_rate"] = 20 * c["dispute_rate"]
      /\ s["webhook_reliability"] = 15 * c["webhook_reliability"]
      /\ s["anomaly_severity"] = 15 * c["anomaly_severity"]
  BY <1>2 DEF FACTOR_WEIGHTS
<1>4. DOMAIN s = Factors /\ DOMAIN p = Factors /\ total = SumFunction(s) /\ points = SumFunction(p)
  OBVIOUS
<1> HIDE DEF c, p, s
<1>5. /\ IsExplained(20, c["success_rate"], p["success_rate"])
      /\ IsExplained(20, c["failure_rate"], p["failure_rate"])
      /\ IsExplained(10, c["refund_rate"], p["refund_rate"])
      /\ IsExplained(20, c["dispute_rate"], p["dispute_rate"])
      /\ IsExplained(15, c["webhook_reliability"], p["webhook_reliability"])
      /\ IsExplained(15, c["anomaly_severity"], p["anomaly_severity"])
  BY <1>1, <1>2 DEF FACTOR_WEIGHTS
<1>10. /\ c["success_rate"] \in Int /\ 0 <= c["success_rate"] /\ c["success_rate"] <= 10000
       /\ p["success_rate"] \in Int /\ 0 <= p["success_rate"]
       /\ 40 * c["success_rate"] + 200 * p["success_rate"] >= 399880
       /\ 40 * c["success_rate"] + 200 * p["success_rate"] <= 400120
  BY ONLY <1>5, Weights
<1>11. /\ c["failure_rate"] \in Int /\ 0 <= c["failure_rate"] /\ c["failure_rate"] <= 10000
       /\ p["failure_rate"] \in Int /\ 0 <= p["failure_rate"]
       /\ 40 * c["failure_rate"] + 200 * p["failure_rate"] >= 399880
       /\ 40 * c["failure_rate"] + 200 * p["failure_rate"] <= 400120
  BY ONLY <1>5, Weights
<1>12. /\ c["refund_rate"] \in Int /\ 0 <= c["refund_rate"] /\ c["refund_rate"] <= 10000
       /\ p["refund_rate"] \in Int /\ 0 <= p["refund_rate"]
       /\ 20 * c["refund_rate"] + 200 * p["refund_rate"] >= 199890
       /\ 20 * c["refund_rate"] + 200 * p["refund_rate"] <= 200110
  BY ONLY <1>5, Weights
<1>13. /\ c["dispute_rate"] \in Int /\ 0 <= c["dispute_rate"] /\ c["dispute_rate"] <= 10000
       /\ p["dispute_rate"] \in Int /\ 0 <= p["dispute_rate"]
       /\ 40 * c["dispute_rate"] + 200 * p["dispute_rate"] >= 399880
       /\ 40 * c["dispute_rate"] + 200 * p["dispute_rate"] <= 400120
  BY ONLY <1>5, Weights
<1>14. /\ c["webhook_reliability"] \in Int /\ 0 <= c["webhook_reliability"] /\ c["webhook_reliability"] <= 10000
       /\ p["webhook_reliability"] \in Int /\ 0 <= p["webhook_reliability"]
       /\ 30 * c["webhook_reliability"] + 200 * p["webhook_reliability"] >= 299885
       /\ 30 * c["webhook_reliability"] + 200 * p["webhook_reliability"] <= 300115
  BY ONLY <1>5, Weights
<1>15. /\ c["anomaly_severity"] \in Int /\ 0 <= c["anomaly_severity"] /\ c["anomaly_severity"] <= 10000
       /\ p["anomaly_severity"] \in Int /\ 0 <= p["anomaly_severity"]
       /\ 30 * c["anomaly_severity"] + 200 * p["anomaly_severity"] >= 299885
       /\ 30 * c["anomaly_severity"] + 200 * p["anomaly_severity"] <= 300115
  BY ONLY <1>5, Weights
<1>6. \A f \in Factors : s[f] \in Int /\ p[f] \in Int
  BY SMTT(40), <1>3, <1>10, <1>11, <1>12, <1>13, <1>14, <1>15 DEF Factors
<1>7. /\ total = s["success_rate"] + s["failure_rate"] + s["refund_rate"] + s["dispute_rate"]
             + s["webhook_reliability"] + s["anomaly_severity"]
      /\ points = p["success_rate"] + p["failure_rate"] + p["refund_rate"] + p["dispute_rate"]
             + p["webhook_reliability"] + p["anomaly_severity"]
  BY <1>4, <1>6, SumOverFactors
<1>8. total \in Int /\ points \in Int /\ points >= 0
  BY <1>3, <1>7, <1>10, <1>11, <1>12, <1>13, <1>14, <1>15
<1>9. 2 * total = 40 * c["success_rate"] + 40 * c["failure_rate"] + 20 * c["refund_rate"]
                    + 40 * c["dispute_rate"] + 30 * c["webhook_reliability"] + 30 * c["anomaly_severity"]
  BY SMTT(40), <1>3, <1>7, <1>10, <1>11, <1>12, <1>13, <1>14, <1>15
<1>16. 200 * points = 200 * p["success_rate"] + 200 * p["failure_rate"] + 200 * p["refund_rate"]
                    + 200 * p["dispute_rate"] + 200 * p["webhook_reliability"] + 200 * p["anomaly_severity"]
  BY SMTT(40), <1>7, <1>10, <1>11, <1>12, <1>13, <1>14, <1>15
<1>17. 0 <= 2 * total /\ 2 * total <= 2000000
  BY SMTT(40), <1>9, <1>10, <1>11, <1>12, <1>13, <1>14, <1>15
<1>18. 1999300 <= 2 * total + 200 * points /\ 2 * total + 200 * points <= 2000700
  <2> DEFINE e1 == 40 * c["success_rate"] + 200 * p["success_rate"]
             e2 == 40 * c["failure_rate"] + 200 * p["failure_rate"]
             e3 == 20 * c["refund_rate"] + 200 * p["refund_rate"]
             e4 == 40 * c["dispute_rate"] + 200 * p["dispute_rate"]
             e5 == 30 * c["webhook_reliability"] + 200 * p["webhook_reliability"]
             e6 == 30 * c["anomaly_severity"] + 200 * p["anomaly_severity"]
  <2>1. e1 \in Int /\ 399880 <= e1 /\ e1 <= 400120
    BY SMTT(40), <1>10
  <2>2. e2 \in Int /\ 399880 <= e2 /\ e2 <= 400120
    BY SMTT(40), <1>11
  <2>3. e3 \in Int /\ 199890 <= e3 /\ e3 <= 200110
    BY SMTT(40), <1>12
  <2>4. e4 \in Int /\ 399880 <= e4 /\ e4 <= 400120
    BY SMTT(40), <1>13
  <2>5. e5 \in Int /\ 299885 <= e5 /\ e5 <= 300115
    BY SMTT(40), <1>14
  <2>6. e6 \in Int /\ 299885 <= e6 /\ e6 <= 300115
    BY SMTT(40), <1>15
  <2>7. 2 * total + 200 * points = e1 + e2 + e3 + e4 + e5 + e6
    BY SMTT(40), <1>9, <1>16, <1>10, <1>11, <1>12, <1>13, <1>14, <1>15
  <2> HIDE DEF e1, e2, e3, e4, e5, e6
  <2> QED
    BY SMTT(40), <2>1, <2>2, <2>3, <2>4, <2>5, <2>6, <2>7
<1> QED
  BY SMT, <1>8, <1>17, <1>18

\* What collect_factor_values collects are whole numbers of millionths.
LEMMA FactorsAreNumbers ==
  ASSUME TablesInv, NEW window, NEW merchant
  PROVE  \A f \in Factors : FactorValues(window, merchant)[f] \in Int
<1> DEFINE failure == FailureRate(window, merchant, AllMethods)
           before == EqualPrevious(window)
           rise == Most(0, failure - FailureRate(before, merchant, AllMethods))
           spike60 == IF PaymentCounts(before, merchant, AllMethods).total = 0
                      THEN Least(6 * Million, 24 * failure) ELSE Least(6 * Million, 30 * rise)
           errors == ErrorBreakdown(window, merchant)
           share == IF "GATEWAY_TIMEOUT" \in DOMAIN errors.value
                    THEN Ratio(errors.value["GATEWAY_TIMEOUT"], errors.sample_size) ELSE 0
           anomaly == Least(Million, Rounded(spike60 + 4 * share, 10))
<1>0. Million \in Int
  BY SMT DEF Million
<1>1. spike60 \in Int
  <2>1. failure \in Int /\ FailureRate(before, merchant, AllMethods) \in Int
    BY <1>0, RatesAreSharesOfAll
  <2>2. rise \in Int
    <3> HIDE DEF failure, before
    <3> QED
      BY <2>1 DEF Most
  <2> HIDE DEF failure, before, rise
  <2> QED
    BY <1>0, <2>1, <2>2 DEF Least
<1>2. share \in Int
  <2> DEFINE failed == Of(Selected(window, merchant, AllMethods), "failed")
             timeouts == {id \in failed : payments[id].error_code = "GATEWAY_TIMEOUT"}
  <2>1. failed \in SUBSET Selected(window, merchant, AllMethods)
        /\ timeouts \in SUBSET Selected(window, merchant, AllMethods)
    BY DEF Of
  <2>2. Cardinality(failed) \in Nat /\ Cardinality(timeouts) \in Nat
    <3> HIDE DEF failed, timeouts
    <3> QED
      BY <2>1, SelectedIsFinite
  <2>3. errors.sample_size = Cardinality(failed)
        /\ ("GATEWAY_TIMEOUT" \in DOMAIN errors.value =>
              errors.value["GATEWAY_TIMEOUT"] = Cardinality(timeouts))
    BY DEF ErrorBreakdown
  <2> HIDE DEF errors, failed, timeouts
  <2>4. /\ Ratio(Cardinality(timeouts), Cardinality(failed)) \in Int
        /\ 0 \in Int
    BY <2>2, RatioIsShare
  <2> QED
    BY <2>3, <2>4
<1>3. anomaly \in Int
  <2> HIDE DEF spike60, share
  <2> DEFINE n == spike60 + 4 * share
  <2>1. n \in Int
    BY <1>1, <1>2
  <2> HIDE DEF n
  <2>2. Rounded(n, 10) \in Int
    BY <2>1, Rounding
  <2> QED
    BY <1>0, <2>2 DEF Least, n
<1>4. FactorValues(window, merchant) =
        [success_rate |-> SuccessRate(window, merchant, AllMethods),
         failure_rate |-> failure,
         refund_rate |-> RefundRate(window, merchant, AllMethods),
         dispute_rate |-> DisputeRate(window, merchant, AllMethods),
         webhook_reliability |-> Million - WebhookFailureRate(window, merchant, AllMethods),
         anomaly_severity |-> anomaly]
  BY Zenon DEF FactorValues
<1>5. /\ SuccessRate(window, merchant, AllMethods) \in Int /\ failure \in Int
      /\ RefundRate(window, merchant, AllMethods) \in Int
      /\ DisputeRate(window, merchant, AllMethods) \in Int
      /\ WebhookFailureRate(window, merchant, AllMethods) \in Int
  BY <1>0, RatesAreSharesOfAll
<1> HIDE DEF failure, anomaly
<1> QED
  BY <1>0, <1>3, <1>4, <1>5 DEF Factors

\* The score of a merchant is explained by its penalties.
LEMMA ScoreIsExplainedNow == TablesInv => ScoreIsExplained
<1> SUFFICES ASSUME TablesInv, NEW merchant \in MERCHANTS, NEW window \in Windows,
                    NEW health, health = ScoreMerchant(merchant, window)
             PROVE  IsExplainedScore(health)
  BY DEF ScoreIsExplained
<1>1. CASE PaymentCounts(window, merchant, AllMethods).total = 0
  <2> DEFINE penalties == [volume |-> 10000]
  <2>1. health = [score |-> 0, band |-> "critical", penalties |-> penalties]
    BY <1>1 DEF ScoreMerchant
  <2>2. SumFunction(penalties) = 10000
    <3>1. DOMAIN penalties = {"volume"} /\ penalties["volume"] = 10000
      OBVIOUS
    <3> HIDE DEF penalties
    <3>2. IsFiniteSet(DOMAIN penalties) /\ \A x \in DOMAIN penalties : penalties[x] \in Int
      BY <3>1, FS_Singleton
    <3>3. PICK sum \in [SUBSET DOMAIN penalties -> Int] :
            /\ sum[{}] = 0
            /\ \A s \in SUBSET DOMAIN penalties : \A x \in s : sum[s] = penalties[x] + sum[s \ {x}]
            /\ SumFunction(penalties) = sum[DOMAIN penalties]
      BY <3>2, SumSplits
    <3>4. DOMAIN penalties \ {"volume"} = {}
      BY <3>1
    <3>5. sum[DOMAIN penalties] = penalties["volume"] + sum[{}]
      BY <3>1, <3>3, <3>4
    <3> QED
      BY <3>1, <3>3, <3>5
  <2> HIDE DEF penalties
  <2>3. health.score = 0 /\ PointsLost(health) = FullScore
    BY <2>1, <2>2 DEF PointsLost, FullScore
  <2>4. FullScore \in Nat /\ FullScore # 0
    BY SMT DEF FullScore
  <2>5. \A n \in Nat : 0 + n - n \in -6..6 /\ 0 \in 0..n
    OBVIOUS
  <2> QED
    BY Zenon, <2>3, <2>4, <2>5 DEF IsExplainedScore, Unexplained
<1>2. CASE PaymentCounts(window, merchant, AllMethods).total # 0
  <2> DEFINE values == FactorValues(window, merchant)
             terms == [f \in Factors |-> FACTOR_WEIGHTS[f] * FactorScore(f, values[f])]
             all == [f \in Factors |-> PenaltyPoints(f, values[f])]
             total == SumFunction(terms)
             score == Rounded(total, 100)
             penalised == {g \in Factors : Penalty(g, values[g]) > 0}
             penalties == [f \in penalised |-> PenaltyPoints(f, values[f])]
             points == SumFunction(all)
  <2>1. health = [score |-> score, band |-> ScoreBand(score), penalties |-> penalties]
    BY <1>2 DEF ScoreMerchant
  <2>2. \A f \in Factors : values[f] \in Int
    BY FactorsAreNumbers
  <2> HIDE DEF values
  <2>3. /\ total \in Nat /\ total <= 1000000 /\ points \in Nat
        /\ 1999300 <= 2 * total + 200 * points /\ 2 * total + 200 * points <= 2000700
    BY <2>2, FactorsAreExplained
  <2>4. SumFunction(penalties) = points
    <3>1. \A f \in Factors : all[f] \in Int /\ (f \notin penalised => all[f] = 0)
      <4> TAKE f \in Factors
      <4>1. PenaltyPoints(f, values[f]) \in Nat
        BY <2>2, FactorIsExplained
      <4>2. Penalty(f, values[f]) > 0 \/ PenaltyPoints(f, values[f]) = 0
        BY <2>2, FactorIsExplained
      <4> QED
        BY <4>1, <4>2
    <3>2. DOMAIN all = Factors /\ DOMAIN penalties = penalised /\ penalised \subseteq Factors
      OBVIOUS
    <3>3. \A f \in penalised : penalties[f] = all[f]
      OBVIOUS
    <3>4. IsFiniteSet(Factors)
      BY FactorsAreFinite
    <3> HIDE DEF all, penalties, penalised
    <3> QED
      BY <3>1, <3>2, <3>3, <3>4, SumSkipsZeros
  <2>5. score \in Int /\ 200 * score <= 2 * total + 100 /\ 2 * total < 200 * score + 100
    <3>1. total \in Int
      BY <2>3
    <3> HIDE DEF total
    <3>2. score \in Int /\ 2 * 100 * score <= 2 * total + 100 /\ 2 * total < 2 * 100 * score + 100
      BY <3>1, Rounding
    <3> HIDE DEF score
    <3> QED
      BY <3>2
  <2> HIDE DEF score, total, points, penalties
  <2>6. health.score = score /\ PointsLost(health) = points
    BY <2>1, <2>4 DEF PointsLost
  <2>7. score \in 0..FullScore
    BY SMTT(40), <2>3, <2>5 DEF FullScore
  <2>8. score + points - FullScore \in -6..6
    BY SMT, <2>3, <2>5 DEF FullScore
  <2>9. score = FullScore => points <= 6
    BY SMT, <2>3, <2>5 DEF FullScore
  <2> QED
    BY Zenon, <2>6, <2>7, <2>8, <2>9 DEF IsExplainedScore, Unexplained
<1> QED
  BY <1>1, <1>2

------------------------------------------------------------------------------
(* Breakdowns. *)

LEMMA MethodsAreFinite == IsFiniteSet(METHODS)
<1> DEFINE s1 == {"card"}
           s2 == s1 \cup {"upi"}
           s3 == s2 \cup {"netbanking"}
<1>1. IsFiniteSet(s1) /\ IsFiniteSet(s2) /\ IsFiniteSet(s3)
  BY FS_Singleton, FS_AddElement
<1>2. IsFiniteSet(s3 \cup {"wallet"})
  BY <1>1, FS_AddElement
<1>3. METHODS = s3 \cup {"wallet"}
  BY DEF METHODS
<1> QED
  BY <1>2, <1>3

LEMMA CodesAreFinite == IsFiniteSet(ERROR_CODES)
<1> DEFINE s1 == {"GATEWAY_TIMEOUT"}
           s2 == s1 \cup {"INSUFFICIENT_FUNDS"}
           s3 == s2 \cup {"DO_NOT_HONOR"}
           s4 == s3 \cup {"AUTHENTICATION_FAILED"}
<1>1. IsFiniteSet(s1) /\ IsFiniteSet(s2) /\ IsFiniteSet(s3)
  BY FS_Singleton, FS_AddElement
<1>2. IsFiniteSet(s4) /\ IsFiniteSet(s4 \cup {"WEBHOOK_TIMEOUT"})
  BY <1>1, FS_AddElement
<1>3. ERROR_CODES = s4 \cup {"WEBHOOK_TIMEOUT"}
  BY DEF ERROR_CODES
<1> QED
  BY <1>2, <1>3

LEMMA MerchantsAreFinite == IsFiniteSet(MERCHANTS)
<1> DEFINE s1 == {"M101"}
           s2 == s1 \cup {"M102"}
           s3 == s2 \cup {"M201"}
           s4 == s3 \cup {"M305"}
<1>1. IsFiniteSet(s1) /\ IsFiniteSet(s2) /\ IsFiniteSet(s3)
  BY FS_Singleton, FS_AddElement
<1>2. IsFiniteSet(s4) /\ IsFiniteSet(s4 \cup {"M410"})
  BY <1>1, FS_AddElement
<1>3. MERCHANTS = s4 \cup {"M410"}
  BY DEF MERCHANTS
<1> QED
  BY <1>2, <1>3

LEMMA PaymentsAreTyped ==
  ASSUME TablesInv, NEW id \in DOMAIN payments
  PROVE  /\ payments[id].merchant \in MERCHANTS /\ payments[id].method \in METHODS
         /\ payments[id].amount \in Nat /\ payments[id].at \in Nat
         /\ payments[id].error_code \in ERROR_CODES \cup {None}
<1>1. payments \in Seq(Payment)
  BY DEF TablesInv, RowsInv, TypeOK
<1>2. payments[id] \in Payment
  BY <1>1
<1> QED
  BY <1>2 DEF Payment

\* Counts of two sets of payments without a common one add up.
LEMMA CountsAdd ==
  ASSUME NEW A, IsFiniteSet(A), NEW B, IsFiniteSet(B), A \cap B = {}, NEW field \in CountFields
  PROVE  Counts(A \cup B)[field] = Counts(A)[field] + Counts(B)[field]
<1>1. Cardinality(A \cup B) = Cardinality(A) + Cardinality(B)
  BY DisjointCount
<1>2. ASSUME NEW status
      PROVE  Cardinality(Of(A \cup B, status)) = Cardinality(Of(A, status)) + Cardinality(Of(B, status))
  <2>1. /\ Of(A, status) \in SUBSET A /\ Of(B, status) \in SUBSET B
        /\ Of(A, status) \cap Of(B, status) = {}
        /\ Of(A \cup B, status) = Of(A, status) \cup Of(B, status)
    BY DEF Of
  <2>2. IsFiniteSet(Of(A, status)) /\ IsFiniteSet(Of(B, status))
    BY <2>1, FS_Subset
  <2> QED
    BY <2>1, <2>2, DisjointCount
<1> QED
  BY <1>1, <1>2 DEF Counts, CountFields

\* Windows are cut where rows are not.
LEMMA WindowsTileNow ==
  ASSUME TablesInv, NEW window \in Windows, NEW merchant \in MerchantFilters
  PROVE  WindowsTile(window, merchant)
<1> SUFFICES ASSUME NEW cut \in Cuts, window.start < cut, cut < window.end,
                    NEW field \in CountFields
             PROVE  PaymentCounts(window, merchant, AllMethods)[field] =
                      PaymentCounts([window EXCEPT !.end = cut], merchant, AllMethods)[field]
                        + PaymentCounts([window EXCEPT !.start = cut], merchant, AllMethods)[field]
  BY DEF WindowsTile
<1> DEFINE left == [window EXCEPT !.end = cut]
           right == [window EXCEPT !.start = cut]
<1>1. window \in Window /\ cut \in Int
  BY WindowsAssumption DEF Cuts, Window
<1>2. /\ left.start = window.start /\ left.end = cut
      /\ right.start = cut /\ right.end = window.end
      /\ window.start \in Int /\ window.end \in Int
  BY <1>1 DEF Window
<1> SUFFICES PaymentCounts(window, merchant, AllMethods)[field] =
               PaymentCounts(left, merchant, AllMethods)[field]
                 + PaymentCounts(right, merchant, AllMethods)[field]
  OBVIOUS
<1> HIDE DEF left, right
<1> DEFINE whole == Selected(window, merchant, AllMethods)
           first == Selected(left, merchant, AllMethods)
           second == Selected(right, merchant, AllMethods)
<1>3. \A id \in DOMAIN payments : payments[id].at \in Int
  BY PaymentsAreTyped
<1>4. ASSUME NEW at \in Int
      PROVE  /\ In(at, window) <=> In(at, left) \/ In(at, right)
             /\ ~(In(at, left) /\ In(at, right))
  BY <1>1, <1>2 DEF In
<1>5. whole = first \cup second /\ first \cap second = {}
  BY <1>3, <1>4 DEF Selected
<1>6. IsFiniteSet(first) /\ IsFiniteSet(second)
  BY SelectedIsFinite
<1>7. /\ PaymentCounts(window, merchant, AllMethods) = Counts(whole)
      /\ PaymentCounts(left, merchant, AllMethods) = Counts(first)
      /\ PaymentCounts(right, merchant, AllMethods) = Counts(second)
  BY DEF PaymentCounts
<1> HIDE DEF whole, first, second
<1> QED
  BY <1>5, <1>6, <1>7, CountsAdd

\* The payments of a window, counted by any of their columns.
LEMMA CountedByColumn ==
  ASSUME TablesInv, NEW X, X \in SUBSET DOMAIN payments, NEW D, IsFiniteSet(D),
         NEW key \in [X -> D], NEW f, DOMAIN f = D,
         \A d \in D : f[d] = Cardinality({id \in X : key[id] = d})
  PROVE  SumFunction(f) = Cardinality(X)
<1>1. IsFiniteSet(X)
  BY TablesAreFinite, FS_Subset
<1> QED
  BY <1>1, CountedByKey

LEMMA MethodsAddUp ==
  ASSUME TablesInv, NEW window, NEW merchant, NEW field \in CountFields,
         NEW methods, methods = MethodBreakdown(window, merchant)
  PROVE  PaymentCounts(window, merchant, AllMethods)[field] =
           SumFunction([method \in DOMAIN methods |-> methods[method][field]])
<1> DEFINE ids == Selected(window, merchant, AllMethods)
           D == {payments[id].method : id \in ids}
           X == IF field = "total" THEN ids
                ELSE IF field = "succeeded" THEN Of(ids, "succeeded") ELSE Of(ids, "failed")
           key == [id \in X |-> payments[id].method]
           f == [method \in D |-> methods[method][field]]
<1>1. methods = [method \in D |-> Counts({id \in ids : payments[id].method = method})]
  BY DEF MethodBreakdown
<1>2. ids \in SUBSET DOMAIN payments /\ X \in SUBSET ids
  BY DEF Selected, Of
<1>3. PaymentCounts(window, merchant, AllMethods)[field] = Cardinality(X)
  BY DEF PaymentCounts, Counts, CountFields
<1>4. IsFiniteSet(D)
  <2>1. D \subseteq METHODS
    BY <1>2, PaymentsAreTyped
  <2>2. IsFiniteSet(METHODS)
    BY MethodsAreFinite
  <2> QED
    BY <2>1, <2>2, FS_Subset
<1>5. key \in [X -> D]
  BY <1>2
<1>6. ASSUME NEW d \in D
      PROVE  f[d] = Cardinality({id \in X : key[id] = d})
  <2> DEFINE of == {id \in ids : payments[id].method = d}
  <2>1. f[d] = Counts(of)[field]
    BY <1>1
  <2>2. Counts(of)[field] = Cardinality(IF field = "total" THEN of
                ELSE IF field = "succeeded" THEN Of(of, "succeeded") ELSE Of(of, "failed"))
    BY DEF Counts, CountFields
  <2>3. (IF field = "total" THEN of
         ELSE IF field = "succeeded" THEN Of(of, "succeeded") ELSE Of(of, "failed")) =
        {id \in X : key[id] = d}
    BY DEF CountFields, Of
  <2> QED
    BY <2>1, <2>2, <2>3
<1>7. DOMAIN methods = D /\ DOMAIN f = D
  BY <1>1
<1> HIDE DEF ids, X, D, key, f
<1>8. SumFunction(f) = Cardinality(X)
  <2>1. X \in SUBSET DOMAIN payments
    BY <1>2
  <2> QED
    BY <1>4, <1>5, <1>6, <1>7, <2>1, CountedByColumn
<1>9. f = [method \in DOMAIN methods |-> methods[method][field]]
  BY <1>7 DEF f
<1> QED
  BY <1>3, <1>8, <1>9

LEMMA BucketsAddUpNow ==
  ASSUME TablesInv, NEW window, NEW merchant
  PROVE  BucketsAddUp(window, merchant)
<1> DEFINE whole == PaymentCounts(window, merchant, AllMethods)
           methods == MethodBreakdown(window, merchant)
           errors == ErrorBreakdown(window, merchant)
           ids == Selected(window, merchant, AllMethods)
           failed == Of(ids, "failed")
<1>1. \A field \in CountFields :
        whole[field] = SumFunction([method \in DOMAIN methods |-> methods[method][field]])
  BY MethodsAddUp
<1>2. \A method \in DOMAIN methods : methods[method] = PaymentCounts(window, merchant, method)
  <2> SUFFICES ASSUME NEW method \in DOMAIN methods
               PROVE  methods[method] = PaymentCounts(window, merchant, method)
    OBVIOUS
  <2>1. /\ method \in {payments[id].method : id \in ids}
        /\ methods[method] = Counts({id \in ids : payments[id].method = method})
    BY DEF MethodBreakdown
  <2>2. method # AllMethods
    BY <2>1, NoneAssumption, PaymentsAreTyped DEF Selected, AllMethods
  <2>3. Selected(window, merchant, method) = {id \in ids : payments[id].method = method}
    BY <2>2 DEF Selected
  <2> QED
    BY <2>1, <2>3 DEF PaymentCounts
<1>3. errors.sample_size = Cardinality(failed) /\ whole.failed = Cardinality(failed)
  BY DEF ErrorBreakdown, PaymentCounts, Counts
<1>4. ASSUME Generated PROVE whole.failed = SumFunction(errors.value)
  <2> DEFINE D == {payments[id].error_code : id \in failed} \ {None}
             key == [id \in failed |-> payments[id].error_code]
             f == errors.value
  <2>1. f = [code \in D |-> Cardinality({id \in failed : payments[id].error_code = code})]
    BY DEF ErrorBreakdown
  <2>2. failed \in SUBSET DOMAIN payments
    BY DEF Of, Selected
  <2>3. \A id \in failed : payments[id].error_code \in D
    BY <1>4, <2>2 DEF TablesInv, RowsInv, RowsAreConsistent, PaymentsAreWhole, Of
  <2>4. key \in [failed -> D]
    BY <2>3
  <2>5. IsFiniteSet(D)
    <3>1. D \subseteq ERROR_CODES
      BY <2>2, PaymentsAreTyped
    <3> QED
      BY <3>1, CodesAreFinite, FS_Subset
  <2>6. \A code \in D : f[code] = Cardinality({id \in failed : key[id] = code})
    <3> SUFFICES ASSUME NEW code \in D
                 PROVE  f[code] = Cardinality({id \in failed : key[id] = code})
      OBVIOUS
    <3>1. {id \in failed : payments[id].error_code = code} = {id \in failed : key[id] = code}
      OBVIOUS
    <3> QED
      BY <2>1, <3>1
  <2>7. DOMAIN f = D
    BY <2>1
  <2> HIDE DEF f, D, key, failed
  <2>8. SumFunction(f) = Cardinality(failed)
    BY <2>2, <2>4, <2>5, <2>6, <2>7, CountedByColumn
  <2> QED
    BY <1>3, <2>8 DEF f
<1> QED
  BY <1>1, <1>2, <1>3, <1>4, Zenon DEF BucketsAddUp

LEMMA RatesAreSharesNow ==
  ASSUME TablesInv, NEW window, NEW merchant
  PROVE  RatesAreShares(window, merchant)
<1> DEFINE success == SuccessRate(window, merchant, AllMethods)
           failure == FailureRate(window, merchant, AllMethods)
           ids == Selected(window, merchant, AllMethods)
           s == Of(ids, "succeeded")
           f == Of(ids, "failed")
           a == Cardinality(s)
           b == Cardinality(f)
           n == Cardinality(ids)
<1>1. success = Ratio(a, n) /\ failure = Ratio(b, n)
  BY DEF SuccessRate, FailureRate, PaymentCounts, Counts
<1>2. s \in SUBSET ids /\ f \in SUBSET ids /\ s \cap f = {} /\ s \cup f \in SUBSET ids /\ ids \in SUBSET ids
  BY DEF Of
<1>3. IsFiniteSet(ids) /\ \A t \in SUBSET ids : IsFiniteSet(t) /\ Cardinality(t) \in Nat /\ Cardinality(t) <= Cardinality(ids)
  BY SelectedIsFinite
<1>4. ASSUME Generated PROVE s \cup f = ids
  <2>1. ids \subseteq DOMAIN payments
    BY DEF Selected
  <2> QED
    BY <1>2, <1>4, <2>1 DEF TablesInv, RowsInv, RowsAreConsistent, PaymentsAreWhole, Of
<1>5. /\ success \in 0..Million /\ failure \in 0..Million
      /\ RefundRate(window, merchant, AllMethods) \in 0..Million
      /\ DisputeRate(window, merchant, AllMethods) \in 0..Million
      /\ WebhookFailureRate(window, merchant, AllMethods) \in 0..Million
  BY RatesAreSharesOfAll
<1> HIDE DEF success, failure, ids, s, f
<1>6. Cardinality(s \cup f) = Cardinality(s) + Cardinality(f)
  BY <1>2, <1>3, DisjointCount
<1>7. a \in Nat /\ b \in Nat /\ n \in Nat /\ a + b <= n /\ (s \cup f = ids => a + b = n)
  BY <1>2, <1>3, <1>6
<1>8. ids # {} => n # 0
  BY <1>3, FS_EmptySet
<1> HIDE DEF a, b, n
<1>9. /\ success + failure <= Million + 1
      /\ Generated /\ ids # {} => success + failure >= Million - 1
  BY <1>1, <1>4, <1>7, <1>8, TwoRatios
<1> QED
  BY ONLY <1>5, <1>9, Zenon DEF RatesAreShares, success, failure, ids

LEMMA ComparedWindowsAdjoinNow ==
  ASSUME TablesInv, NEW window \in Windows, NEW merchant
  PROVE  ComparedWindowsAdjoin(window, merchant)
<1> DEFINE before == EqualPrevious(window)
           both == [start |-> before.start, end |-> window.end]
           first == Selected(before, merchant, AllMethods)
           second == Selected(window, merchant, AllMethods)
           whole == Selected(both, merchant, AllMethods)
           rates == CompareTimeWindows(window, merchant, AllMethods)
           overall == SuccessRate(both, merchant, AllMethods)
<1> SUFFICES ASSUME window.start <= window.end
             PROVE  /\ \A field \in CountFields :
                         PaymentCounts(both, merchant, AllMethods)[field] =
                           PaymentCounts(before, merchant, AllMethods)[field]
                             + PaymentCounts(window, merchant, AllMethods)[field]
                    /\ Least(rates.previous, rates.current) <= overall
                    /\ overall <= Most(rates.previous, rates.current)
  BY DEF ComparedWindowsAdjoin
<1>1. /\ window.start \in Int /\ window.end \in Int
      /\ before.end = window.start /\ before.start \in Int /\ before.start <= window.start
      /\ both.start = before.start /\ both.end = window.end
  BY WindowsAssumption DEF Window, EqualPrevious
<1>2. \A id \in DOMAIN payments : payments[id].at \in Int
  BY PaymentsAreTyped
<1>3. /\ rates.previous = SuccessRate(before, merchant, AllMethods)
      /\ rates.current = SuccessRate(window, merchant, AllMethods)
  BY DEF CompareTimeWindows
<1> HIDE DEF before, both, rates
<1>4. ASSUME NEW at \in Int
      PROVE  /\ In(at, both) <=> In(at, before) \/ In(at, window)
             /\ ~(In(at, before) /\ In(at, window))
  BY <1>1 DEF In
<1>5. whole = first \cup second /\ first \cap second = {}
  BY <1>2, <1>4 DEF Selected
<1>6. IsFiniteSet(first) /\ IsFiniteSet(second)
  BY SelectedIsFinite
<1>7. /\ PaymentCounts(both, merchant, AllMethods) = Counts(whole)
      /\ PaymentCounts(before, merchant, AllMethods) = Counts(first)
      /\ PaymentCounts(window, merchant, AllMethods) = Counts(second)
  BY DEF PaymentCounts
<1> HIDE DEF whole, first, second
<1>8. \A field \in CountFields :
        PaymentCounts(both, merchant, AllMethods)[field] =
          PaymentCounts(before, merchant, AllMethods)[field]
            + PaymentCounts(window, merchant, AllMethods)[field]
  BY <1>5, <1>6, <1>7, CountsAdd
<1> DEFINE left == PaymentCounts(before, merchant, AllMethods)
           right == PaymentCounts(window, merchant, AllMethods)
           sum == PaymentCounts(both, merchant, AllMethods)
<1>9. /\ left.succeeded \in Nat /\ left.total \in Nat /\ left.succeeded <= left.total
      /\ right.succeeded \in Nat /\ right.total \in Nat /\ right.succeeded <= right.total
  BY CountsAreSharesOfTotal
<1>10. sum.succeeded = left.succeeded + right.succeeded /\ sum.total = left.total + right.total
  BY <1>8 DEF CountFields
<1>11. /\ rates.previous = Ratio(left.succeeded, left.total)
       /\ rates.current = Ratio(right.succeeded, right.total)
       /\ overall = Ratio(sum.succeeded, sum.total)
  BY <1>3 DEF SuccessRate
<1> HIDE DEF left, right, sum, overall
<1>12. /\ Least(rates.previous, rates.current) <= overall
       /\ overall <= Most(rates.previous, rates.current)
  BY <1>9, <1>10, <1>11, RatioLiesBetween
<1> QED
  BY <1>8, <1>12

LEMMA MerchantsRankAsCountedNow ==
  ASSUME TablesInv, NEW window, NEW merchant, NEW other
  PROVE  MerchantsRankAsCounted(window, merchant, other)
<1> DEFINE left == PaymentCounts(window, merchant, AllMethods)
           right == PaymentCounts(window, other, AllMethods)
           delta == CompareMerchants(window, merchant, other).delta
<1>1. /\ left.succeeded \in Nat /\ left.total \in Nat
      /\ right.succeeded \in Nat /\ right.total \in Nat
  BY CountsAreSharesOfTotal
<1>2. delta = Ratio(left.succeeded, left.total) - Ratio(right.succeeded, right.total)
  BY DEF CompareMerchants, SuccessRate
<1> SUFFICES ASSUME left.total > 0, right.total > 0, delta > 0
             PROVE  left.succeeded * right.total > right.succeeded * left.total
  BY DEF MerchantsRankAsCounted
<1> HIDE DEF left, right, delta
<1>3. /\ Ratio(left.succeeded, left.total) \in Int
      /\ Ratio(right.succeeded, right.total) \in Int
  BY <1>1, RatioIsShare
<1>4. ~(left.succeeded * right.total <= right.succeeded * left.total)
  BY <1>1, <1>2, <1>3, RatioIsMonotone
<1>5. left.succeeded * right.total \in Int /\ right.succeeded * left.total \in Int
  BY <1>1
<1> QED
  BY <1>4, <1>5

LEMMA MerchantsAddUp ==
  ASSUME TablesInv, NEW window
  PROVE  PaymentCounts(window, AllMerchants, AllMethods).total =
           SumFunction([m \in MERCHANTS |-> PaymentCounts(window, m, AllMethods).total])
<1> DEFINE X == Selected(window, AllMerchants, AllMethods)
           key == [id \in X |-> payments[id].merchant]
           f == [m \in MERCHANTS |-> PaymentCounts(window, m, AllMethods).total]
<1>1. X \in SUBSET DOMAIN payments
  BY DEF Selected
<1>2. key \in [X -> MERCHANTS]
  BY <1>1, PaymentsAreTyped
<1>3. ASSUME NEW m \in MERCHANTS
      PROVE  f[m] = Cardinality({id \in X : key[id] = m})
  <2>1. m # AllMerchants
    BY NoneAssumption DEF AllMerchants
  <2>2. Selected(window, m, AllMethods) = {id \in X : key[id] = m}
    BY <2>1 DEF Selected
  <2> QED
    BY <2>2 DEF PaymentCounts, Counts
<1>4. PaymentCounts(window, AllMerchants, AllMethods).total = Cardinality(X)
  BY DEF PaymentCounts, Counts
<1>5. DOMAIN f = MERCHANTS
  OBVIOUS
<1> SUFFICES Cardinality(X) = SumFunction(f)
  BY <1>4
<1> HIDE DEF X, key, f
<1> QED
  BY <1>1, <1>2, <1>3, <1>5, MerchantsAreFinite, CountedByColumn

------------------------------------------------------------------------------
(* Integrity checks and webhooks over generated rows. *)

\* A finite set listed is the set again.
LEMMA ListOfSet ==
  ASSUME NEW S, IsFiniteSet(S)
  PROVE  ToSet(SetToSeq(S)) = S
<1> DEFINE n == Cardinality(S)
           list == SetToSeq(S)
<1>1. n \in Nat /\ ExistsBijection(1..n, S)
  BY FS_CardinalityType
<1>2. PICK f : f \in Bijection(1..n, S)
  BY <1>1 DEF ExistsBijection
<1>3. f \in [1..n -> S] /\ IsInjective(f)
  BY <1>2 DEF Bijection, Injection
<1>4. list \in [1..n -> S] /\ IsInjective(list)
  BY <1>3 DEF SetToSeq
<1> HIDE DEF list
<1>5. list \in Injection(1..n, S)
  BY <1>4 DEF Injection
<1>6. Cardinality(1..n) = n
  BY <1>1, IntervalSize
<1>7. list \in Surjection(1..n, S)
  BY <1>5, <1>6, FS_Injection
<1> QED
  BY <1>4, <1>7 DEF Surjection, ToSet, list

\* Nothing wanted, nothing found.
LEMMA WhereNothing ==
  ASSUME NEW rows
  PROVE  Where(rows, {}) = <<>>
<1>1. {i \in DOMAIN rows : rows[i] \in {}} = {}
  OBVIOUS
<1>2. Cardinality({}) = 0
  BY FS_EmptySet
<1>3. 1..0 = {}
  OBVIOUS
<1>4. DOMAIN Where(rows, {}) = {}
  BY <1>1, <1>2, <1>3 DEF Where
<1>5. Where(rows, {}) = [n \in {} |-> 0]
  BY <1>1, <1>2, <1>3 DEF Where
<1> QED
  BY <1>5

\* A sum of at most one term.
LEMMA SumOfFew ==
  ASSUME NEW f, \A x \in DOMAIN f : f[x] \in Int, \A x, y \in DOMAIN f : x = y
  PROVE  /\ DOMAIN f = {} => SumFunction(f) = 0
         /\ \A x \in DOMAIN f : SumFunction(f) = f[x]
<1>1. IsFiniteSet(DOMAIN f)
  <2>1. CASE DOMAIN f = {}
    BY <2>1, FS_EmptySet
  <2>2. CASE DOMAIN f # {}
    <3>1. PICK x \in DOMAIN f : TRUE
      BY <2>2
    <3>2. DOMAIN f = {x}
      BY <3>1
    <3> QED
      BY <3>2, FS_Singleton
  <2> QED
    BY <2>1, <2>2
<1>2. PICK sum \in [SUBSET DOMAIN f -> Int] :
        /\ sum[{}] = 0
        /\ \A s \in SUBSET DOMAIN f : \A x \in s : sum[s] = f[x] + sum[s \ {x}]
        /\ SumFunction(f) = sum[DOMAIN f]
  BY <1>1, SumSplits
<1>3. ASSUME NEW x \in DOMAIN f PROVE SumFunction(f) = f[x]
  <2>1. DOMAIN f \ {x} = {}
    OBVIOUS
  <2>2. sum[DOMAIN f] = f[x] + sum[{}]
    BY <1>2, <2>1
  <2> QED
    BY <1>2, <2>2
<1> QED
  BY <1>2, <1>3

\* Every check of validate_integrity passes on generated rows.
LEMMA IntegrityHolds ==
  ASSUME TablesInv, Generated, NEW window, NEW merchant
  PROVE  ValidateIntegrity(window, merchant).passed
<1> DEFINE ids == Selected(window, merchant, AllMethods)
           found == Violations(window, merchant)
<1>1. ids \subseteq DOMAIN payments
  BY DEF Selected
<1>2. \A id \in DOMAIN payments :
        /\ payments[id].amount > 0
        /\ payments[id].status = "failed" => payments[id].error_code # None
        /\ payments[id].status = "succeeded" => payments[id].captured_at # None
        /\ orders[payments[id].order].merchant = payments[id].merchant
        /\ payments[id].amount \in Nat
  BY PaymentsAreTyped DEF TablesInv, RowsInv, RowsAreConsistent, PaymentsAreWhole
<1>3. \A e \in DOMAIN events : events[e].payment \in DOMAIN payments
  BY DEF TablesInv, RowsInv, RowsAreConsistent, EventsFollowPayments
<1>4. ASSUME NEW id \in ids PROVE ~(RefundedOf(id) > payments[id].amount)
  <2> DEFINE D == {r \in refunds : r.payment = id}
             f == [row \in D |-> row.amount]
  <2>1. RefundedOf(id) = SumFunction(f)
    BY DEF RefundedOf
  <2>2. \A r \in D : r.amount <= payments[id].amount
    BY DEF TablesInv, RowsInv, RowsAreConsistent, RefundsAreCovered
  <2>3. \A r1, r2 \in D : r1 = r2
    BY DEF TablesInv, RowsInv, RowsAreConsistent, RefundsAreCovered
  <2>4. \A r \in D : r.amount \in Int
    BY DEF TablesInv, RowsInv, TypeOK, Refund
  <2>5. payments[id].amount \in Nat
    BY <1>1, <1>2
  <2>6. DOMAIN f = D /\ \A r \in D : f[r] = r.amount
    OBVIOUS
  <2> HIDE DEF D, f
  <2>7. /\ D = {} => SumFunction(f) = 0
        /\ \A r \in D : SumFunction(f) = r.amount
    BY <2>3, <2>4, <2>6, SumOfFew
  <2>8. CASE D = {}
    BY <2>1, <2>5, <2>7, <2>8
  <2>9. CASE D # {}
    <3>1. PICK r \in D : TRUE
      BY <2>9
    <3>2. SumFunction(f) = r.amount /\ r.amount \in Int /\ r.amount <= payments[id].amount
      BY <2>2, <2>4, <2>7, <3>1
    <3> QED
      BY <2>1, <2>5, <3>2
  <2> QED
    BY <2>8, <2>9
<1>5. /\ {id \in Of(ids, "failed") : payments[id].error_code = None} = {}
      /\ {id \in Of(ids, "succeeded") : payments[id].captured_at = None} = {}
      /\ {id \in ids : payments[id].merchant # orders[payments[id].order].merchant} = {}
  BY <1>1, <1>2 DEF Of
<1>6. {id \in ids : payments[id].amount <= 0} = {}
  BY <1>1, <1>2
<1>7. {id \in ids : RefundedOf(id) > payments[id].amount} = {}
  BY <1>4
<1>8. {e \in DOMAIN events : In(events[e].at, window) /\ events[e].payment \notin DOMAIN payments} = {}
  BY <1>3
<1>9. found = [failed_has_error |-> {}, succeeded_has_capture |-> {}, amount_positive |-> {},
               merchant_matches_order |-> {}, refunds_within_payment |-> {},
               webhooks_reference_payments |-> {}]
  BY <1>5, <1>6, <1>7, <1>8, Zenon DEF Violations
<1>10. \A check \in DOMAIN found : found[check] = {}
  <2> HIDE DEF found
  <2> QED
    BY <1>9
<1> QED
  BY <1>10 DEF ValidateIntegrity

\* The rows of a window, and the payments they are compared with.
LEMMA RowsAreListed ==
  ASSUME TablesInv, NEW window, NEW merchant,
         NEW ids, ids = SetToSeq(PaymentRows(window, merchant, AnyPayment)),
         NEW rows, rows = SetToSeq(EventRows(window, merchant, AnyPayment))
  PROVE  /\ ToSet(ids) = PaymentRows(window, merchant, AnyPayment)
         /\ ToSet(rows) = EventRows(window, merchant, AnyPayment)
<1>1. IsFiniteSet(PaymentRows(window, merchant, AnyPayment))
  <2>1. PaymentRows(window, merchant, AnyPayment) \in SUBSET DOMAIN payments
    BY DEF PaymentRows
  <2> QED
    BY <2>1, TablesAreFinite, FS_Subset
<1>2. IsFiniteSet(EventRows(window, merchant, AnyPayment))
  <2> DEFINE S == {d \in DOMAIN events :
                     /\ In(events[d].at, window)
                     /\ merchant = AnyMerchant \/ payments[events[d].payment].merchant = merchant
                     /\ AnyPayment = AnyPayment \/ events[d].payment = AnyPayment}
             f == [e \in S |-> Row(e)]
  <2>1. EventRows(window, merchant, AnyPayment) = {Row(e) : e \in S}
    BY DEF EventRows
  <2>2. S \in SUBSET DOMAIN events
    OBVIOUS
  <2>3. IsFiniteSet(S)
    BY <2>2, TablesAreFinite, FS_Subset
  <2> HIDE DEF S
  <2>4. f \in Surjection(S, {Row(e) : e \in S})
    BY DEF Surjection
  <2> QED
    BY <2>1, <2>3, <2>4, FS_Surjection
<1> QED
  BY <1>1, <1>2, ListOfSet

LEMMA WebhooksAgree ==
  ASSUME TablesInv, Generated, NEW window, NEW merchant,
         NEW ids, ids = SetToSeq(PaymentRows(window, merchant, AnyPayment)),
         NEW rows, rows = SetToSeq(EventRows(window, merchant, AnyPayment))
  PROVE  FindMissingEvents(ids, rows) = <<>> /\ CorrelateEvents(ids, rows) = <<>>
<1>1. /\ ToSet(ids) = PaymentRows(window, merchant, AnyPayment)
      /\ ToSet(rows) = EventRows(window, merchant, AnyPayment)
  BY RowsAreListed
<1>2. /\ DOMAIN events = DOMAIN payments
      /\ \A e \in DOMAIN events :
           /\ events[e].payment = e
           /\ events[e].type = payments[e].status
           /\ events[e].at = payments[e].at
  BY DEF TablesInv, RowsInv, RowsAreConsistent, EventsFollowPayments
<1>3. \A id \in ToSet(ids) : \E row \in ToSet(rows) : row.event.payment = id
  <2> SUFFICES ASSUME NEW id \in PaymentRows(window, merchant, AnyPayment)
               PROVE  \E row \in EventRows(window, merchant, AnyPayment) : row.event.payment = id
    BY <1>1
  <2>1. id \in DOMAIN events /\ events[id].payment = id
    BY <1>2 DEF PaymentRows
  <2>2. Row(id) \in EventRows(window, merchant, AnyPayment)
    BY <1>2, <2>1 DEF PaymentRows, EventRows
  <2>3. Row(id).event.payment = id
    BY <2>1 DEF Row
  <2> QED
    BY <2>2, <2>3
<1>4. ASSUME NEW row \in ToSet(rows)
      PROVE  row.event.payment \in ToSet(ids) /\ row.event.type = payments[row.event.payment].status
  <2>1. PICK e \in DOMAIN events :
          /\ row = Row(e) /\ In(events[e].at, window)
          /\ merchant = AnyMerchant \/ payments[events[e].payment].merchant = merchant
    BY <1>1, <1>4 DEF EventRows
  <2>2. row.event = events[e]
    BY <2>1 DEF Row
  <2>3. e \in PaymentRows(window, merchant, AnyPayment)
    BY <1>2, <2>1 DEF PaymentRows
  <2> QED
    BY <1>1, <1>2, <2>2, <2>3
<1>5. FindMissingEvents(ids, rows) = <<>>
  <2>1. {id \in ToSet(ids) :
           /\ payments[id].status \in {"succeeded", "failed", "cancelled"}
           /\ \A row \in ToSet(rows) : row.event.payment # id} = {}
    BY <1>3
  <2>2. FindMissingEvents(ids, rows) =
          [n \in DOMAIN Where(ids, {}) |-> Finding("missing", Where(ids, {})[n], {}, None)]
    BY <2>1 DEF FindMissingEvents
  <2> QED
    BY <2>2, WhereNothing
<1>6. CorrelateEvents(ids, rows) = <<>>
  <2> DEFINE Reason(row) ==
        IF row.event.payment \notin ToSet(ids) THEN "payment_not_found"
        ELSE IF /\ row.event.type \in PaymentStatuses
                /\ row.event.type # payments[row.event.payment].status
             THEN "event_type_mismatch" ELSE None
  <2>1. {row \in ToSet(rows) : Reason(row) # None} = {}
    BY <1>4
  <2>2. CorrelateEvents(ids, rows) =
          [n \in DOMAIN Where(Sorted(rows), {}) |->
             EventFinding(Where(Sorted(rows), {})[n], "mismatch", Reason(Where(Sorted(rows), {})[n]))]
    BY <2>1 DEF CorrelateEvents
  <2> QED
    BY <2>2, WhereNothing
<1> QED
  BY <1>5, <1>6

------------------------------------------------------------------------------
(* Webhook findings: lists of rows without repetition, in the database's   *)
(* order or sorted, the groups and classes that a key makes of them, and   *)
(* what is found whichever order they are in. *)

\* A list of rows that are all different.
Distinct(list) == \A i, j \in DOMAIN list : list[i] = list[j] => i = j

\* SetToSeq is one of the lists of SetToSeqs, and each of them has every element
\* of its set once.
LEMMA ListsOfSet ==
  ASSUME NEW S, IsFiniteSet(S)
  PROVE  /\ SetToSeq(S) \in SetToSeqs(S)
         /\ \A list \in SetToSeqs(S) :
              /\ list \in Seq(S) /\ Len(list) = Cardinality(S)
              /\ ToSet(list) = S /\ Distinct(list)
<1> DEFINE n == Cardinality(S)
<1>1. n \in Nat /\ ExistsBijection(1..n, S)
  BY FS_CardinalityType
<1>2. PICK f : f \in Bijection(1..n, S)
  BY <1>1 DEF ExistsBijection
<1>3. f \in [1..n -> S] /\ IsInjective(f)
  BY <1>2 DEF Bijection, Injection
<1>4. SetToSeq(S) \in [1..n -> S] /\ IsInjective(SetToSeq(S))
  BY <1>3 DEF SetToSeq
<1>5. SetToSeq(S) \in SetToSeqs(S)
  <2> DEFINE list == SetToSeq(S)
  <2> HIDE DEF list
  <2>1. list \in [1..n -> S] /\ IsInjective(list)
    BY <1>4 DEF list
  <2>2. DOMAIN list = 1..n
    BY <2>1
  <2>3. \A i, j \in 1..n : i # j => list[i] # list[j]
    BY <2>1, <2>2 DEF IsInjective
  <2>4. list \in SetToSeqs(S)
    BY <2>1, <2>3 DEF SetToSeqs
  <2> QED
    BY <2>4 DEF list
<1>6. ASSUME NEW list \in SetToSeqs(S)
      PROVE  /\ list \in Seq(S) /\ Len(list) = n
             /\ ToSet(list) = S /\ Distinct(list)
  <2>1. list \in [1..n -> S] /\ \A i, j \in 1..n : i # j => list[i] # list[j]
    BY <1>6 DEF SetToSeqs
  <2> HIDE DEF n
  <2>2. DOMAIN list = 1..n
    BY <2>1
  <2>3. list \in Seq(S) /\ Len(list) = n
    BY <1>1, <2>1, <2>2
  <2>4. Distinct(list)
    BY <2>1, <2>2 DEF Distinct
  <2>5. list \in Injection(1..n, S)
    BY <2>1 DEF Injection, IsInjective
  <2>6. Cardinality(1..n) = n
    BY <1>1, IntervalSize
  <2>7. list \in Surjection(1..n, S)
    BY <2>5, <2>6, FS_Injection DEF n
  <2>8. ToSet(list) = S
    BY <2>1, <2>2, <2>7 DEF Surjection, ToSet
  <2> QED
    BY <2>3, <2>4, <2>8
<1> QED
  BY <1>5, <1>6

\* The elements of P that R puts before i.
Under(P, R, i) == {j \in P : <<j, i>> \in R}

\* R is a strict total order of P.
Ordered(P, R) ==
  /\ \A i \in P : <<i, i>> \notin R
  /\ \A i, j, k \in P : <<i, j>> \in R /\ <<j, k>> \in R => <<i, k>> \in R
  /\ \A i, j \in P : i = j \/ <<i, j>> \in R \/ <<j, i>> \in R

\* Every place in it is taken, once.
Ranked(P, R) ==
  /\ \A i \in P : Cardinality(Under(P, R, i)) + 1 \in 1..Cardinality(P)
  /\ \A i, k \in P : Cardinality(Under(P, R, i)) = Cardinality(Under(P, R, k)) => i = k
  /\ \A n \in 1..Cardinality(P) : \E i \in P : Cardinality(Under(P, R, i)) = n - 1

LEMMA Ranks ==
  ASSUME NEW P, IsFiniteSet(P), NEW R, Ordered(P, R)
  PROVE  Ranked(P, R)
<1> DEFINE Below(i) == Under(P, R, i)
           m == Cardinality(P)
<1> USE DEF Under, Ordered
<1>1. \A i \in P : IsFiniteSet(Below(i)) /\ Cardinality(Below(i)) \in Nat /\ Below(i) \in SUBSET P
  BY FS_Subset, FS_CardinalityType
<1>2. m \in Nat
  BY FS_CardinalityType
<1>3. ASSUME NEW i \in P PROVE Cardinality(Below(i)) + 1 \in 1..m
  <2>1. Cardinality(Below(i)) <= m
    BY <1>1, FS_Subset
  <2>2. Below(i) # P
    OBVIOUS
  <2>3. Cardinality(Below(i)) # m
    BY <1>1, <2>2, FS_Subset
  <2> HIDE DEF Below, m
  <2> QED
    BY <1>1, <1>2, <2>1, <2>3
<1>4. ASSUME NEW i \in P, NEW k \in P, <<i, k>> \in R
      PROVE  Cardinality(Below(i)) # Cardinality(Below(k))
  <2>1. Below(i) \in SUBSET Below(k)
    BY <1>4
  <2>2. i \in Below(k) /\ i \notin Below(i)
    BY <1>4
  <2>3. Below(i) # Below(k)
    BY <2>2
  <2>4. IsFiniteSet(Below(k))
    BY <1>1
  <2> HIDE DEF Below
  <2> QED
    BY <2>1, <2>3, <2>4, FS_Subset
<1>5. \A i, k \in P : Cardinality(Below(i)) = Cardinality(Below(k)) => i = k
  <2> SUFFICES ASSUME NEW i \in P, NEW k \in P, Cardinality(Below(i)) = Cardinality(Below(k)),
                      i # k
               PROVE  FALSE
    OBVIOUS
  <2> HIDE DEF Below
  <2> QED
    BY <1>4
<1>6. \A n \in 1..m : \E i \in P : Cardinality(Below(i)) = n - 1
  <2> DEFINE rank == [i \in P |-> Cardinality(Below(i)) + 1]
  <2> HIDE DEF Below, m
  <2>1. rank \in [P -> 1..m]
    BY <1>3
  <2>2. \A i, k \in P : rank[i] = rank[k] => i = k
    BY <1>1, <1>5
  <2> SUFFICES ASSUME NEW n \in 1..m PROVE \E i \in P : rank[i] = n
    BY <1>1
  <2> HIDE DEF rank
  <2>3. rank \in Injection(P, 1..m)
    BY <2>1, <2>2 DEF Injection, IsInjective
  <2>4. Cardinality(1..m) = m /\ IsFiniteSet(1..m)
    BY <1>2, IntervalSize
  <2>5. rank \in Surjection(P, 1..m)
    BY <2>3, <2>4, FS_Injection DEF m
  <2> QED
    BY <2>5 DEF Surjection
<1> QED
  BY <1>3, <1>5, <1>6 DEF Ranked

\* Counting up a finite set of positions passes each of them once.
LEMMA NthIsThere ==
  ASSUME NEW P \in SUBSET Int, IsFiniteSet(P)
  PROVE  /\ \A n \in 1..Cardinality(P) : Nth(P, n) \in P
         /\ \A n, k \in 1..Cardinality(P) : Nth(P, n) = Nth(P, k) => n = k
         /\ \A i \in P : \E n \in 1..Cardinality(P) : Nth(P, n) = i
<1> DEFINE R == {pair \in P \X P : pair[1] < pair[2]}
           Below(i) == {j \in P : j < i}
<1>0. Cardinality(P) \in Nat
  BY FS_CardinalityType
<1>1. \A i, j \in P : <<i, j>> \in R <=> i < j
  OBVIOUS
<1>2. \A i \in P : Below(i) = Under(P, R, i)
  BY <1>1 DEF Under
<1>3. Ordered(P, R)
  BY <1>1 DEF Ordered
<1> HIDE DEF R
<1>4. Ranked(P, R)
  BY <1>3, Ranks
<1>5. /\ \A i \in P : Cardinality(Below(i)) + 1 \in 1..Cardinality(P)
      /\ \A i, k \in P : Cardinality(Below(i)) = Cardinality(Below(k)) => i = k
      /\ \A n \in 1..Cardinality(P) : \E i \in P : Cardinality(Below(i)) = n - 1
  BY <1>2, <1>4 DEF Ranked
<1>6. \A i \in P : IsFiniteSet(Below(i)) /\ Cardinality(Below(i)) \in Nat
  BY FS_Subset, FS_CardinalityType
<1>7. \A n : Nth(P, n) = CHOOSE i \in P : Cardinality(Below(i)) = n - 1
  BY DEF Nth
<1> HIDE DEF Below
<1>8. \A n \in 1..Cardinality(P) : Nth(P, n) \in P /\ Cardinality(Below(Nth(P, n))) = n - 1
  BY <1>5, <1>7
<1>9. \A n, k \in 1..Cardinality(P) : Nth(P, n) = Nth(P, k) => n = k
  <2> SUFFICES ASSUME NEW n \in 1..Cardinality(P), NEW k \in 1..Cardinality(P),
                      Nth(P, n) = Nth(P, k)
               PROVE  n = k
    OBVIOUS
  <2>1. n - 1 = k - 1
    BY <1>8
  <2>2. n \in Nat /\ k \in Nat
    BY <1>0
  <2> QED
    BY <2>1, <2>2
<1>10. \A i \in P : \E n \in 1..Cardinality(P) : Nth(P, n) = i
  <2> SUFFICES ASSUME NEW i \in P PROVE \E n \in 1..Cardinality(P) : Nth(P, n) = i
    OBVIOUS
  <2>1. PICK n \in 1..Cardinality(P) : n = Cardinality(Below(i)) + 1
    BY <1>5
  <2>2. Cardinality(Below(Nth(P, n))) = Cardinality(Below(i))
    BY <1>6, <1>8, <2>1
  <2> QED
    BY <1>5, <1>8, <2>2
<1> QED
  BY <1>8, <1>9, <1>10

\* The rows among the wanted ones, and no others, each as often as before.
LEMMA WhereKeeps ==
  ASSUME NEW X, NEW rows \in Seq(X), NEW wanted
  PROVE  /\ Where(rows, wanted) \in Seq(X)
         /\ ToSet(Where(rows, wanted)) = ToSet(rows) \cap wanted
         /\ Distinct(rows) => Distinct(Where(rows, wanted))
<1> DEFINE kept == {i \in DOMAIN rows : rows[i] \in wanted}
           m == Cardinality(kept)
           list == Where(rows, wanted)
<1>1. DOMAIN rows = 1..Len(rows) /\ Len(rows) \in Nat
  OBVIOUS
<1>2. kept \in SUBSET Int /\ IsFiniteSet(kept)
  <2>1. IsFiniteSet(DOMAIN rows)
    BY <1>1, IntervalSize
  <2> QED
    BY <1>1, <2>1, FS_Subset
<1>3. m \in Nat
  BY <1>2, FS_CardinalityType
<1>4. /\ \A n \in 1..m : Nth(kept, n) \in kept
      /\ \A n, k \in 1..m : Nth(kept, n) = Nth(kept, k) => n = k
      /\ \A i \in kept : \E n \in 1..m : Nth(kept, n) = i
  <2> HIDE DEF kept
  <2> QED
    BY <1>2, NthIsThere
<1>5. list = [n \in 1..m |-> rows[Nth(kept, n)]]
  BY DEF Where
<1>6. \A i \in DOMAIN rows : i \in kept <=> rows[i] \in wanted
  OBVIOUS
<1>7. kept \subseteq DOMAIN rows
  OBVIOUS
<1>8. \A i \in DOMAIN rows : rows[i] \in X
  OBVIOUS
<1> HIDE DEF kept, m, list
<1>9. DOMAIN list = 1..m /\ \A n \in 1..m : list[n] = rows[Nth(kept, n)]
  BY <1>5
<1>10. list \in Seq(X)
  <2>1. \A n \in 1..m : list[n] \in X
    BY <1>4, <1>7, <1>8, <1>9
  <2>2. list \in [1..m -> X]
    BY <1>5, <1>9, <2>1
  <2> QED
    BY <1>3, <2>2
<1>11. ToSet(list) = ToSet(rows) \cap wanted
  <2>1. ASSUME NEW x \in ToSet(list) PROVE x \in ToSet(rows) \cap wanted
    <3>1. PICK n \in 1..m : x = rows[Nth(kept, n)]
      BY <1>9 DEF ToSet
    <3> QED
      BY <1>4, <1>6, <1>7, <3>1 DEF ToSet
  <2>2. ASSUME NEW x \in ToSet(rows), x \in wanted PROVE x \in ToSet(list)
    <3>1. PICK i \in DOMAIN rows : x = rows[i]
      BY DEF ToSet
    <3>2. i \in kept
      BY <1>6, <2>2, <3>1
    <3>3. PICK n \in 1..m : Nth(kept, n) = i
      BY <1>4, <3>2
    <3> QED
      BY <1>9, <3>1, <3>3 DEF ToSet
  <2> QED
    BY <2>1, <2>2
<1>12. Distinct(rows) => Distinct(list)
  BY <1>4, <1>7, <1>9 DEF Distinct
<1> QED
  BY <1>10, <1>11, <1>12 DEF list

\* Rows of tables: ids and times are numbers, and an id is one row's.
Identified(S) ==
  /\ \A a \in S : a.id \in Int /\ a.event.at \in Int
  /\ \A a, b \in S : a.id = b.id => a = b

Earlier(S) == {pair \in S \X S : Before(pair[1], pair[2])}

LEMMA EarlierIsAnOrder ==
  ASSUME NEW S, Identified(S)
  PROVE  Ordered(S, Earlier(S))
<1>1. \A a, b \in S : <<a, b>> \in Earlier(S) <=> Before(a, b)
  BY DEF Earlier
<1>2. \A a \in S : ~Before(a, a)
  BY DEF Before, Identified
<1>3. \A a, b, c \in S : Before(a, b) /\ Before(b, c) => Before(a, c)
  BY DEF Before, Identified
<1>4. \A a, b \in S : a = b \/ Before(a, b) \/ Before(b, a)
  BY DEF Before, Identified
<1> QED
  BY <1>1, <1>2, <1>3, <1>4 DEF Ordered

\* Two lists of the same size count the same below corresponding elements.
LEMMA ListedCount ==
  ASSUME NEW X, NEW rows \in Seq(X), Distinct(rows), NEW U \in SUBSET ToSet(rows)
  PROVE  Cardinality({i \in DOMAIN rows : rows[i] \in U}) = Cardinality(U)
<1> DEFINE P == {i \in DOMAIN rows : rows[i] \in U}
           f == [i \in P |-> rows[i]]
<1>1. IsFiniteSet(P)
  <2>1. IsFiniteSet(DOMAIN rows)
    <3>1. DOMAIN rows = 1..Len(rows) /\ Len(rows) \in Int
      OBVIOUS
    <3> QED
      BY <3>1, IntervalSize
  <2> QED
    BY <2>1, FS_Subset
<1>2. f \in Surjection(P, U)
  BY DEF Surjection, ToSet
<1>3. f \in Injection(P, U)
  BY DEF Injection, IsInjective, Distinct
<1>4. f \in Bijection(P, U)
  BY <1>2, <1>3 DEF Bijection
<1> HIDE DEF f, P
<1>5. ExistsBijection(P, U)
  BY <1>4 DEF ExistsBijection
<1>6. Cardinality(U) = Cardinality(P)
  BY <1>1, <1>5, FS_Bijection
<1> QED
  BY <1>6 DEF P

\* Sorted lists the same rows, the n-th after n - 1 others.
LEMMA SortedRanks ==
  ASSUME NEW X, NEW rows \in Seq(X), Distinct(rows), Identified(ToSet(rows))
  PROVE  /\ Sorted(rows) \in Seq(X)
         /\ DOMAIN Sorted(rows) = DOMAIN rows
         /\ ToSet(Sorted(rows)) = ToSet(rows)
         /\ Distinct(Sorted(rows))
         /\ \A n \in DOMAIN rows :
              Cardinality(Under(ToSet(rows), Earlier(ToSet(rows)), Sorted(rows)[n])) = n - 1
<1> DEFINE S == ToSet(rows)
           R == Earlier(S)
           D == DOMAIN rows
           list == Sorted(rows)
<1>1. D = 1..Len(rows) /\ Len(rows) \in Nat /\ IsFiniteSet(D) /\ Cardinality(D) = Len(rows)
  <2>1. D = 1..Len(rows) /\ Len(rows) \in Nat
    OBVIOUS
  <2> HIDE DEF D
  <2>2. IsFiniteSet(1..Len(rows)) /\ Cardinality(1..Len(rows)) = Len(rows)
    BY <2>1, IntervalSize
  <2> QED
    BY <2>1, <2>2
<1>2. \A i \in D : rows[i] \in S /\ rows[i] \in X
  BY DEF ToSet
<1>3. IsFiniteSet(S) /\ Cardinality(S) = Len(rows)
  <2>1. {i \in D : rows[i] \in S} = D
    BY <1>2
  <2>2. Cardinality(S) = Cardinality(D)
    <3>1. S \in SUBSET ToSet(rows)
      OBVIOUS
    <3> QED
      BY <2>1, <3>1, ListedCount
  <2>3. rows \in Surjection(D, S)
    BY <1>2 DEF Surjection, ToSet
  <2>4. IsFiniteSet(S)
    BY <1>1, <2>3, FS_Surjection
  <2> QED
    BY <1>1, <2>2, <2>4
<1>4. Ordered(S, R)
  BY EarlierIsAnOrder
<1>5. Ranked(S, R)
  <2> HIDE DEF S, R
  <2> QED
    BY <1>3, <1>4, Ranks
<1>6. \A a, b \in S : <<a, b>> \in R <=> Before(a, b)
  BY DEF Earlier
<1>7. ASSUME NEW i \in D PROVE Rank(rows, i) = Cardinality(Under(S, R, rows[i])) + 1
  <2> DEFINE U == Under(S, R, rows[i])
             J == {j \in D : rows[j] \in U}
             K == {j \in D : \/ Before(rows[j], rows[i])
                             \/ ~Before(rows[i], rows[j]) /\ j <= i}
  <2>1. U \in SUBSET ToSet(rows)
    BY DEF Under
  <2>2. Cardinality(J) = Cardinality(U)
    <3> HIDE DEF U
    <3> QED
      BY <2>1, ListedCount
  <2>3. IsFiniteSet(J)
    BY <1>1, FS_Subset
  <2>4. \A j \in D : j \in J <=> Before(rows[j], rows[i])
    BY <1>2, <1>6 DEF Under
  <2>5. ~Before(rows[i], rows[i])
    BY <1>2, <1>4, <1>6 DEF Ordered
  <2>6. \A j \in D : j # i => (~Before(rows[i], rows[j]) => Before(rows[j], rows[i]))
    BY <1>2, <1>4, <1>6 DEF Ordered, Distinct
  <2>7. K = J \cup {i} /\ i \notin J
    <3>1. i <= i
      BY <1>1
    <3> QED
      BY <2>4, <2>5, <2>6, <3>1
  <2>8. Cardinality(K) = Cardinality(J) + 1
    <3> HIDE DEF J, K
    <3> QED
      BY <2>3, <2>7, FS_AddElement
  <2>9. Rank(rows, i) = Cardinality(K)
    BY DEF Rank
  <2> QED
    BY <2>2, <2>8, <2>9
<1>8. list = [n \in D |-> rows[CHOOSE i \in D : Rank(rows, i) = n]]
  BY DEF Sorted
<1>9. \A x \in S : \E i \in D : rows[i] = x
  BY DEF ToSet
<1>10. \A x \in S : Cardinality(Under(S, R, x)) \in Nat
  <2>1. \A x \in S : Under(S, R, x) \in SUBSET S
    BY DEF Under
  <2> HIDE DEF S, R
  <2> QED
    BY <1>3, <2>1, FS_Subset, FS_CardinalityType
<1> HIDE DEF S, R, D, list
<1>11. ASSUME NEW n \in D PROVE \E i \in D : Rank(rows, i) = n
  <2>1. n \in 1..Cardinality(S) /\ n \in Nat
    BY <1>1, <1>3
  <2>2. PICK x \in S : Cardinality(Under(S, R, x)) = n - 1
    BY <1>5, <2>1 DEF Ranked
  <2>3. PICK i \in D : rows[i] = x
    BY <1>9
  <2>4. Rank(rows, i) = (n - 1) + 1
    BY <1>7, <2>2, <2>3
  <2> QED
    BY <2>1, <2>4
<1>12. ASSUME NEW n \in D
       PROVE  /\ list[n] \in S /\ list[n] \in X
              /\ Cardinality(Under(S, R, list[n])) = n - 1
  <2> DEFINE i == CHOOSE i \in D : Rank(rows, i) = n
  <2>1. i \in D /\ Rank(rows, i) = n
    BY <1>11
  <2>2. list[n] = rows[i]
    BY <1>8
  <2> HIDE DEF i
  <2>3. Cardinality(Under(S, R, rows[i])) + 1 = n
    BY <1>7, <2>1
  <2> QED
    BY <1>2, <1>10, <2>1, <2>2, <2>3
<1>13. DOMAIN list = D
  BY <1>8
<1>14. list \in Seq(X)
  <2>1. list \in [D -> X]
    BY <1>8, <1>12, <1>13
  <2> QED
    BY <1>1, <2>1
<1>15. Distinct(list)
  <2> SUFFICES ASSUME NEW n \in D, NEW k \in D, list[n] = list[k] PROVE n = k
    BY <1>13 DEF Distinct
  <2>1. n - 1 = k - 1
    BY <1>12
  <2>2. n \in Nat /\ k \in Nat
    BY <1>1
  <2> QED
    BY <2>1, <2>2
<1>16. ToSet(list) = S
  <2>1. \A x \in ToSet(list) : x \in S
    BY <1>12, <1>13 DEF ToSet
  <2>2. ASSUME NEW x \in S PROVE x \in ToSet(list)
    <3>1. PICK n \in D : n = Cardinality(Under(S, R, x)) + 1
      BY <1>1, <1>3, <1>5 DEF Ranked
    <3>2. Cardinality(Under(S, R, list[n])) = Cardinality(Under(S, R, x))
      BY <1>10, <1>12, <3>1
    <3>3. list[n] = x
      BY <1>5, <1>12, <3>2 DEF Ranked
    <3> QED
      BY <1>13, <3>3 DEF ToSet
  <2> QED
    BY <2>1, <2>2
<1> QED
  BY <1>12, <1>13, <1>14, <1>15, <1>16 DEF S, R, D, list

\* So there is one such list, whatever order the rows were read in.
LEMMA SortedAgree ==
  ASSUME NEW X, NEW rows \in Seq(X), NEW others \in Seq(X),
         Distinct(rows), Distinct(others), Len(rows) = Len(others),
         ToSet(rows) = ToSet(others), IsFiniteSet(ToSet(rows)), Identified(ToSet(rows))
  PROVE  Sorted(rows) = Sorted(others)
<1> DEFINE S == ToSet(rows)
           R == Earlier(S)
           list == Sorted(rows)
           other == Sorted(others)
<1>1. DOMAIN rows = DOMAIN others
  OBVIOUS
<1>2. /\ list \in Seq(X) /\ DOMAIN list = DOMAIN rows /\ ToSet(list) = S
      /\ \A n \in DOMAIN rows : Cardinality(Under(S, R, list[n])) = n - 1
  BY SortedRanks
<1>3. /\ other \in Seq(X) /\ DOMAIN other = DOMAIN rows /\ ToSet(other) = S
      /\ \A n \in DOMAIN rows : Cardinality(Under(S, R, other[n])) = n - 1
  <2>1. Identified(ToSet(others)) /\ ToSet(others) = S
    OBVIOUS
  <2>2. /\ Sorted(others) \in Seq(X)
        /\ DOMAIN Sorted(others) = DOMAIN others
        /\ ToSet(Sorted(others)) = ToSet(others)
        /\ \A n \in DOMAIN others :
             Cardinality(Under(ToSet(others), Earlier(ToSet(others)), Sorted(others)[n])) = n - 1
    BY <2>1, SortedRanks
  <2> QED
    BY <1>1, <2>1, <2>2
<1>4. Ranked(S, R)
  <2>1. Ordered(S, R)
    BY EarlierIsAnOrder
  <2> HIDE DEF S, R
  <2>2. IsFiniteSet(S)
    BY DEF S
  <2> QED
    BY <2>1, <2>2, Ranks
<1> HIDE DEF S, R, list, other
<1>5. ASSUME NEW n \in DOMAIN rows PROVE list[n] = other[n]
  <2>1. list[n] \in S /\ other[n] \in S
    BY <1>2, <1>3 DEF ToSet
  <2> QED
    BY <1>2, <1>3, <1>4, <2>1 DEF Ranked
<1>6. list = other
  <2>1. list = [n \in DOMAIN rows |-> list[n]] /\ other = [n \in DOMAIN rows |-> other[n]]
    BY <1>2, <1>3
  <2> QED
    BY <1>5, <2>1
<1> QED
  BY <1>6 DEF list, other

LEMMA LeastPosition ==
  ASSUME NEW P \in SUBSET Nat, P # {}
  PROVE  \E i \in P : \A j \in P : i <= j
<1>1. PICK i \in P : \A j \in P : <<j, i>> \notin OpToRel(<, Nat)
  BY NatLessThanWellFounded, WFMin
<1>2. \A j \in P : ~(j < i)
  BY <1>1 DEF OpToRel
<1> QED
  BY <1>2

\* The positions of D with a value that no earlier one has.
FirstsOf(D, f) == {i \in D : \A j \in 1..(i - 1) : f[j] # f[i]}

\* Counting the first positions of each value of f passes every value.
FirstsAreCovered(D, f, firsts) ==
  /\ Cardinality(firsts) \in Nat /\ firsts \subseteq D
  /\ \A n \in 1..Cardinality(firsts) : Nth(firsts, n) \in firsts
  /\ \A k \in D : \E n \in 1..Cardinality(firsts) : f[Nth(firsts, n)] = f[k]

LEMMA FirstsCover ==
  ASSUME NEW D, NEW len \in Nat, D = 1..len, NEW f
  PROVE  FirstsAreCovered(D, f, FirstsOf(D, f))
<1> DEFINE firsts == FirstsOf(D, f)
<1> USE DEF FirstsOf
<1>1. firsts \in SUBSET D /\ firsts \in SUBSET Int
  OBVIOUS
<1>2. IsFiniteSet(firsts)
  <2>1. IsFiniteSet(D)
    BY IntervalSize
  <2> QED
    BY <1>1, <2>1, FS_Subset
<1>3. Cardinality(firsts) \in Nat
  BY <1>2, FS_CardinalityType
<1>4. /\ \A n \in 1..Cardinality(firsts) : Nth(firsts, n) \in firsts
      /\ \A i \in firsts : \E n \in 1..Cardinality(firsts) : Nth(firsts, n) = i
  BY <1>1, <1>2, NthIsThere
<1>5. ASSUME NEW k \in D PROVE \E i \in firsts : f[i] = f[k]
  <2> DEFINE P == {i \in D : f[i] = f[k]}
  <2>1. P \in SUBSET Nat /\ P # {}
    <3>1. k \in P
      OBVIOUS
    <3>2. \A i \in P : i \in Nat
      OBVIOUS
    <3> QED
      BY <3>1, <3>2
  <2>2. PICK i \in P : \A j \in P : i <= j
    <3> HIDE DEF P
    <3> QED
      BY <2>1, LeastPosition
  <2>3. ASSUME NEW j \in 1..(i - 1) PROVE f[j] # f[i]
    <3>1. j \in D /\ ~(i <= j)
      OBVIOUS
    <3> QED
      BY <2>2, <3>1
  <2> QED
    BY <2>2, <2>3
<1>6. ASSUME NEW k \in D PROVE \E n \in 1..Cardinality(firsts) : f[Nth(firsts, n)] = f[k]
  <2>1. PICK i \in firsts : f[i] = f[k]
    BY <1>5
  <2>2. PICK n \in 1..Cardinality(firsts) : Nth(firsts, n) = i
    BY <1>4
  <2> QED
    BY <2>1, <2>2
<1>7. firsts \subseteq D
  BY <1>1
<1> QED
  BY <1>3, <1>4, <1>6, <1>7 DEF FirstsAreCovered

\* The elements of S with the key of r.
ClassOf(S, key, r) == {row \in S : key[row] = key[r]}

\* One group for each class of rows, and no others.
LEMMA GroupsAreClasses ==
  ASSUME NEW X, NEW rows \in Seq(X), NEW key
  PROVE  /\ GroupsBy(rows, key) \in Seq(Seq(X))
         /\ ToSet(GroupsBy(rows, key)) =
              {Where(rows, ClassOf(ToSet(rows), key, r)) : r \in ToSet(rows)}
<1> DEFINE S == ToSet(rows)
           D == DOMAIN rows
           f == [i \in D |-> key[rows[i]]]
           firsts == {i \in D : \A j \in 1..(i - 1) : key[rows[j]] # key[rows[i]]}
           m == Cardinality(firsts)
           Group(r) == Where(rows, ClassOf(S, key, r))
           list == GroupsBy(rows, key)
<1>1. D = 1..Len(rows) /\ Len(rows) \in Nat
  OBVIOUS
<1>2. /\ m \in Nat /\ firsts \subseteq D
      /\ \A n \in 1..m : Nth(firsts, n) \in firsts
      /\ \A k \in D : \E n \in 1..m : f[Nth(firsts, n)] = f[k]
  <2>1. \A i \in D : \A j \in 1..(i - 1) : j \in D
    BY <1>1
  <2>2. firsts = FirstsOf(D, f)
    BY <2>1 DEF FirstsOf
  <2> HIDE DEF D, f, firsts
  <2>3. FirstsAreCovered(D, f, FirstsOf(D, f))
    BY <1>1, FirstsCover
  <2> QED
    BY <2>2, <2>3 DEF FirstsAreCovered
<1>3. list = [n \in 1..m |-> Group(rows[Nth(firsts, n)])]
  BY DEF GroupsBy, ClassOf
<1>4. \A i \in D : rows[i] \in S
  BY DEF ToSet
<1>5. \A r : Group(r) \in Seq(X)
  BY WhereKeeps
<1>6. \A r, q : key[r] = key[q] => Group(r) = Group(q)
  BY DEF ClassOf
<1>7. \A i \in D : f[i] = key[rows[i]]
  OBVIOUS
<1>8. \A r \in S : \E i \in D : r = rows[i]
  BY DEF ToSet
<1> HIDE DEF S, D, f, firsts, m, Group, list
<1>9. DOMAIN list = 1..m /\ \A n \in 1..m : list[n] = Group(rows[Nth(firsts, n)])
  BY <1>3
<1>10. list \in Seq(Seq(X))
  <2>1. list \in [1..m -> Seq(X)]
    BY <1>3, <1>5
  <2> QED
    BY <1>2, <2>1
<1>11. ToSet(list) = {Group(r) : r \in S}
  <2>1. ASSUME NEW g \in ToSet(list) PROVE g \in {Group(r) : r \in S}
    <3>1. PICK n \in 1..m : g = Group(rows[Nth(firsts, n)])
      BY <1>9 DEF ToSet
    <3> QED
      BY <1>2, <1>4, <3>1
  <2>2. ASSUME NEW r \in S PROVE Group(r) \in ToSet(list)
    <3>1. PICK k \in D : r = rows[k]
      BY <1>8
    <3>2. PICK n \in 1..m : f[Nth(firsts, n)] = f[k]
      BY <1>2
    <3>3. key[rows[Nth(firsts, n)]] = key[r]
      BY <1>2, <1>7, <3>1, <3>2
    <3>4. list[n] = Group(r)
      BY <1>6, <1>9, <3>3
    <3> QED
      BY <1>9, <3>4 DEF ToSet
  <2> QED
    BY <2>1, <2>2
<1> QED
  BY <1>10, <1>11 DEF list, Group, S

\* A list of different rows is as long as its set is large.
LEMMA LengthIsSize ==
  ASSUME NEW X, NEW rows \in Seq(X), Distinct(rows)
  PROVE  Len(rows) = Cardinality(ToSet(rows)) /\ IsFiniteSet(ToSet(rows))
<1> DEFINE D == DOMAIN rows
           S == ToSet(rows)
<1>1. D = 1..Len(rows) /\ Len(rows) \in Nat
  OBVIOUS
<1>2. IsFiniteSet(D) /\ Cardinality(D) = Len(rows)
  <2>1. IsFiniteSet(1..Len(rows)) /\ Cardinality(1..Len(rows)) = Len(rows)
    BY <1>1, IntervalSize
  <2> QED
    BY <1>1, <2>1
<1>3. rows \in Surjection(D, S)
  BY DEF Surjection, ToSet
<1>4. rows \in Injection(D, S)
  BY <1>3 DEF Injection, IsInjective, Distinct, Surjection
<1> HIDE DEF D, S
<1>5. IsFiniteSet(S) /\ Cardinality(S) = Cardinality(D)
  BY <1>2, <1>3, <1>4, FS_Surjection
<1> QED
  BY <1>2, <1>5 DEF S

\* Two at least.
LEMMA LongLists ==
  ASSUME NEW X, NEW rows \in Seq(X), Distinct(rows)
  PROVE  Len(rows) >= 2 <=> \E a, b \in ToSet(rows) : a # b
<1>1. ASSUME Len(rows) >= 2 PROVE \E a, b \in ToSet(rows) : a # b
  <2>1. 1 \in DOMAIN rows /\ 2 \in DOMAIN rows
    BY <1>1
  <2>2. rows[1] # rows[2]
    BY <2>1 DEF Distinct
  <2> QED
    BY <2>1, <2>2 DEF ToSet
<1>2. ASSUME NEW a \in ToSet(rows), NEW b \in ToSet(rows), a # b PROVE Len(rows) >= 2
  <2>1. PICK i, j \in DOMAIN rows : rows[i] = a /\ rows[j] = b
    BY DEF ToSet
  <2>2. i # j
    BY <1>2, <2>1
  <2>3. i \in 1..Len(rows) /\ j \in 1..Len(rows) /\ Len(rows) \in Nat
    OBVIOUS
  <2> QED
    BY <2>2, <2>3
<1> QED
  BY <1>1, <1>2

\* The rows of a class, once each.
LEMMA GroupOfClass ==
  ASSUME NEW X, NEW rows \in Seq(X), Distinct(rows), NEW key, NEW r \in ToSet(rows),
         NEW g, g = Where(rows, ClassOf(ToSet(rows), key, r))
  PROVE  /\ g \in Seq(X) /\ Distinct(g)
         /\ ToSet(g) = ClassOf(ToSet(rows), key, r)
         /\ g[1] \in ToSet(g)
         /\ Ids(g) = {row.id : row \in ClassOf(ToSet(rows), key, r)}
<1> DEFINE C == ClassOf(ToSet(rows), key, r)
<1>1. C \subseteq ToSet(rows) /\ r \in C
  BY DEF ClassOf
<1> HIDE DEF C
<1>2. g \in Seq(X) /\ Distinct(g) /\ ToSet(g) = ToSet(rows) \cap C
  BY WhereKeeps DEF C
<1>3. ToSet(g) = C
  BY <1>1, <1>2
<1>4. DOMAIN g # {}
  BY <1>1, <1>3 DEF ToSet
<1>5. 1 \in DOMAIN g
  BY <1>2, <1>4
<1>6. g[1] \in ToSet(g)
  BY <1>5 DEF ToSet
<1>7. Ids(g) = {row.id : row \in C}
  BY <1>3 DEF Ids
<1> QED
  BY <1>2, <1>3, <1>6, <1>7 DEF C

Repeated(C) == \E a, b \in C : a # b
RetriedClass(C) == Repeated(C) /\ \A a, b \in C : a.event.attempt = b.event.attempt => a = b

\* IsRetried counts: as many attempts as rows means no attempt twice.
LEMMA RetriedMeans ==
  ASSUME NEW X, NEW g \in Seq(X), Distinct(g)
  PROVE  IsRetried(g) <=> RetriedClass(ToSet(g))
<1> DEFINE C == ToSet(g)
           attempts == {row.event.attempt : row \in C}
           f == [row \in C |-> row.event.attempt]
<1>1. Len(g) = Cardinality(C) /\ IsFiniteSet(C)
  BY LengthIsSize
<1>2. Len(g) >= 2 <=> Repeated(C)
  BY LongLists DEF Repeated
<1>3. f \in Surjection(C, attempts)
  BY DEF Surjection
<1>4. f \in Injection(C, attempts) <=> \A a, b \in C : a.event.attempt = b.event.attempt => a = b
  <2>1. f \in [C -> attempts]
    OBVIOUS
  <2>2. \A a, b \in C : (f[a] = f[b]) <=> (a.event.attempt = b.event.attempt)
    OBVIOUS
  <2>3. DOMAIN f = C
    OBVIOUS
  <2> HIDE DEF f, attempts, C
  <2> QED
    BY <2>1, <2>2, <2>3 DEF Injection, IsInjective
<1>5. IsRetried(g) <=> Len(g) >= 2 /\ Cardinality(attempts) = Len(g)
  BY DEF IsRetried
<1> HIDE DEF f, attempts, C
<1>6. Cardinality(attempts) = Cardinality(C) <=> f \in Injection(C, attempts)
  BY <1>1, <1>3, FS_Surjection
<1>7. IsRetried(g) <=> RetriedClass(C)
  BY <1>1, <1>2, <1>4, <1>5, <1>6 DEF RetriedClass
<1> QED
  BY <1>7 DEF C

\* A finding about the class of r.
FindingOf(kind, S, key, r) ==
  Finding(kind, r.event.payment, {row.id : row \in ClassOf(S, key, r)}, None)

PairKey(S) == [row \in S |-> <<row.event.payment, row.event.type>>]
KeyKey(S) ==
  [row \in S |-> <<row.event.payment, row.event.type, row.event.idempotency_key>>]
AttemptKey(S) == [row \in S |-> <<row.event.payment, row.event.type, row.event.attempt>>]
WithKey(S) == {row \in S : row.event.idempotency_key # None}

\* What find_retries and find_duplicate_events find, as sets of the rows alone.
RetriesIn(S) ==
  {FindingOf("retry", S, PairKey(S), r) : r \in {q \in S : RetriedClass(ClassOf(S, PairKey(S), q))}}
RepeatsOf(S, key) ==
  {FindingOf("duplicate", S, key, r) : r \in {q \in S : Repeated(ClassOf(S, key, q))}}
DuplicatesIn(S) ==
  RepeatsOf(WithKey(S), KeyKey(WithKey(S))) \cup RepeatsOf(S, AttemptKey(S))

LEMMA RetriesAreOfRows ==
  ASSUME NEW X, NEW rows \in Seq(X), Distinct(rows)
  PROVE  ToSet(FindRetries(rows)) = RetriesIn(ToSet(rows))
<1> DEFINE S == ToSet(rows)
           key == PairKey(S)
           groups == GroupsBy(rows, key)
           retried == Where(groups, {group \in ToSet(groups) : IsRetried(group)})
           list == [n \in DOMAIN retried |->
                      Finding("retry", retried[n][1].event.payment, Ids(retried[n]), None)]
           Group(r) == Where(rows, ClassOf(S, key, r))
<1>1. FindRetries(rows) = list
  BY DEF FindRetries, PairKey
<1>2. groups \in Seq(Seq(X)) /\ ToSet(groups) = {Group(r) : r \in S}
  BY GroupsAreClasses
<1>3. \A r, q \in S : key[r] = key[q] => r.event.payment = q.event.payment
  BY DEF PairKey
<1> HIDE DEF S, key
<1>4. ASSUME NEW r \in S
      PROVE  /\ Group(r)[1].event.payment = r.event.payment
             /\ Ids(Group(r)) = {row.id : row \in ClassOf(S, key, r)}
             /\ IsRetried(Group(r)) <=> RetriedClass(ClassOf(S, key, r))
  <2> DEFINE g == Group(r)
  <2>1. /\ g \in Seq(X) /\ Distinct(g)
        /\ ToSet(g) = ClassOf(S, key, r) /\ g[1] \in ToSet(g)
        /\ Ids(g) = {row.id : row \in ClassOf(S, key, r)}
    BY GroupOfClass DEF S
  <2> HIDE DEF g
  <2>2. g[1].event.payment = r.event.payment
    BY <1>3, <2>1 DEF ClassOf
  <2>3. IsRetried(g) <=> RetriedClass(ClassOf(S, key, r))
    BY <2>1, RetriedMeans
  <2> QED
    BY <2>1, <2>2, <2>3 DEF g
<1> HIDE DEF groups
<1>5. ToSet(retried) = {group \in ToSet(groups) : IsRetried(group)}
  <2>1. ToSet(retried) = ToSet(groups) \cap {group \in ToSet(groups) : IsRetried(group)}
    BY <1>2, WhereKeeps
  <2> QED
    BY <2>1
<1> HIDE DEF retried, Group
<1>6. ToSet(list) = {Finding("retry", g[1].event.payment, Ids(g), None) : g \in ToSet(retried)}
  BY DEF ToSet
<1>7. ToSet(retried) = {Group(r) : r \in {q \in S : RetriedClass(ClassOf(S, key, q))}}
  BY <1>2, <1>4, <1>5
<1> HIDE DEF list
<1> DEFINE Q == {q \in S : RetriedClass(ClassOf(S, key, q))}
<1>8. \A r \in Q : Finding("retry", Group(r)[1].event.payment, Ids(Group(r)), None)
                     = FindingOf("retry", S, key, r)
  BY <1>4 DEF FindingOf
<1>9. ToSet(retried) = {Group(r) : r \in Q}
  BY <1>7
<1> HIDE DEF Q
<1>10. ToSet(list) = {FindingOf("retry", S, key, r) : r \in Q}
  <2>1. ASSUME NEW f \in ToSet(list) PROVE f \in {FindingOf("retry", S, key, r) : r \in Q}
    <3>1. PICK g \in ToSet(retried) : f = Finding("retry", g[1].event.payment, Ids(g), None)
      BY <1>6
    <3>2. PICK r \in Q : g = Group(r)
      BY <1>9
    <3> QED
      BY <1>8, <3>1, <3>2
  <2>2. ASSUME NEW r \in Q PROVE FindingOf("retry", S, key, r) \in ToSet(list)
    <3>1. Group(r) \in ToSet(retried)
      BY <1>9
    <3> QED
      BY <1>6, <1>8, <3>1
  <2> QED
    BY <2>1, <2>2
<1> QED
  BY <1>1, <1>10 DEF RetriesIn, S, key, Q

\* g is a list of the class of r.
Lists(g, S, key, r) ==
  /\ g[1].event.payment = r.event.payment
  /\ Ids(g) = {row.id : row \in ClassOf(S, key, r)}
  /\ ToSet(g) = ClassOf(S, key, r) /\ g[1] \in ToSet(g)
  /\ Len(g) >= 2 <=> Repeated(ClassOf(S, key, r))

\* A key tells the payments apart.
TellsPayments(S, key) == \A r, q \in S : key[r] = key[q] => r.event.payment = q.event.payment

LEMMA GroupsListClasses ==
  ASSUME NEW X, NEW rows \in Seq(X), Distinct(rows), NEW key,
         TellsPayments(ToSet(rows), key),
         NEW groups, groups = GroupsBy(rows, key)
  PROVE  /\ groups \in Seq(Seq(X))
         /\ \A g \in ToSet(groups) : \E r \in ToSet(rows) : Lists(g, ToSet(rows), key, r)
         /\ \A r \in ToSet(rows) : \E g \in ToSet(groups) : Lists(g, ToSet(rows), key, r)
<1> DEFINE S == ToSet(rows)
           Group(r) == Where(rows, ClassOf(S, key, r))
<1>1. groups \in Seq(Seq(X)) /\ ToSet(groups) = {Group(r) : r \in S}
  BY GroupsAreClasses
<1>2. ASSUME NEW r \in S PROVE Lists(Group(r), S, key, r)
  <2> DEFINE g == Group(r)
             C == ClassOf(S, key, r)
  <2>1. /\ g \in Seq(X) /\ Distinct(g) /\ ToSet(g) = C /\ g[1] \in ToSet(g)
        /\ Ids(g) = {row.id : row \in C}
    BY GroupOfClass
  <2>2. \A row \in C : row.event.payment = r.event.payment
    BY DEF ClassOf, TellsPayments
  <2> HIDE DEF g, C
  <2>3. Len(g) >= 2 <=> Repeated(C)
    BY <2>1, LongLists DEF Repeated
  <2> QED
    BY <2>1, <2>2, <2>3 DEF Lists, g, C
<1> HIDE DEF S, Group
<1> QED
  BY <1>1, <1>2 DEF S

\* The findings about the groups of two or more.
LEMMA RepeatsAreOfGroups ==
  ASSUME NEW S, NEW key, NEW all,
         \A g \in all : \E r \in S : Lists(g, S, key, r),
         \A r \in S : \E g \in all : Lists(g, S, key, r)
  PROVE  {Finding("duplicate", g[1].event.payment, Ids(g), None) : g \in {h \in all : Len(h) >= 2}}
           = RepeatsOf(S, key)
<1> DEFINE long == {h \in all : Len(h) >= 2}
           Q == {q \in S : Repeated(ClassOf(S, key, q))}
           found == {Finding("duplicate", g[1].event.payment, Ids(g), None) : g \in long}
<1>1. RepeatsOf(S, key) = {FindingOf("duplicate", S, key, r) : r \in Q}
  BY DEF RepeatsOf
<1>2. ASSUME NEW g \in all, NEW r \in S, Lists(g, S, key, r)
      PROVE  /\ Finding("duplicate", g[1].event.payment, Ids(g), None)
                  = FindingOf("duplicate", S, key, r)
             /\ g \in long <=> r \in Q
  BY <1>2 DEF Lists, FindingOf
<1>3. long \subseteq all /\ Q \subseteq S
  OBVIOUS
<1> HIDE DEF long, Q
<1>4. ASSUME NEW f \in found PROVE f \in {FindingOf("duplicate", S, key, r) : r \in Q}
  <2>1. PICK g \in long : f = Finding("duplicate", g[1].event.payment, Ids(g), None)
    OBVIOUS
  <2>2. PICK r \in S : Lists(g, S, key, r)
    BY <1>3
  <2>3. r \in Q /\ f = FindingOf("duplicate", S, key, r)
    BY <1>2, <1>3, <2>1, <2>2
  <2> QED
    BY <2>3
<1>5. ASSUME NEW r \in Q PROVE FindingOf("duplicate", S, key, r) \in found
  <2>1. PICK g \in all : Lists(g, S, key, r)
    BY <1>3
  <2>2. g \in long /\ Finding("duplicate", g[1].event.payment, Ids(g), None)
                        = FindingOf("duplicate", S, key, r)
    BY <1>2, <1>3, <2>1
  <2> QED
    BY <2>2
<1>6. found = {FindingOf("duplicate", S, key, r) : r \in Q}
  <2> HIDE DEF found
  <2> QED
    BY <1>4, <1>5
<1> QED
  BY <1>1, <1>6 DEF long

\* The groups of find_duplicate_events, before those of the same ids are dropped.
LEMMA DuplicatesAreOfRows ==
  ASSUME NEW X, NEW rows \in Seq(X), Distinct(rows), Identified(ToSet(rows))
  PROVE  ToSet(FindDuplicateEvents(rows)) = DuplicatesIn(ToSet(rows))
<1> DEFINE S == ToSet(rows)
           withKey == Where(rows, {row \in S : row.event.idempotency_key # None})
           T == ToSet(withKey)
           keyed == GroupsBy(withKey, KeyKey(T))
           sameAttempt == GroupsBy(rows, AttemptKey(S))
           all == keyed \o sameAttempt
           groups == Where(all, {group \in ToSet(all) : Len(group) >= 2})
           D == DOMAIN groups
           f == [i \in D |-> Ids(groups[i])]
           firsts == {i \in D : \A j \in 1..(i - 1) : Ids(groups[j]) # Ids(groups[i])}
           F(g) == Finding("duplicate", g[1].event.payment, Ids(g), None)
           m == Cardinality(firsts)
           list == [n \in 1..m |-> F(groups[Nth(firsts, n)])]
<1>1. FindDuplicateEvents(rows) = list
  BY DEF FindDuplicateEvents, KeyKey, AttemptKey
<1>2. withKey \in Seq(X) /\ Distinct(withKey) /\ T = WithKey(S)
  <2>1. /\ withKey \in Seq(X) /\ Distinct(withKey)
        /\ T = S \cap {row \in S : row.event.idempotency_key # None}
    BY WhereKeeps
  <2> QED
    BY <2>1 DEF WithKey
<1>3. TellsPayments(T, KeyKey(T)) /\ TellsPayments(S, AttemptKey(S))
  <2> HIDE DEF T, S
  <2> QED
    BY DEF TellsPayments, KeyKey, AttemptKey
<1>4. /\ keyed \in Seq(Seq(X))
      /\ \A g \in ToSet(keyed) : \E r \in T : Lists(g, T, KeyKey(T), r)
      /\ \A r \in T : \E g \in ToSet(keyed) : Lists(g, T, KeyKey(T), r)
  <2> HIDE DEF withKey, S
  <2> QED
    BY <1>2, <1>3, GroupsListClasses
<1>5. /\ sameAttempt \in Seq(Seq(X))
      /\ \A g \in ToSet(sameAttempt) : \E r \in S : Lists(g, S, AttemptKey(S), r)
      /\ \A r \in S : \E g \in ToSet(sameAttempt) : Lists(g, S, AttemptKey(S), r)
  BY <1>3, GroupsListClasses
<1>6. T \subseteq S
  BY <1>2 DEF WithKey
<1> HIDE DEF S, withKey, T, keyed, sameAttempt
<1>7. all \in Seq(Seq(X)) /\ ToSet(all) = ToSet(keyed) \cup ToSet(sameAttempt)
  <2>1. all \in Seq(Seq(X)) /\ Len(all) = Len(keyed) + Len(sameAttempt)
    BY <1>4, <1>5
  <2>2. DOMAIN all = 1..Len(all) /\ DOMAIN keyed = 1..Len(keyed)
        /\ DOMAIN sameAttempt = 1..Len(sameAttempt)
        /\ Len(keyed) \in Nat /\ Len(sameAttempt) \in Nat
    BY <1>4, <1>5, <2>1
  <2>3. \A i \in 1..Len(keyed) : all[i] = keyed[i]
    BY <1>4, <1>5
  <2>4. \A i \in 1..Len(sameAttempt) : all[Len(keyed) + i] = sameAttempt[i]
    BY <1>4, <1>5
  <2> HIDE DEF all
  <2>5. \A i \in 1..Len(keyed) : i \in 1..Len(all)
    BY <2>1, <2>2
  <2>6. \A i \in 1..Len(sameAttempt) : Len(keyed) + i \in 1..Len(all)
    BY <2>1, <2>2
  <2>7. \A x \in ToSet(keyed) : x \in ToSet(all)
    BY <2>2, <2>3, <2>5 DEF ToSet
  <2>8. \A x \in ToSet(sameAttempt) : x \in ToSet(all)
    BY <2>2, <2>4, <2>6 DEF ToSet
  <2>9. ASSUME NEW i \in 1..Len(all) PROVE all[i] \in ToSet(keyed) \cup ToSet(sameAttempt)
    <3>1. CASE i <= Len(keyed)
      <4>1. i \in 1..Len(keyed)
        BY <3>1, <2>2
      <4> QED
        BY <4>1, <2>2, <2>3 DEF ToSet
    <3>2. CASE i > Len(keyed)
      <4> DEFINE k == i - Len(keyed)
      <4>1. k \in 1..Len(sameAttempt) /\ i = Len(keyed) + k
        BY <3>2, <2>1, <2>2
      <4> QED
        BY <4>1, <2>2, <2>4 DEF ToSet
    <3> QED
      BY <3>1, <3>2, <2>2
  <2>10. \A x \in ToSet(all) : x \in ToSet(keyed) \cup ToSet(sameAttempt)
    BY <2>2, <2>9 DEF ToSet
  <2> QED
    BY <2>1, <2>7, <2>8, <2>10
<1> HIDE DEF all
<1>8. /\ groups \in Seq(Seq(X))
      /\ ToSet(groups) = {g \in ToSet(all) : Len(g) >= 2}
  <2>1. /\ groups \in Seq(Seq(X))
        /\ ToSet(groups) = ToSet(all) \cap {group \in ToSet(all) : Len(group) >= 2}
    BY <1>7, WhereKeeps
  <2> QED
    BY <2>1
<1>9. \A g \in ToSet(groups) :
        /\ g[1] \in ToSet(g) /\ ToSet(g) \subseteq S
        /\ \A row \in ToSet(g) : row.event.payment = g[1].event.payment
  <2> SUFFICES ASSUME NEW g \in ToSet(all)
               PROVE  /\ g[1] \in ToSet(g) /\ ToSet(g) \subseteq S
                      /\ \A row \in ToSet(g) : row.event.payment = g[1].event.payment
    BY <1>8
  <2>1. CASE g \in ToSet(keyed)
    <3>1. PICK r \in T : Lists(g, T, KeyKey(T), r)
      BY <1>4, <2>1
    <3> QED
      BY <1>3, <1>6, <3>1 DEF Lists, ClassOf, TellsPayments
  <2>2. CASE g \in ToSet(sameAttempt)
    <3>1. PICK r \in S : Lists(g, S, AttemptKey(S), r)
      BY <1>5, <2>2
    <3> QED
      BY <1>3, <3>1 DEF Lists, ClassOf, TellsPayments
  <2> QED
    BY <1>7, <2>1, <2>2
<1>10. ASSUME NEW g \in ToSet(groups), NEW h \in ToSet(groups), Ids(g) = Ids(h)
       PROVE  F(g) = F(h)
  <2>1. g[1].id \in Ids(h)
    BY <1>9, <1>10 DEF Ids
  <2>2. PICK row \in ToSet(h) : row.id = g[1].id
    BY <2>1 DEF Ids
  <2>3. row = g[1]
    BY <1>9, <2>2 DEF Identified, S
  <2>4. g[1].event.payment = h[1].event.payment
    BY <1>9, <2>3
  <2> QED
    BY <1>10, <2>4
<1> HIDE DEF groups
<1>11. D = 1..Len(groups) /\ Len(groups) \in Nat
  BY <1>8
<1>12. FirstsAreCovered(D, f, firsts)
  <2>1. \A i \in D : \A j \in 1..(i - 1) : j \in D
    BY <1>11
  <2>2. firsts = FirstsOf(D, f)
    BY <2>1 DEF FirstsOf
  <2> HIDE DEF D, f, firsts
  <2>3. FirstsAreCovered(D, f, FirstsOf(D, f))
    BY <1>11, FirstsCover
  <2> QED
    BY <2>2, <2>3
<1>13. \A i \in D : groups[i] \in ToSet(groups) /\ f[i] = Ids(groups[i])
  BY DEF ToSet
<1>14. \A g \in ToSet(groups) : \E i \in D : g = groups[i]
  BY DEF ToSet
<1> HIDE DEF D, f, firsts, m, F
<1>15. ToSet(list) = {F(g) : g \in ToSet(groups)}
  <2>0. DOMAIN list = 1..m /\ \A n \in 1..m : list[n] = F(groups[Nth(firsts, n)])
    OBVIOUS
  <2> HIDE DEF list
  <2>1. ASSUME NEW x \in ToSet(list) PROVE x \in {F(g) : g \in ToSet(groups)}
    <3>1. PICK n \in 1..m : x = F(groups[Nth(firsts, n)])
      BY <2>0 DEF ToSet
    <3>2. Nth(firsts, n) \in D
      BY <1>12, <3>1 DEF FirstsAreCovered, m
    <3> QED
      BY <1>13, <3>1, <3>2
  <2>2. ASSUME NEW g \in ToSet(groups) PROVE F(g) \in ToSet(list)
    <3>1. PICK k \in D : g = groups[k]
      BY <1>14
    <3>2. PICK n \in 1..m : f[Nth(firsts, n)] = f[k]
      BY <1>12 DEF FirstsAreCovered, m
    <3>3. Nth(firsts, n) \in D
      BY <1>12 DEF FirstsAreCovered, m
    <3>4. F(groups[Nth(firsts, n)]) = F(g)
      BY <1>10, <1>13, <3>1, <3>2, <3>3
    <3> QED
      BY <2>0, <3>4 DEF ToSet
  <2> QED
    BY <2>1, <2>2
<1>16. {F(g) : g \in ToSet(groups)} =
         {F(g) : g \in {h \in ToSet(keyed) : Len(h) >= 2}}
           \cup {F(g) : g \in {h \in ToSet(sameAttempt) : Len(h) >= 2}}
  BY <1>7, <1>8
<1>17. {F(g) : g \in {h \in ToSet(keyed) : Len(h) >= 2}} = RepeatsOf(T, KeyKey(T))
  BY <1>4, RepeatsAreOfGroups DEF F
<1>18. {F(g) : g \in {h \in ToSet(sameAttempt) : Len(h) >= 2}} = RepeatsOf(S, AttemptKey(S))
  BY <1>5, RepeatsAreOfGroups DEF F
<1>19. ToSet(list) = DuplicatesIn(S)
  BY <1>2, <1>15, <1>16, <1>17, <1>18 DEF DuplicatesIn
<1> QED
  BY <1>1, <1>19 DEF S

------------------------------------------------------------------------------
(* The rows: every step keeps the invariant. *)

USE PlansAssumption, DrawsAssumption, IncidentsAssumption, ServiceAssumption, NoneAssumption

Outcome ==
  {o \in [status: {"succeeded", "failed"}, error_code: ERROR_CODES \cup {None}, delay: Nat] :
     o.status = "failed" <=> o.error_code # None}

\* What a draw may come to is the outcome of a payment.
LEMMA OutcomesAreTyped ==
  \A merchant, method, at : Outcomes(merchant, method, at) \subseteq Outcome
  BY DEF Outcomes, Outcome, Succeeds, Fails, ERROR_CODES, Prompt, Late

LEMMA PlantedAreTyped ==
  /\ Succeeds(Prompt) \in Outcome
  /\ Succeeds(Late) \in Outcome
  /\ Fails("GATEWAY_TIMEOUT", Prompt) \in Outcome
  BY DEF Outcome, Succeeds, Fails, ERROR_CODES, Prompt, Late

\* A refund gives back something and no more than the amount.
LEMMA RefundIsCovered ==
  ASSUME NEW amount \in Nat \ {0}
  PROVE  RefundAmount(amount) \in Nat /\ 0 < RefundAmount(amount)
           /\ RefundAmount(amount) <= amount
  BY DEF RefundAmount

\* What appending does to a table.
LEMMA AppendRow ==
  ASSUME NEW Rows, NEW table \in Seq(Rows), NEW row \in Rows
  PROVE  LET longer == Append(table, row) IN
           /\ longer \in Seq(Rows)
           /\ Len(table) \in Nat
           /\ Len(longer) = Len(table) + 1
           /\ DOMAIN longer = 1..(Len(table) + 1)
           /\ longer[Len(table) + 1] = row
           /\ \A i \in 1..Len(table) : longer[i] = table[i]
  OBVIOUS

\* Init: no rows, or a service's.
LEMMA InitRows == Init => RowsInv
<1> SUFFICES ASSUME Init PROVE RowsInv
  OBVIOUS
<1>1. TypeOK
  <2>1. payments \in Seq(Payment)
    BY DEF Init
  <2>2. orders \in Seq(Order)
    <3>1. \A payment \in Payment : OrderOf(payment) \in Order
      BY DEF OrderOf, Order, Payment
    <3>2. /\ DOMAIN payments = 1..Len(payments) /\ Len(payments) \in Nat
          /\ \A i \in DOMAIN payments : payments[i] \in Payment
      BY <2>1
    <3>3. orders \in [1..Len(payments) -> Order]
      BY <3>1, <3>2 DEF Init
    <3> QED
      BY <3>2, <3>3
  <2>3. plan \in Plan
    <3>1. NoPlan \in Plan
      BY DEF NoPlan, Plan
    <3> QED
      BY <3>1 DEF Init
  <2> QED
    BY <2>1, <2>2, <2>3 DEF Init, TypeOK
<1>2. Generated => payments = <<>> /\ orders = <<>>
  BY DEF Init, Generated
<1> QED
  BY <1>1, <1>2 DEF Init, RowsInv, RowsAlign, PlantsAfterTraffic, RowsAreConsistent,
    PaymentsAreWhole, EventsFollowPayments, RefundsAreCovered

\* The rows one group adds, by name.
NewOrder(merchant, amount, outcome) ==
  [merchant |-> merchant, amount |-> amount,
   status |-> IF outcome.status = "succeeded" THEN "paid" ELSE "created"]
NewPayment(merchant, method, at, amount, outcome) ==
  [order |-> Len(payments) + 1, merchant |-> merchant, method |-> method, amount |-> amount,
   status |-> outcome.status, error_code |-> outcome.error_code, at |-> at,
   captured_at |-> IF outcome.status = "succeeded" THEN at ELSE None]
NewEvent(at, outcome, delivery) ==
  [payment |-> Len(payments) + 1, type |-> outcome.status, delivery_status |-> delivery,
   delay |-> outcome.delay, at |-> at, attempt |-> 1, idempotency_key |-> None]
NewRefund(at, amount) ==
  [payment |-> Len(payments) + 1, amount |-> RefundAmount(amount), status |-> "processed",
   at |-> at + RefundAfter]
NewDispute(at) ==
  [payment |-> Len(payments) + 1, status |-> "open", at |-> at + DisputeAfter]

\* One row group keeps types, alignment and consistency.
LEMMA InsertKeeps ==
  ASSUME RowsInv, Generated, Generated',
         NEW merchant \in MERCHANTS, NEW method \in METHODS, NEW at \in Nat,
         NEW amount \in Nat \ {0}, NEW outcome \in Outcome,
         InsertPayment(merchant, method, at, amount, outcome)
  PROVE  /\ orders' \in Seq(Order) /\ payments' \in Seq(Payment)
         /\ events' \in Seq(WebhookEvent)
         /\ refunds' \subseteq Refund /\ disputes' \subseteq Dispute
         /\ RowsAlign' /\ RowsAreConsistent'
         /\ Len(payments') = Len(payments) + 1
<1> DEFINE id == Len(payments) + 1
           order == NewOrder(merchant, amount, outcome)
           payment == NewPayment(merchant, method, at, amount, outcome)
           paid == outcome.status = "succeeded"
<1>1. PICK delivery \in DeliveredAs(outcome.delay), refunded \in {paid, FALSE},
           disputed \in {paid, FALSE} :
        /\ orders' = Append(orders, order)
        /\ payments' = Append(payments, payment)
        /\ events' = Append(events, NewEvent(at, outcome, delivery))
        /\ refunds' = IF ~refunded THEN refunds ELSE refunds \cup {NewRefund(at, amount)}
        /\ disputes' = IF ~disputed THEN disputes ELSE disputes \cup {NewDispute(at)}
  BY DEF InsertPayment, NewOrder, NewPayment, NewEvent, NewRefund, NewDispute
<1> DEFINE event == NewEvent(at, outcome, delivery)
<1>2. /\ orders \in Seq(Order) /\ payments \in Seq(Payment) /\ events \in Seq(WebhookEvent)
      /\ refunds \subseteq Refund /\ disputes \subseteq Dispute
      /\ Len(payments) \in Nat /\ Len(orders) = Len(payments) /\ Len(events) = Len(payments)
      /\ DOMAIN payments = 1..Len(payments)
      /\ \A i \in DOMAIN payments : payments[i].order = i
  BY DEF RowsInv, TypeOK, RowsAlign
<1>3. PaymentsAreWhole /\ EventsFollowPayments /\ RefundsAreCovered
  BY DEF RowsInv, RowsAreConsistent
<1>4. order \in Order /\ payment \in Payment
  BY <1>2 DEF NewOrder, NewPayment, Order, Payment, Outcome, PaymentStatuses
<1>5. event \in WebhookEvent
  <2>1. delivery \in DeliveryStatuses
    BY DEF DeliveredAs, DeliveryStatuses
  <2>2. outcome.status \in EventTypes /\ outcome.delay \in Nat
    BY DEF Outcome, EventTypes, PaymentStatuses
  <2> QED
    BY <2>1, <2>2, <1>2 DEF NewEvent, WebhookEvent
<1>6. NewRefund(at, amount) \in Refund /\ NewDispute(at) \in Dispute
  BY <1>2, RefundIsCovered DEF NewRefund, NewDispute, Refund, Dispute, RefundAfter, DisputeAfter
<1>7. /\ orders' \in Seq(Order) /\ payments' \in Seq(Payment) /\ events' \in Seq(WebhookEvent)
      /\ refunds' \subseteq Refund /\ disputes' \subseteq Dispute
  BY <1>1, <1>2, <1>4, <1>5, <1>6
<1>8. /\ Len(payments') = id /\ Len(orders') = id /\ Len(events') = id
      /\ DOMAIN payments' = 1..id /\ DOMAIN orders' = 1..id /\ DOMAIN events' = 1..id
      /\ payments'[id] = payment /\ orders'[id] = order /\ events'[id] = event
      /\ \A i \in 1..Len(payments) :
           payments'[i] = payments[i] /\ orders'[i] = orders[i] /\ events'[i] = events[i]
  <2>1. /\ Len(payments') = id /\ DOMAIN payments' = 1..id /\ payments'[id] = payment
        /\ \A i \in 1..Len(payments) : payments'[i] = payments[i]
    BY <1>1, <1>2, <1>4, AppendRow
  <2>2. /\ Len(orders') = id /\ DOMAIN orders' = 1..id /\ orders'[id] = order
        /\ \A i \in 1..Len(payments) : orders'[i] = orders[i]
    BY <1>1, <1>2, <1>4, AppendRow
  <2>3. /\ Len(events') = id /\ DOMAIN events' = 1..id /\ events'[id] = event
        /\ \A i \in 1..Len(payments) : events'[i] = events[i]
    BY <1>1, <1>2, <1>5, AppendRow
  <2> QED
    BY <2>1, <2>2, <2>3
<1>9. RowsAlign'
  BY <1>2, <1>8 DEF RowsAlign, NewPayment
<1>10. PaymentsAreWhole'
  <2> SUFFICES ASSUME NEW i \in 1..id
               PROVE  /\ payments'[i].amount > 0
                      /\ payments'[i].status \in {"succeeded", "failed"}
                      /\ payments'[i].status = "failed" <=> payments'[i].error_code # None
                      /\ payments'[i].status = "succeeded" <=> payments'[i].captured_at # None
                      /\ payments'[i].order \in 1..id
                      /\ orders'[payments'[i].order].merchant = payments'[i].merchant
                      /\ orders'[payments'[i].order].amount = payments'[i].amount
    BY <1>8 DEF PaymentsAreWhole
  <2>1. CASE i = id
    <3>1. payments'[i] = payment /\ orders'[payment.order] = order
      BY <2>1, <1>8 DEF NewPayment
    <3>2. /\ payment.amount > 0
          /\ payment.status \in {"succeeded", "failed"}
          /\ payment.status = "failed" <=> payment.error_code # None
          /\ payment.status = "succeeded" <=> payment.captured_at # None
          /\ payment.order = id
          /\ order.merchant = payment.merchant /\ order.amount = payment.amount
      BY DEF NewPayment, NewOrder, Outcome
    <3> QED
      BY <3>1, <3>2, <1>2
  <2>2. CASE i \in 1..Len(payments)
    <3>1. /\ payments'[i] = payments[i] /\ orders'[i] = orders[i]
          /\ payments[i].order = i /\ i \in DOMAIN payments
      BY <2>2, <1>2, <1>8
    <3>2. /\ payments[i].amount > 0
          /\ payments[i].status \in {"succeeded", "failed"}
          /\ payments[i].status = "failed" <=> payments[i].error_code # None
          /\ payments[i].status = "succeeded" <=> payments[i].captured_at # None
          /\ orders[payments[i].order].merchant = payments[i].merchant
          /\ orders[payments[i].order].amount = payments[i].amount
      BY <3>1, <1>3 DEF PaymentsAreWhole
    <3> QED
      BY <3>1, <3>2
  <2>3. i = id \/ i \in 1..Len(payments)
    BY <1>2
  <2> QED
    BY <2>1, <2>2, <2>3
<1>11. EventsFollowPayments'
  <2>1. ASSUME NEW i \in 1..id
        PROVE  events'[i].payment = i /\ events'[i].type = payments'[i].status
                 /\ events'[i].at = payments'[i].at
    <3>1. CASE i = id
      BY <3>1, <1>8 DEF NewEvent, NewPayment
    <3>2. CASE i \in 1..Len(payments)
      BY <3>2, <1>2, <1>3, <1>8 DEF EventsFollowPayments
    <3> QED
      BY <3>1, <3>2, <1>2
  <2> QED
    BY <2>1, <1>8 DEF EventsFollowPayments
<1>12. /\ \A refund \in refunds : refund.payment \in 1..Len(payments)
       /\ \A dispute \in disputes : dispute.payment \in 1..Len(payments)
  BY <1>2, <1>3 DEF RefundsAreCovered
<1>13. RefundsAreCovered'
  <2>1. ASSUME NEW refund \in refunds'
        PROVE  /\ refund.payment \in DOMAIN payments'
               /\ payments'[refund.payment].status = "succeeded"
               /\ 0 < refund.amount /\ refund.amount <= payments'[refund.payment].amount
    <3>1. CASE refund \in refunds
      BY <3>1, <1>2, <1>3, <1>8, <1>12 DEF RefundsAreCovered
    <3>2. CASE refunded /\ refund = NewRefund(at, amount)
      <4>1. payment.status = "succeeded" /\ payment.amount = amount
        BY <3>2 DEF NewPayment
      <4>2. refund.payment = id /\ refund.amount = RefundAmount(amount)
        BY <3>2 DEF NewRefund
      <4> QED
        <5>1. payment = payments'[id] /\ id \in DOMAIN payments'
          BY <1>2, <1>8
        <5>2. 0 < RefundAmount(amount) /\ RefundAmount(amount) <= amount
          BY RefundIsCovered
        <5> QED
          BY <4>1, <4>2, <5>1, <5>2
    <3> QED
      BY <3>1, <3>2, <1>1
  <2>2. ASSUME NEW r1 \in refunds', NEW r2 \in refunds', r1.payment = r2.payment
        PROVE  r1 = r2
    BY <2>2, <1>1, <1>2, <1>3, <1>12 DEF RefundsAreCovered, NewRefund
  <2>3. ASSUME NEW dispute \in disputes'
        PROVE  dispute.payment \in DOMAIN payments'
                 /\ payments'[dispute.payment].status = "succeeded"
    <3>1. CASE dispute \in disputes
      BY <3>1, <1>2, <1>3, <1>8, <1>12 DEF RefundsAreCovered
    <3>2. CASE disputed /\ dispute = NewDispute(at)
      <4>1. payment.status = "succeeded" /\ dispute.payment = id
        BY <3>2 DEF NewDispute, NewPayment
      <4> QED
        BY <4>1, <1>2, <1>8
    <3> QED
      BY <3>1, <3>2, <1>1
  <2>4. ASSUME NEW d1 \in disputes', NEW d2 \in disputes', d1.payment = d2.payment
        PROVE  d1 = d2
    BY <2>4, <1>1, <1>2, <1>3, <1>12 DEF RefundsAreCovered, NewDispute
  <2> QED
    BY <2>1, <2>2, <2>3, <2>4 DEF RefundsAreCovered
<1> QED
  BY <1>7, <1>8, <1>9, <1>10, <1>11, <1>13 DEF RowsAreConsistent

\* The same as a step of the whole state, when nothing else changes.
LEMMA GroupKeeps ==
  ASSUME RowsInv, phase \in {"traffic", "planted"}, UNCHANGED <<phase, plan, settlements>>,
         NEW merchant \in MERCHANTS, NEW method \in METHODS, NEW at \in Nat,
         NEW amount \in Nat \ {0}, NEW outcome \in Outcome,
         InsertPayment(merchant, method, at, amount, outcome)
  PROVE  RowsInv'
<1>1. Generated /\ Generated'
  BY DEF Generated
<1>2. /\ orders' \in Seq(Order) /\ payments' \in Seq(Payment)
      /\ events' \in Seq(WebhookEvent)
      /\ refunds' \subseteq Refund /\ disputes' \subseteq Dispute
      /\ RowsAlign' /\ RowsAreConsistent'
      /\ Len(payments') = Len(payments) + 1
  BY <1>1, InsertKeeps
<1>3. TypeOK'
  BY <1>2 DEF RowsInv, TypeOK
<1>4. PlantsAfterTraffic'
  <2>1. Len(payments) \in Nat /\ Len(plan.traffic) \in Nat
    BY DEF RowsInv, TypeOK, Plan
  <2> QED
    BY <2>1, <1>2 DEF RowsInv, PlantsAfterTraffic
<1> QED
  BY <1>2, <1>3, <1>4 DEF RowsInv

\* Every step of the generator, and a delivery in service, keeps the rows.
LEMMA StepKeepsRows == RowsInv /\ [Next]_vars => RowsInv'
<1> SUFFICES ASSUME RowsInv, [Next]_vars PROVE RowsInv'
  OBVIOUS
<1> USE DEF tables
<1>0. TypeOK /\ RowsAlign /\ PlantsAfterTraffic /\ RowsAreConsistent
  BY DEF RowsInv
<1>1. CASE Draw
  <2> DEFINE merchant == plan.traffic[Len(payments) + 1]
  <2>0. PICK at \in DrawHours, method \in DrawMethods, amount \in Amounts :
          \E outcome \in Outcomes(merchant, method, at) :
            InsertPayment(merchant, method, at, amount, outcome)
    BY <1>1 DEF Draw
  <2>1. PICK outcome \in Outcomes(merchant, method, at) :
          InsertPayment(merchant, method, at, amount, outcome)
    BY <2>0
  <2>2. merchant \in MERCHANTS
    <3>1. plan.traffic \in Seq(MERCHANTS) /\ Len(payments) \in Nat
      BY <1>0 DEF TypeOK, Plan
    <3> QED
      BY <3>1, <1>1 DEF Draw
  <2>3. outcome \in Outcome
    BY OutcomesAreTyped
  <2>4. phase = "traffic" /\ UNCHANGED <<phase, plan, settlements>>
    BY <1>1 DEF Draw
  <2>5. at \in Nat /\ method \in METHODS /\ amount \in Nat \ {0}
    OBVIOUS
  <2> QED
    BY <2>1, <2>2, <2>3, <2>4, <2>5, GroupKeeps
<1>2. CASE PlantSpike
  <2>1. PICK minute \in {plan.spike[Planted + 1]} :
          InsertPayment("M102", "upi", UpiSpike.start + minute \div 60, SpikeAmount,
                        SpikeOutcome(minute))
    BY <1>2 DEF PlantSpike
  <2>2. minute \in Nat
    <3>1. plan.spike \in Seq(Nat) /\ Planted \in Nat
      BY <1>0, <1>2 DEF TypeOK, Plan, Planted, PlantsAfterTraffic, PlantSpike
    <3>2. Planted + 1 \in DOMAIN plan.spike
      BY <3>1, <1>2 DEF PlantSpike
    <3> QED
      BY <3>1, <3>2
  <2>3. UpiSpike.start + minute \div 60 \in Nat
    BY <2>2
  <2>4. SpikeOutcome(minute) \in Outcome
    BY PlantedAreTyped DEF SpikeOutcome
  <2>5. "M102" \in MERCHANTS /\ "upi" \in METHODS /\ SpikeAmount \in Nat \ {0}
    BY DEF MERCHANTS, METHODS, SpikeAmount
  <2>6. phase = "planted" /\ UNCHANGED <<phase, plan, settlements>>
    BY <1>2 DEF PlantSpike
  <2> QED
    BY <1>0, <2>1, <2>3, <2>4, <2>5, <2>6, GroupKeeps
<1>3. CASE PlantDelay
  <2>1. PICK minute \in {plan.delay[Planted - Len(plan.spike) + 1]} :
          InsertPayment("M201", "card", WebhookDelay.start + minute \div 60, DelayAmount,
                        Succeeds(Late))
    BY <1>3 DEF PlantDelay
  <2>2. minute \in Nat
    <3>1. plan.delay \in Seq(Nat) /\ plan.spike \in Seq(Nat)
      BY <1>0 DEF TypeOK, Plan
    <3>2. Planted \in Len(plan.spike)..(Len(plan.spike) + Len(plan.delay) - 1)
      BY <1>3 DEF PlantDelay
    <3>3. Len(plan.spike) \in Nat /\ Len(plan.delay) \in Nat
      BY <3>1
    <3>4. \A a, b \in Nat : \A p \in a..(a + b - 1) : p - a + 1 \in 1..b
      OBVIOUS
    <3>5. Planted - Len(plan.spike) + 1 \in 1..Len(plan.delay)
      BY <3>2, <3>3, <3>4
    <3>6. \A list \in Seq(Nat) : \A i \in 1..Len(list) : list[i] \in Nat
      OBVIOUS
    <3> QED
      BY Zenon, <2>1, <3>1, <3>5, <3>6
  <2>3. WebhookDelay.start + minute \div 60 \in Nat
    BY <2>2
  <2>4. Succeeds(Late) \in Outcome
    BY PlantedAreTyped
  <2>5. "M201" \in MERCHANTS /\ "card" \in METHODS /\ DelayAmount \in Nat \ {0}
    BY DEF MERCHANTS, METHODS, DelayAmount
  <2>6. phase = "planted" /\ UNCHANGED <<phase, plan, settlements>>
    BY <1>3 DEF PlantDelay
  <2> QED
    BY <1>0, <2>1, <2>3, <2>4, <2>5, <2>6, GroupKeeps
<1>4. CASE StartPlanting
  BY <1>0, <1>4 DEF StartPlanting, RowsInv, TypeOK, RowsAlign, PlantsAfterTraffic,
    RowsAreConsistent, Generated, PaymentsAreWhole, EventsFollowPayments, RefundsAreCovered
<1>5. CASE Settle
  BY <1>0, <1>5 DEF Settle, RowsInv, TypeOK, RowsAlign, PlantsAfterTraffic,
    RowsAreConsistent, Generated, PaymentsAreWhole, EventsFollowPayments, RefundsAreCovered
<1>6. CASE Deliver
  <2>1. ~Generated /\ ~Generated'
    BY <1>6 DEF Deliver, Generated
  <2>2. TypeOK'
    BY <1>0, <1>6 DEF Deliver, TypeOK
  <2> QED
    BY <2>1, <2>2, <1>6 DEF Deliver, RowsInv, RowsAlign, PlantsAfterTraffic, RowsAreConsistent
<1>7. CASE UNCHANGED vars
  BY <1>0, <1>7 DEF vars, RowsInv, TypeOK, RowsAlign, PlantsAfterTraffic,
    RowsAreConsistent, Generated, PaymentsAreWhole, EventsFollowPayments, RefundsAreCovered
<1> QED
  BY <1>1, <1>2, <1>3, <1>4, <1>5, <1>6, <1>7 DEF Next

LEMMA RowsInvariant == Spec => []RowsInv
  BY InitRows, StepKeepsRows, PTL DEF Spec

\* The tables hold rows of their types, with the values their CHECKs allow.
THEOREM PaymentTypes == Spec => []TypeOK
<1>1. RowsInv => TypeOK
  BY DEF RowsInv
<1> QED
  BY <1>1, RowsInvariant, PTL

\* Rows that synthetic_generator writes fit each other, whatever it draws: a
\* code for each failure, a capture for each success, an order of the same
\* merchant, an event of the same status, refunds and disputes that are covered.
THEOREM GeneratedRowsFit == Spec => []RowsAreConsistent
<1>1. RowsInv => RowsAreConsistent
  BY DEF RowsInv
<1> QED
  BY <1>1, RowsInvariant, PTL

LEMMA RefundsInvariant == Spec => []RefundsAreGenerated
<1>1. Init => RefundsAreGenerated
  BY DEF Init, RefundsAreGenerated
<1>2. ASSUME RefundsAreGenerated, [Next]_vars PROVE RefundsAreGenerated'
  <2>1. CASE Draw
    BY <2>1 DEF Draw, RefundsAreGenerated, Generated
  <2>2. CASE StartPlanting
    BY <2>2 DEF StartPlanting, RefundsAreGenerated, Generated
  <2>3. CASE PlantSpike
    BY <2>3 DEF PlantSpike, RefundsAreGenerated, Generated
  <2>4. CASE PlantDelay
    BY <2>4 DEF PlantDelay, RefundsAreGenerated, Generated
  <2>5. CASE Settle
    BY <2>5 DEF Settle, RefundsAreGenerated, Generated
  <2>6. CASE Deliver
    BY <1>2, <2>6 DEF Deliver, RefundsAreGenerated, Generated
  <2>7. CASE UNCHANGED vars
    BY <1>2, <2>7 DEF vars, tables, RefundsAreGenerated, Generated
  <2> QED
    BY <1>2, <2>1, <2>2, <2>3, <2>4, <2>5, <2>6, <2>7 DEF Next
<1> QED
  BY <1>1, <1>2, PTL DEF Spec

LEMMA TablesInvariant == Spec => []TablesInv
  BY RowsInvariant, RefundsInvariant, PTL DEF TablesInv

\* A merchant's score is between 0 and 100 and its penalties explain what is
\* missing, whatever the payments, refunds, disputes and deliveries.
THEOREM ScoresAreExplained == Spec => []ScoreIsExplained
  BY TablesInvariant, ScoreIsExplainedNow, PTL

\* However the payments of a window are broken down, the parts add up to it.
THEOREM PartsAddUp == Spec => []BreakdownsAddUp
<1>1. TablesInv => BreakdownsAddUp
  BY WindowsTileNow, BucketsAddUpNow, RatesAreSharesNow, ComparedWindowsAdjoinNow,
     MerchantsRankAsCountedNow, MerchantsAddUp DEF BreakdownsAddUp
<1> QED
  BY <1>1, TablesInvariant, PTL

\* Whatever is drawn and planted, the integrity checks and the webhook
\* comparisons find nothing.
THEOREM GeneratedRowsAreClean == Spec => []GeneratedDataIsClean
<1>1. TablesInv => GeneratedDataIsClean
  <2> SUFFICES ASSUME TablesInv PROVE GeneratedDataIsClean
    OBVIOUS
  <2>1. RowsAreConsistent
    BY DEF TablesInv, RowsInv
  <2> QED
    BY <2>1, IntegrityHolds, WebhooksAgree DEF GeneratedDataIsClean
<1> QED
  BY <1>1, TablesInvariant, PTL

\* What the operations that look at one row find, as sets of the rows alone.
FoundIn(S, threshold, class) ==
  {EventFinding(row, class, None) :
     row \in {r \in S : ClassifyDelivery(r.event, threshold) = class}}

LEMMA ClassesAreOfRows ==
  ASSUME NEW X, NEW rows \in Seq(X), Distinct(rows), Identified(ToSet(rows)),
         NEW threshold, NEW class
  PROVE  ToSet(FindOfClass(rows, threshold, class)) = FoundIn(ToSet(rows), threshold, class)
<1> DEFINE wanted == {row \in ToSet(rows) : ClassifyDelivery(row.event, threshold) = class}
           found == Where(Sorted(rows), wanted)
<1>1. Sorted(rows) \in Seq(X) /\ ToSet(Sorted(rows)) = ToSet(rows)
  BY SortedRanks
<1>2. FindOfClass(rows, threshold, class) = [n \in DOMAIN found |-> EventFinding(found[n], class, None)]
  BY DEF FindOfClass
<1>3. wanted \subseteq ToSet(rows)
  OBVIOUS
<1> HIDE DEF wanted
<1>4. ToSet(found) = wanted
  <2>1. ToSet(found) = ToSet(rows) \cap wanted
    BY <1>1, WhereKeeps
  <2> QED
    BY <1>3, <2>1
<1> HIDE DEF found
<1>5. ToSet([n \in DOMAIN found |-> EventFinding(found[n], class, None)])
        = {EventFinding(row, class, None) : row \in wanted}
  BY <1>4 DEF ToSet
<1> QED
  BY <1>2, <1>5 DEF FoundIn, wanted

MissingIn(known, S) ==
  {Finding("missing", id, {}, None) :
     id \in {i \in known : /\ payments[i].status \in {"succeeded", "failed", "cancelled"}
                           /\ \A row \in S : row.event.payment # i}}

LEMMA MissingAreOfRows ==
  ASSUME NEW X, NEW ids \in Seq(X), NEW rows
  PROVE  ToSet(FindMissingEvents(ids, rows)) = MissingIn(ToSet(ids), ToSet(rows))
<1> DEFINE wanted == {i \in ToSet(ids) :
                        /\ payments[i].status \in {"succeeded", "failed", "cancelled"}
                        /\ \A row \in ToSet(rows) : row.event.payment # i}
           found == Where(ids, wanted)
<1>1. FindMissingEvents(ids, rows) = [n \in DOMAIN found |-> Finding("missing", found[n], {}, None)]
  BY DEF FindMissingEvents
<1>2. wanted \subseteq ToSet(ids)
  OBVIOUS
<1> HIDE DEF wanted
<1>3. ToSet(found) = wanted
  <2>1. ToSet(found) = ToSet(ids) \cap wanted
    BY WhereKeeps
  <2> QED
    BY <1>2, <2>1
<1> HIDE DEF found
<1>4. ToSet([n \in DOMAIN found |-> Finding("missing", found[n], {}, None)])
        = {Finding("missing", id, {}, None) : id \in wanted}
  BY <1>3 DEF ToSet
<1> QED
  BY <1>1, <1>4 DEF MissingIn, wanted

ReasonOf(known, row) ==
  IF row.event.payment \notin known THEN "payment_not_found"
  ELSE IF /\ row.event.type \in PaymentStatuses
          /\ row.event.type # payments[row.event.payment].status
       THEN "event_type_mismatch" ELSE None

MismatchesIn(known, S) ==
  {EventFinding(row, "mismatch", ReasonOf(known, row)) :
     row \in {r \in S : ReasonOf(known, r) # None}}

LEMMA MismatchesAreOfRows ==
  ASSUME NEW X, NEW rows \in Seq(X), Distinct(rows), Identified(ToSet(rows)), NEW ids
  PROVE  ToSet(CorrelateEvents(ids, rows)) = MismatchesIn(ToSet(ids), ToSet(rows))
<1> DEFINE known == ToSet(ids)
           wanted == {row \in ToSet(rows) : ReasonOf(known, row) # None}
           found == Where(Sorted(rows), wanted)
<1>1. Sorted(rows) \in Seq(X) /\ ToSet(Sorted(rows)) = ToSet(rows)
  BY SortedRanks
<1>2. CorrelateEvents(ids, rows)
        = [n \in DOMAIN found |-> EventFinding(found[n], "mismatch", ReasonOf(known, found[n]))]
  BY DEF CorrelateEvents, ReasonOf
<1>3. wanted \subseteq ToSet(rows)
  OBVIOUS
<1> HIDE DEF wanted, known
<1>4. ToSet(found) = wanted
  <2>1. ToSet(found) = ToSet(rows) \cap wanted
    BY <1>1, WhereKeeps
  <2> QED
    BY <1>3, <2>1
<1> HIDE DEF found
<1>5. ToSet([n \in DOMAIN found |-> EventFinding(found[n], "mismatch", ReasonOf(known, found[n]))])
        = {EventFinding(row, "mismatch", ReasonOf(known, row)) : row \in wanted}
  BY <1>4 DEF ToSet
<1> QED
  BY <1>2, <1>5 DEF MismatchesIn, wanted, known

------------------------------------------------------------------------------
(* What is delivered is of a payment. *)

EventsArePayments == \A e \in DOMAIN events : events[e].payment \in DOMAIN payments

LEMMA DeliveredOfPayments == Spec => []EventsArePayments
<1>1. Init => EventsArePayments
  BY DEF Init, EventsArePayments
<1>2. ASSUME RowsInv, RowsInv', EventsArePayments, [Next]_vars PROVE EventsArePayments'
  <2>1. CASE Generated'
    BY <1>2, <2>1 DEF RowsInv, RowsAreConsistent, EventsFollowPayments, EventsArePayments
  <2>2. CASE Deliver
    <3>1. PICK event \in Deliveries :
            event.payment \in DOMAIN payments /\ events' = Append(events, event)
      BY <2>2 DEF Deliver
    <3>2. events \in Seq(WebhookEvent) /\ event \in WebhookEvent
      BY <1>2, ServiceAssumption DEF RowsInv, TypeOK
    <3>3. payments' = payments
      BY <2>2 DEF Deliver
    <3>4. \A e \in DOMAIN events' :
            (e \in DOMAIN events /\ events'[e] = events[e]) \/ events'[e] = event
      BY <3>1, <3>2
    <3> QED
      BY <1>2, <3>1, <3>3, <3>4 DEF EventsArePayments
  <2>3. CASE UNCHANGED vars
    BY <1>2, <2>3 DEF vars, tables, EventsArePayments
  <2>4. CASE Draw \/ StartPlanting \/ PlantSpike \/ PlantDelay \/ Settle
    <3>1. Generated'
      BY <2>4 DEF Generated, Draw, StartPlanting, PlantSpike, PlantDelay, Settle
    <3> QED
      BY <2>1, <3>1
  <2> QED
    BY <1>2, <2>2, <2>3, <2>4 DEF Next
<1> QED
  BY <1>1, <1>2, RowsInvariant, PTL DEF Spec

------------------------------------------------------------------------------
(* The rows of a window. *)

LEMMA WindowRows ==
  ASSUME TablesInv, EventsArePayments, NEW window,
         NEW S, S = EventRows(window, AnyMerchant, AnyPayment),
         NEW known, known = PaymentRows(window, AnyMerchant, AnyPayment)
  PROVE  /\ IsFiniteSet(S) /\ Identified(S) /\ IsFiniteSet(known)
         /\ \A row \in S : /\ row.event \in WebhookEvent
                           /\ row.event.payment \in DOMAIN payments
         /\ \A e \in DOMAIN events :
              In(events[e].at, window) => \E row \in S : row.event = events[e]
         /\ \A row \in S : row.event.payment \in known <=> In(payments[row.event.payment].at, window)
<1>1. events \in Seq(WebhookEvent)
  BY DEF TablesInv, RowsInv, TypeOK
<1>2. S = {Row(e) : e \in {d \in DOMAIN events : In(events[d].at, window)}}
  BY DEF EventRows, AnyMerchant, AnyPayment
<1>3. known = {id \in DOMAIN payments : In(payments[id].at, window)}
  BY DEF PaymentRows, AnyMerchant, AnyPayment
<1>4. IsFiniteSet(known)
  <2>1. known \in SUBSET DOMAIN payments
    BY <1>3
  <2> QED
    BY <2>1, TablesAreFinite, FS_Subset
<1>5. IsFiniteSet(S)
  <2> DEFINE E == {d \in DOMAIN events : In(events[d].at, window)}
             f == [e \in E |-> Row(e)]
  <2>1. E \in SUBSET DOMAIN events
    OBVIOUS
  <2>2. IsFiniteSet(E)
    BY <2>1, TablesAreFinite, FS_Subset
  <2> HIDE DEF E
  <2>3. f \in Surjection(E, {Row(e) : e \in E})
    BY DEF Surjection
  <2>4. IsFiniteSet({Row(e) : e \in E})
    BY <2>2, <2>3, FS_Surjection
  <2> QED
    BY <1>2, <2>4 DEF E
<1>6. ASSUME NEW row \in S
      PROVE  \E e \in DOMAIN events :
               row.id = e /\ row.event = events[e] /\ row = Row(e)
  BY <1>2 DEF Row
<1>7. \A e \in DOMAIN events : e \in Int /\ events[e] \in WebhookEvent /\ events[e].at \in Int
  <2>1. \A e \in DOMAIN events : e \in Int /\ events[e] \in WebhookEvent
    BY <1>1
  <2>2. \A event \in WebhookEvent : event.at \in Int
    BY DEF WebhookEvent
  <2> QED
    BY <2>1, <2>2
<1>8. Identified(S)
  BY <1>6, <1>7 DEF Identified
<1>9. ASSUME NEW row \in S
      PROVE  row.event \in WebhookEvent /\ row.event.payment \in DOMAIN payments
  BY <1>6, <1>7 DEF EventsArePayments
<1>10. ASSUME NEW e \in DOMAIN events, In(events[e].at, window)
       PROVE  \E row \in S : row.event = events[e]
  <2>1. Row(e) \in S /\ Row(e).event = events[e]
    BY <1>2, <1>10 DEF Row
  <2> QED
    BY <2>1
<1> QED
  BY <1>3, <1>4, <1>5, <1>8, <1>9, <1>10

\* Rows that are read in some order.
Read(rows, S) ==
  /\ rows \in Seq(S) /\ Distinct(rows) /\ ToSet(rows) = S
  /\ IsFiniteSet(S) /\ Identified(S)
  /\ \A row \in S : row.event \in WebhookEvent

LEMMA KindsNow ==
  ASSUME NEW S, NEW rows, Read(rows, S)
  PROVE  KindsOfDelivery(rows)
<1> DEFINE Ids2(class) == UNION {f.ids : f \in FoundIn(S, DELAY_THRESHOLD, class)}
           Kind(row) == ClassifyDelivery(row.event, DELAY_THRESHOLD)
<1>1. /\ ToSet(FindDelayedEvents(rows, DELAY_THRESHOLD)) = FoundIn(S, DELAY_THRESHOLD, "delayed")
      /\ ToSet(FindFailedDeliveries(rows)) = FoundIn(S, DELAY_THRESHOLD, "failed")
  BY ClassesAreOfRows DEF Read, FindDelayedEvents, FindFailedDeliveries
<1>2. ASSUME NEW class, NEW id
      PROVE  id \in Ids2(class) <=> \E row \in S : Kind(row) = class /\ row.id = id
  <2>1. \A row : EventFinding(row, class, None).ids = {row.id}
    BY DEF EventFinding, Finding
  <2>2. FoundIn(S, DELAY_THRESHOLD, class)
          = {EventFinding(row, class, None) : row \in {r \in S : Kind(r) = class}}
    BY DEF FoundIn
  <2>3. ASSUME id \in Ids2(class) PROVE \E row \in S : Kind(row) = class /\ row.id = id
    <3>1. PICK f \in FoundIn(S, DELAY_THRESHOLD, class) : id \in f.ids
      BY <2>3
    <3>2. PICK row \in S : Kind(row) = class /\ f = EventFinding(row, class, None)
      BY <2>2, <3>1
    <3>3. row.id = id
      BY <2>1, <3>1, <3>2
    <3> QED
      BY <3>2, <3>3
  <2>4. ASSUME NEW row \in S, Kind(row) = class, row.id = id PROVE id \in Ids2(class)
    <3>1. EventFinding(row, class, None) \in FoundIn(S, DELAY_THRESHOLD, class)
      BY <2>2, <2>4
    <3>2. id \in EventFinding(row, class, None).ids
      BY <2>1, <2>4
    <3> QED
      BY <3>1, <3>2
  <2> HIDE DEF Ids2, Kind
  <2> QED
    BY <2>3, <2>4
<1>3. \A a, b \in S : a.id = b.id => a = b
  BY DEF Read, Identified
<1> HIDE DEF Ids2, Kind
<1>4. Ids2("delayed") \cap Ids2("failed") = {}
  BY <1>2, <1>3
<1>5. ASSUME NEW row \in S, row.id \notin Ids2("delayed") \cup Ids2("failed")
      PROVE  /\ row.event.delay < DELAY_THRESHOLD
             /\ row.event.delivery_status \in {"delivered", "pending"}
  <2>1. Kind(row) # "delayed" /\ Kind(row) # "failed"
    BY <1>2, <1>5
  <2>2. row.event.delay \in Nat /\ row.event.delivery_status \in DeliveryStatuses
    <3>1. row.event \in WebhookEvent
      BY DEF Read
    <3> QED
      BY <3>1 DEF WebhookEvent
  <2> QED
    BY <2>1, <2>2 DEF Kind, ClassifyDelivery, DeliveryStatuses, DELAY_THRESHOLD
<1>6. ToSet(rows) = S
  BY DEF Read
<1> QED
  BY <1>1, <1>4, <1>5, <1>6 DEF KindsOfDelivery, Ids2

\* Two rows are in one finding about a class exactly when they are of it.
LEMMA InOneClass ==
  ASSUME NEW S, Identified(S), NEW key, NEW kind, NEW r \in S, NEW a \in S, NEW b \in S
  PROVE  {a.id, b.id} \subseteq FindingOf(kind, S, key, r).ids
           <=> key[a] = key[r] /\ key[b] = key[r]
<1>1. FindingOf(kind, S, key, r).ids = {row.id : row \in ClassOf(S, key, r)}
  BY DEF FindingOf, Finding
<1>2. ASSUME NEW c \in S PROVE c.id \in {row.id : row \in ClassOf(S, key, r)} <=> key[c] = key[r]
  BY DEF ClassOf, Identified
<1> QED
  BY <1>1, <1>2

LEMMA RepeatsNow ==
  ASSUME NEW S, NEW rows, Read(rows, S)
  PROVE  RepeatsAreReported(rows)
<1> DEFINE T == WithKey(S)
           In2(finding, r1, r2) == {r1.id, r2.id} \subseteq finding.ids
<1>1. ToSet(FindRetries(rows)) = RetriesIn(S) /\ ToSet(FindDuplicateEvents(rows)) = DuplicatesIn(S)
  BY RetriesAreOfRows, DuplicatesAreOfRows DEF Read
<1>2. Identified(S) /\ Identified(T) /\ T \subseteq S /\ ToSet(rows) = S
  BY DEF Read, Identified, WithKey
<1>3. \A a, b \in S : PairKey(S)[a] = PairKey(S)[b] <=> SameDelivery(a, b)
  BY DEF PairKey, SameDelivery
<1>4. \A a, b \in S : AttemptKey(S)[a] = AttemptKey(S)[b]
                        <=> SameDelivery(a, b) /\ a.event.attempt = b.event.attempt
  BY DEF AttemptKey, SameDelivery
<1>5. \A a, b \in T : KeyKey(T)[a] = KeyKey(T)[b]
                        <=> SameDelivery(a, b) /\ a.event.idempotency_key = b.event.idempotency_key
  BY DEF KeyKey, SameDelivery
<1>6. \A a \in S : a \in T <=> a.event.idempotency_key # None
  BY DEF WithKey
<1> HIDE DEF T
<1> SUFFICES ASSUME NEW r1 \in S, NEW r2 \in S, r1 # r2
             PROVE  /\ SameDelivery(r1, r2) =>
                         \/ \E f \in RetriesIn(S) : In2(f, r1, r2)
                         \/ \E f \in DuplicatesIn(S) : f.payment = r1.event.payment
                    /\ SameDelivery(r1, r2) /\ SameKeyOrAttempt(r1, r2) =>
                         \E f \in DuplicatesIn(S) : In2(f, r1, r2)
                    /\ \A f \in RetriesIn(S) : In2(f, r1, r2) =>
                         SameDelivery(r1, r2) /\ r1.event.attempt # r2.event.attempt
                    /\ \A f \in DuplicatesIn(S) : In2(f, r1, r2) =>
                         SameDelivery(r1, r2) /\ SameKeyOrAttempt(r1, r2)
  BY <1>1, <1>2 DEF RepeatsAreReported
\* A duplicate of two rows with one attempt.
<1>7. ASSUME NEW a \in S, NEW b \in S, a # b, SameDelivery(a, b), a.event.attempt = b.event.attempt
      PROVE  \E f \in DuplicatesIn(S) : In2(f, a, b) /\ f.payment = a.event.payment
  <2> DEFINE f == FindingOf("duplicate", S, AttemptKey(S), a)
  <2>1. AttemptKey(S)[b] = AttemptKey(S)[a]
    BY <1>4, <1>7 DEF SameDelivery
  <2>2. Repeated(ClassOf(S, AttemptKey(S), a))
    BY <1>7, <2>1 DEF Repeated, ClassOf
  <2>3. f \in DuplicatesIn(S)
    BY <2>2 DEF DuplicatesIn, RepeatsOf
  <2>4. f.payment = a.event.payment
    BY DEF FindingOf, Finding
  <2>5. In2(f, a, b)
    BY <1>2, <2>1, InOneClass
  <2> QED
    BY <2>3, <2>4, <2>5
\* And of two with one key.
<1>8. ASSUME NEW a \in T, NEW b \in T, a # b, SameDelivery(a, b),
             a.event.idempotency_key = b.event.idempotency_key
      PROVE  \E f \in DuplicatesIn(S) : In2(f, a, b)
  <2> DEFINE f == FindingOf("duplicate", T, KeyKey(T), a)
  <2>1. KeyKey(T)[b] = KeyKey(T)[a]
    BY <1>5, <1>8 DEF SameDelivery
  <2>2. Repeated(ClassOf(T, KeyKey(T), a))
    BY <1>8, <2>1 DEF Repeated, ClassOf
  <2>3. f \in DuplicatesIn(S)
    BY <2>2 DEF DuplicatesIn, RepeatsOf, T
  <2>4. In2(f, a, b)
    BY <1>2, <2>1, InOneClass
  <2> QED
    BY <2>3, <2>4
<1>9. ASSUME SameDelivery(r1, r2), SameKeyOrAttempt(r1, r2)
      PROVE  \E f \in DuplicatesIn(S) : In2(f, r1, r2)
  <2>1. CASE r1.event.attempt = r2.event.attempt
    BY <1>7, <1>9, <2>1
  <2>2. CASE r1.event.idempotency_key = r2.event.idempotency_key /\ r1.event.idempotency_key # None
    BY <1>6, <1>8, <1>9, <2>2
  <2> QED
    BY <1>9, <2>1, <2>2 DEF SameKeyOrAttempt
<1>10. ASSUME SameDelivery(r1, r2)
       PROVE  \/ \E f \in RetriesIn(S) : In2(f, r1, r2)
              \/ \E f \in DuplicatesIn(S) : f.payment = r1.event.payment
  <2> DEFINE C == ClassOf(S, PairKey(S), r1)
             f == FindingOf("retry", S, PairKey(S), r1)
  <2>1. PairKey(S)[r2] = PairKey(S)[r1]
    BY <1>3, <1>10 DEF SameDelivery
  <2>2. \A c \in C : c \in S /\ SameDelivery(c, r1)
    BY <1>3 DEF ClassOf
  <2>3. CASE RetriedClass(C)
    <3>1. f \in RetriesIn(S)
      BY <2>3 DEF RetriesIn
    <3>2. In2(f, r1, r2)
      BY <1>2, <2>1, InOneClass
    <3> QED
      BY <3>1, <3>2
  <2>4. CASE ~RetriedClass(C)
    <3>1. Repeated(C)
      BY <2>1 DEF Repeated, ClassOf
    <3>2. PICK a, b \in C : a.event.attempt = b.event.attempt /\ a # b
      BY <2>4, <3>1 DEF RetriedClass
    <3>3. SameDelivery(a, b) /\ a.event.payment = r1.event.payment
      BY <2>2 DEF SameDelivery
    <3>4. \E g \in DuplicatesIn(S) : In2(g, a, b) /\ g.payment = a.event.payment
      BY <1>7, <2>2, <3>2, <3>3
    <3> QED
      BY <3>3, <3>4
  <2> QED
    BY <2>3, <2>4
<1>11. ASSUME NEW f \in RetriesIn(S), In2(f, r1, r2)
       PROVE  SameDelivery(r1, r2) /\ r1.event.attempt # r2.event.attempt
  <2>1. PICK r \in S : RetriedClass(ClassOf(S, PairKey(S), r)) /\ f = FindingOf("retry", S, PairKey(S), r)
    BY DEF RetriesIn
  <2>2. PairKey(S)[r1] = PairKey(S)[r] /\ PairKey(S)[r2] = PairKey(S)[r]
    BY <1>2, <1>11, <2>1, InOneClass
  <2>3. SameDelivery(r1, r2)
    BY <1>3, <2>2
  <2>4. r1 \in ClassOf(S, PairKey(S), r) /\ r2 \in ClassOf(S, PairKey(S), r)
    BY <2>2 DEF ClassOf
  <2> QED
    BY <2>1, <2>3, <2>4 DEF RetriedClass
<1>12. ASSUME NEW f \in DuplicatesIn(S), In2(f, r1, r2)
       PROVE  SameDelivery(r1, r2) /\ SameKeyOrAttempt(r1, r2)
  <2>1. CASE f \in RepeatsOf(S, AttemptKey(S))
    <3>1. PICK r \in S : f = FindingOf("duplicate", S, AttemptKey(S), r)
      BY <2>1 DEF RepeatsOf
    <3>2. AttemptKey(S)[r1] = AttemptKey(S)[r] /\ AttemptKey(S)[r2] = AttemptKey(S)[r]
      BY <1>2, <1>12, <3>1, InOneClass
    <3> QED
      BY <1>4, <3>2 DEF SameKeyOrAttempt
  <2>2. CASE f \in RepeatsOf(T, KeyKey(T))
    <3>1. PICK r \in T : f = FindingOf("duplicate", T, KeyKey(T), r)
      BY <2>2 DEF RepeatsOf
    <3>2. f.ids = {row.id : row \in ClassOf(T, KeyKey(T), r)}
      BY <3>1 DEF FindingOf, Finding
    <3>3. r1 \in T /\ r2 \in T
      <4>1. PICK a, b \in T : a.id = r1.id /\ b.id = r2.id
        BY <1>12, <3>2 DEF ClassOf
      <4> QED
        BY <1>2, <4>1 DEF Identified
    <3>4. KeyKey(T)[r1] = KeyKey(T)[r] /\ KeyKey(T)[r2] = KeyKey(T)[r]
      BY <1>2, <1>12, <3>1, <3>3, InOneClass
    <3>5. SameDelivery(r1, r2) /\ r1.event.idempotency_key = r2.event.idempotency_key
      BY <1>5, <3>3, <3>4
    <3> QED
      BY <1>6, <3>3, <3>5 DEF SameKeyOrAttempt
  <2> QED
    BY <1>12, <2>1, <2>2 DEF DuplicatesIn, T
<1> QED
  BY <1>9, <1>10, <1>11, <1>12

LEMMA CorrelationsNow ==
  ASSUME TablesInv, EventsArePayments, NEW window,
         NEW S, S = EventRows(window, AnyMerchant, AnyPayment),
         NEW known, known = PaymentRows(window, AnyMerchant, AnyPayment),
         NEW ids, ids \in Seq(known), ToSet(ids) = known,
         NEW rows, Read(rows, S)
  PROVE  CorrelationsAreFair(window, ids, rows)
<1> DEFINE missing == {f.payment : f \in MissingIn(known, S)}
           mismatches == MismatchesIn(known, S)
<1>1. /\ ToSet(FindMissingEvents(ids, rows)) = MissingIn(known, S)
      /\ ToSet(CorrelateEvents(ids, rows)) = mismatches
  BY MissingAreOfRows, MismatchesAreOfRows DEF Read
<1>2. /\ \A e \in DOMAIN events :
           In(events[e].at, window) => \E row \in S : row.event = events[e]
      /\ \A row \in S : row.event.payment \in known <=> In(payments[row.event.payment].at, window)
  BY WindowRows
<1>3. ASSUME NEW id \in missing PROVE \A row \in S : row.event.payment # id
  <2>1. PICK f \in MissingIn(known, S) : id = f.payment
    OBVIOUS
  <2>2. PICK i \in known : f = Finding("missing", i, {}, None) /\ \A row \in S : row.event.payment # i
    BY <2>1 DEF MissingIn
  <2>3. f.payment = i
    BY <2>2 DEF Finding
  <2> QED
    BY <2>1, <2>2, <2>3
<1>4. ASSUME NEW f \in mismatches
      PROVE  \E row \in S : /\ f.payment = row.event.payment
                            /\ f.reason = ReasonOf(known, row)
                            /\ ReasonOf(known, row) # None
  <2>1. PICK row \in S : /\ f = EventFinding(row, "mismatch", ReasonOf(known, row))
                         /\ ReasonOf(known, row) # None
    BY DEF MismatchesIn
  <2>2. f.payment = row.event.payment /\ f.reason = ReasonOf(known, row)
    BY <2>1 DEF EventFinding, Finding
  <2> QED
    BY <2>1, <2>2
<1> HIDE DEF missing, mismatches
<1>5. \A id \in ToSet(ids) : id \in missing =>
        \A e \in DOMAIN events : events[e].payment = id => ~In(events[e].at, window)
  BY <1>2, <1>3
<1>6. ASSUME NEW f \in mismatches
      PROVE  (f.reason = "payment_not_found") <=> ~In(payments[f.payment].at, window)
  <2>1. PICK row \in S : /\ f.payment = row.event.payment
                         /\ f.reason = ReasonOf(known, row)
                         /\ ReasonOf(known, row) # None
    BY <1>4
  <2>2. ReasonOf(known, row) = "payment_not_found" <=> row.event.payment \notin known
    BY <2>1 DEF ReasonOf
  <2> QED
    BY <1>2, <2>1, <2>2
<1>7. missing \cap {f.payment : f \in mismatches} = {}
  BY <1>3, <1>4
<1> QED
  BY <1>1, <1>5, <1>6, <1>7 DEF CorrelationsAreFair, missing

\* What an operation finds, in whatever order it reads.
LEMMA OrdersAgree ==
  ASSUME NEW S, NEW rows, NEW others, Read(rows, S), Read(others, S),
         NEW known, NEW ids \in Seq(known), NEW more \in Seq(known),
         ToSet(ids) = known, ToSet(more) = known,
         NEW operation \in Operations, NEW threshold, NEW payment
  PROVE  /\ ToSet(Analyse(operation, ids, rows, threshold, payment))
              = ToSet(Analyse(operation, more, others, threshold, payment))
         /\ operation \in SortedOperations =>
              Analyse(operation, ids, rows, threshold, payment)
                = Analyse(operation, more, others, threshold, payment)
<1>1. Sorted(rows) = Sorted(others) /\ ToSet(rows) = ToSet(others)
  <2>1. Len(rows) = Cardinality(S) /\ Len(others) = Cardinality(S)
    BY LengthIsSize DEF Read
  <2> QED
    BY <2>1, SortedAgree DEF Read
<1>2. CASE operation = "get_events_for_payment"
  <2>1. EventsForPayment(rows, payment) = EventsForPayment(others, payment)
    BY <1>1 DEF EventsForPayment
  <2> QED
    BY <1>2, <2>1, Zenon DEF Analyse
<1>3. CASE operation = "find_missing_events"
  <2>1. ToSet(FindMissingEvents(ids, rows)) = ToSet(FindMissingEvents(more, others))
    BY <1>1, MissingAreOfRows
  <2>2. \A i, r : Analyse("find_missing_events", i, r, threshold, payment) = FindMissingEvents(i, r)
    BY Zenon DEF Analyse
  <2> QED
    BY <1>3, <2>1, <2>2 DEF SortedOperations
<1>4. CASE operation = "find_delayed_events"
  <2>1. FindDelayedEvents(rows, threshold) = FindDelayedEvents(others, threshold)
    BY <1>1 DEF FindDelayedEvents, FindOfClass
  <2> QED
    BY <1>4, <2>1, Zenon DEF Analyse
<1>5. CASE operation = "get_delivery_failures"
  <2>1. FindFailedDeliveries(rows) = FindFailedDeliveries(others)
    BY <1>1 DEF FindFailedDeliveries, FindOfClass
  <2> QED
    BY <1>5, <2>1, Zenon DEF Analyse
<1>6. CASE operation = "find_retries"
  <2>1. ToSet(FindRetries(rows)) = ToSet(FindRetries(others))
    BY <1>1, RetriesAreOfRows DEF Read
  <2>2. \A i, r : Analyse("find_retries", i, r, threshold, payment) = FindRetries(r)
    BY Zenon DEF Analyse
  <2> QED
    BY <1>6, <2>1, <2>2 DEF SortedOperations
<1>7. CASE operation = "find_duplicate_events"
  <2>1. ToSet(FindDuplicateEvents(rows)) = ToSet(FindDuplicateEvents(others))
    BY <1>1, DuplicatesAreOfRows DEF Read
  <2>2. \A i, r : Analyse("find_duplicate_events", i, r, threshold, payment) = FindDuplicateEvents(r)
    BY Zenon DEF Analyse
  <2> QED
    BY <1>7, <2>1, <2>2 DEF SortedOperations
<1>8. CASE operation = "correlate_events_and_payments"
  <2>1. CorrelateEvents(ids, rows) = CorrelateEvents(more, others)
    BY <1>1 DEF CorrelateEvents
  <2> QED
    BY <1>8, <2>1, Zenon DEF Analyse
<1> QED
  BY <1>2, <1>3, <1>4, <1>5, <1>6, <1>7, <1>8 DEF Operations

\* A set of equal things, one at least.
LEMMA OneThing ==
  ASSUME NEW things, NEW x \in things, \A y \in things : y = x
  PROVE  Cardinality(things) = 1
<1>1. things = {x}
  OBVIOUS
<1> QED
  BY <1>1, FS_Singleton

LEMMA RowOrderNow ==
  ASSUME TablesInv, EventsArePayments, NEW window
  PROVE  RowOrderDoesNotMatter(window)
<1> DEFINE S == EventRows(window, AnyMerchant, AnyPayment)
           known == PaymentRows(window, AnyMerchant, AnyPayment)
<1>1. IsFiniteSet(S) /\ Identified(S) /\ IsFiniteSet(known) /\ \A row \in S : row.event \in WebhookEvent
  BY WindowRows
<1> HIDE DEF S, known
<1>2. /\ SetToSeq(S) \in SetToSeqs(S) /\ SetToSeq(known) \in SetToSeqs(known)
      /\ \A rows \in SetToSeqs(S) : Read(rows, S)
      /\ \A ids \in SetToSeqs(known) : ids \in Seq(known) /\ ToSet(ids) = known
  BY <1>1, ListsOfSet DEF Read
<1>3. \A operation \in Operations :
        FoundAlike(operation, {Analyse(operation, i, r, DELAY_THRESHOLD, 1) :
                                 i \in SetToSeqs(known), r \in SetToSeqs(S)})
  <2> TAKE operation \in Operations
  <2> DEFINE found == {Analyse(operation, i, r, DELAY_THRESHOLD, 1) :
                         i \in SetToSeqs(known), r \in SetToSeqs(S)}
             first == Analyse(operation, SetToSeq(known), SetToSeq(S), DELAY_THRESHOLD, 1)
  <2>1. first \in found
    BY <1>2
  <2>2. \A f \in found :
          ToSet(f) = ToSet(first) /\ (operation \in SortedOperations => f = first)
    BY <1>2, OrdersAgree
  <2> HIDE DEF first, found
  <2>3. Cardinality({ToSet(f) : f \in found}) = 1
    <3>1. ToSet(first) \in {ToSet(f) : f \in found} /\ \A y \in {ToSet(f) : f \in found} : y = ToSet(first)
      BY <2>1, <2>2
    <3> QED
      BY <3>1, OneThing
  <2>4. ASSUME operation \in SortedOperations PROVE Cardinality({Wrap(f) : f \in found}) = 1
    <3>1. Wrap(first) \in {Wrap(f) : f \in found} /\ \A y \in {Wrap(f) : f \in found} : y = Wrap(first)
      BY <2>1, <2>2, <2>4
    <3> QED
      BY <3>1, OneThing
  <2>5. FoundAlike(operation, found)
    BY <2>3, <2>4 DEF FoundAlike
  <2> QED
    BY <2>5 DEF found
<1> QED
  BY <1>3 DEF RowOrderDoesNotMatter, S, known

LEMMA FindingsNow ==
  ASSUME TablesInv, EventsArePayments
  PROVE  FindingsAreRight
<1> SUFFICES ASSUME NEW window \in Orders,
                    NEW ids, ids = SetToSeq(PaymentRows(window, AnyMerchant, AnyPayment)),
                    NEW rows, rows = SetToSeq(EventRows(window, AnyMerchant, AnyPayment))
             PROVE  /\ RowOrderDoesNotMatter(window) /\ KindsOfDelivery(rows)
                    /\ RepeatsAreReported(rows) /\ CorrelationsAreFair(window, ids, rows)
  BY DEF FindingsAreRight
<1> DEFINE S == EventRows(window, AnyMerchant, AnyPayment)
           known == PaymentRows(window, AnyMerchant, AnyPayment)
<1>1. IsFiniteSet(S) /\ Identified(S) /\ IsFiniteSet(known) /\ \A row \in S : row.event \in WebhookEvent
  BY WindowRows
<1>2. Read(rows, S)
  <2> HIDE DEF S
  <2>1. rows \in SetToSeqs(S)
    BY <1>1, ListsOfSet DEF S
  <2> QED
    BY <1>1, <2>1, ListsOfSet DEF Read
<1>3. ids \in Seq(known) /\ ToSet(ids) = known
  <2> HIDE DEF known
  <2>1. ids \in SetToSeqs(known)
    BY <1>1, ListsOfSet DEF known
  <2> QED
    BY <1>1, <2>1, ListsOfSet
<1>4. CorrelationsAreFair(window, ids, rows)
  BY <1>2, <1>3, CorrelationsNow
<1>5. KindsOfDelivery(rows) /\ RepeatsAreReported(rows)
  <2> HIDE DEF S
  <2> QED
    BY <1>2, KindsNow, RepeatsNow
<1> QED
  BY <1>4, <1>5, RowOrderNow

\* Deliveries that come again, late, out of order or with another status are
\* found under the kinds that describe them, and the same is found in whatever
\* order the rows are read, whatever is delivered and for every window.
THEOREM DeliveriesAreFound == Spec => []FindingsAreRight
  BY TablesInvariant, DeliveredOfPayments, FindingsNow, PTL
=============================================================================
