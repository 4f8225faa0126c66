---------------------------- MODULE NumbersProofs -----------------------------
(***************************************************************************)
(* Theorems about the components of Center that add up: the traffic that   *)
(* is counted, and the reports and dashboards with the money they show.    *)
(* What a sum over a finite set does when the set, its parts or the        *)
(* summands change comes first.                                            *)
(***************************************************************************)
EXTENDS Center, FiniteSets, FiniteSetTheorems, SequenceTheorems, WellFoundedInduction, TLAPS

-----------------------------------------------------------------------------
(* Sums *)

\* Subsets of a finite set of which none is bad unless a smaller one is.
LEMMA NoneIsBad ==
    ASSUME NEW S, IsFiniteSet(S), NEW bad, bad \subseteq SUBSET S,
           \A s \in SUBSET S : (\A r \in SUBSET s : r # s => r \notin bad) => s \notin bad
    PROVE  bad = {}
<1> SUFFICES ASSUME bad # {} PROVE FALSE
  OBVIOUS
<1>1. FiniteSubsetsOf(S) = SUBSET S
  BY FS_FiniteSubsetsOfFinite
<1>2. PICK s \in bad : \A r \in bad : <<r, s>> \notin StrictSubsetOrdering(S)
  BY <1>1, FS_StrictSubsetOrderingWellFounded, WFMin
<1>3. \A r \in SUBSET s : r # s => <<r, s>> \in StrictSubsetOrdering(S)
  BY <1>2 DEF StrictSubsetOrdering
<1>4. \A r \in SUBSET s : r # s => r \notin bad
  <2> SUFFICES ASSUME NEW r \in SUBSET s, r # s, r \in bad
               PROVE  FALSE
    OBVIOUS
  <2>1. <<r, s>> \in StrictSubsetOrdering(S)
    BY <1>3
  <2> QED
    BY <1>2, <2>1
<1> QED
  BY <1>2, <1>4

Choice(s) == CHOOSE x \in s : TRUE

IsSum(it, f, S) ==
    it = [s \in SUBSET S |-> IF s = {} THEN 0 ELSE f[Choice(s)] + it[s \ {Choice(s)}]]

Sum(f, S) == (CHOOSE it : IsSum(it, f, S))[S]

LEMMA Chosen ==
    ASSUME NEW s, s # {}
    PROVE  Choice(s) \in s /\ s \ {Choice(s)} \in SUBSET s /\ s \ {Choice(s)} # s
  BY DEF Choice

Alike(f, g, S) == \A x \in S : f[x] = g[x]

LEMMA SumsAgree ==
    ASSUME NEW S, NEW T, NEW R, IsFiniteSet(R), R \subseteq S, R \subseteq T,
           NEW f, NEW g, NEW it, NEW at, IsSum(it, f, S), IsSum(at, g, T), Alike(f, g, R)
    PROVE  it[R] = at[R]
<1> DEFINE bad == {s \in SUBSET R : it[s] # at[s]}
<1>1. ASSUME NEW s \in SUBSET R, \A r \in SUBSET s : r # s => r \notin bad
      PROVE  s \notin bad
  <2>1. /\ it[s] = IF s = {} THEN 0 ELSE f[Choice(s)] + it[s \ {Choice(s)}]
        /\ at[s] = IF s = {} THEN 0 ELSE g[Choice(s)] + at[s \ {Choice(s)}]
    <3>1. s \in SUBSET S /\ s \in SUBSET T
      OBVIOUS
    <3> QED
      BY <3>1, Zenon DEF IsSum
  <2>2. CASE s = {}
    BY <2>1, <2>2
  <2>3. CASE s # {}
    <3>1. Choice(s) \in R /\ s \ {Choice(s)} \in SUBSET R /\ s \ {Choice(s)} \notin bad
      BY <1>1, <2>3, Chosen
    <3>2. f[Choice(s)] = g[Choice(s)] /\ it[s \ {Choice(s)}] = at[s \ {Choice(s)}]
      BY <3>1 DEF Alike
    <3> QED
      BY <2>1, <2>3, <3>2
  <2> QED
    BY <2>2, <2>3
<1>2. bad \subseteq SUBSET R
  OBVIOUS
<1> HIDE DEF bad
<1>3. bad = {}
  BY <1>1, <1>2, NoneIsBad
<1> QED
  BY <1>3 DEF bad

LEMMA SumExists ==
    ASSUME NEW S, IsFiniteSet(S), NEW f
    PROVE  IsSum(CHOOSE it : IsSum(it, f, S), f, S)
<1> DEFINE Has(s) == \E it : IsSum(it, f, s)
           bad == {s \in SUBSET S : ~Has(s)}
<1>1. ASSUME NEW s \in SUBSET S, \A r \in SUBSET s : r # s => r \notin bad
      PROVE  s \notin bad
  <2> DEFINE it == [r \in SUBSET s |-> IF r = {} THEN 0
                                       ELSE f[Choice(r)] + Sum(f, r \ {Choice(r)})]
  <2>1. ASSUME NEW r \in SUBSET s, r # s
        PROVE  IsSum(CHOOSE h : IsSum(h, f, r), f, r) /\ IsFiniteSet(r)
    <3>1. r \in SUBSET S /\ Has(r)
      BY <1>1, <2>1
    <3>2. IsFiniteSet(r)
      BY <3>1, FS_Subset
    <3> QED
      BY <3>1, <3>2
  <2>2. ASSUME NEW r \in SUBSET s, r # s
        PROVE  Sum(f, r) = it[r]
    <3> DEFINE h == CHOOSE h : IsSum(h, f, r)
    <3>1. IsSum(h, f, r) /\ Sum(f, r) = h[r]
      BY <2>1, <2>2, Zenon DEF Sum
    <3>2. h[r] = IF r = {} THEN 0 ELSE f[Choice(r)] + h[r \ {Choice(r)}]
      BY <3>1, Zenon DEF IsSum
    <3>3. CASE r = {}
      BY <3>1, <3>2, <3>3
    <3>4. CASE r # {}
      <4> DEFINE q == r \ {Choice(r)}
                 k == CHOOSE k : IsSum(k, f, q)
      <4>1. q \in SUBSET s /\ q # s /\ q \subseteq r
        BY <2>2, <3>4, Chosen
      <4>2. IsSum(k, f, q) /\ IsFiniteSet(q) /\ Sum(f, q) = k[q]
        BY <2>1, <4>1, Zenon DEF Sum
      <4> HIDE DEF h, k
      <4>3. h[q] = k[q]
        <5>1. Alike(f, f, q)
          BY DEF Alike
        <5> QED
          BY <3>1, <4>1, <4>2, <5>1, SumsAgree
      <4> QED
        BY <2>2, <3>1, <3>2, <3>4, <4>2, <4>3
    <3> QED
      BY <3>3, <3>4
  <2>3. \A r \in SUBSET s : r # {} => Sum(f, r \ {Choice(r)}) = it[r \ {Choice(r)}]
    <3> SUFFICES ASSUME NEW r \in SUBSET s, r # {}
                 PROVE  Sum(f, r \ {Choice(r)}) = it[r \ {Choice(r)}]
      OBVIOUS
    <3>1. r \ {Choice(r)} \in SUBSET s /\ r \ {Choice(r)} # s
      BY Chosen
    <3> HIDE DEF it
    <3> QED
      BY <2>2, <3>1
  <2>4. it = [r \in SUBSET s |-> IF r = {} THEN 0 ELSE f[Choice(r)] + it[r \ {Choice(r)}]]
    BY <2>3
  <2>5. IsSum(it, f, s)
    BY <2>4, Zenon DEF IsSum
  <2> HIDE DEF it
  <2> QED
    BY <2>5
<1>2. bad \subseteq SUBSET S
  OBVIOUS
<1> HIDE DEF bad
<1>3. bad = {}
  BY <1>1, <1>2, NoneIsBad
<1>4. Has(S)
  BY <1>3 DEF bad
<1> QED
  BY <1>4

\* The sum as it unfolds.
LEMMA SumIs ==
    ASSUME NEW S, IsFiniteSet(S), NEW f
    PROVE  /\ Sum(f, {}) = 0
           /\ S # {} => Sum(f, S) = f[Choice(S)] + Sum(f, S \ {Choice(S)})
<1> DEFINE it == CHOOSE it : IsSum(it, f, S)
           none == CHOOSE none : IsSum(none, f, {})
<1>1. IsSum(it, f, S) /\ Sum(f, S) = it[S]
  BY SumExists, Zenon DEF Sum
<1>2. IsSum(none, f, {}) /\ Sum(f, {}) = none[{}]
  BY SumExists, FS_EmptySet, Zenon DEF Sum
<1>3. Sum(f, {}) = 0
  BY <1>2 DEF IsSum
<1>4. ASSUME S # {}
      PROVE  Sum(f, S) = f[Choice(S)] + Sum(f, S \ {Choice(S)})
  <2> DEFINE q == S \ {Choice(S)}
             k == CHOOSE k : IsSum(k, f, q)
  <2>1. it[S] = f[Choice(S)] + it[q]
    <3>1. it[S] = IF S = {} THEN 0 ELSE f[Choice(S)] + it[S \ {Choice(S)}]
      BY <1>1, Zenon DEF IsSum
    <3> QED
      BY <1>4, <3>1
  <2>2. IsFiniteSet(q) /\ q \subseteq S
    BY FS_Subset
  <2>3. IsSum(k, f, q) /\ Sum(f, q) = k[q]
    BY <2>2, SumExists, Zenon DEF Sum
  <2> HIDE DEF it, k, q
  <2>4. it[q] = k[q]
    <3>1. Alike(f, f, q) /\ q \subseteq q
      BY DEF Alike
    <3> QED
      BY <1>1, <2>2, <2>3, <3>1, SumsAgree
  <2> QED
    BY <1>1, <2>1, <2>3, <2>4 DEF q
<1> QED
  BY <1>3, <1>4

LEMMA SumEmpty == \A f : Sum(f, {}) = 0
  BY SumIs, FS_EmptySet

LEMMA SumSame ==
    ASSUME NEW S, IsFiniteSet(S), NEW f, NEW g, \A x \in S : f[x] = g[x]
    PROVE  Sum(f, S) = Sum(g, S)
<1>1. PICK it : IsSum(it, f, S) /\ Sum(f, S) = it[S]
  BY SumExists, Zenon DEF Sum
<1>2. PICK at : IsSum(at, g, S) /\ Sum(g, S) = at[S]
  BY SumExists, Zenon DEF Sum
<1>3. Alike(f, g, S) /\ S \subseteq S
  BY DEF Alike
<1> QED
  BY <1>1, <1>2, <1>3, SumsAgree

\* What a definition of the library has computed is the sum.
LEMMA SumUnfolds ==
    ASSUME NEW S, IsFiniteSet(S), NEW f, NEW it, IsSum(it, f, S)
    PROVE  it[S] = Sum(f, S)
<1>1. PICK at : IsSum(at, f, S) /\ Sum(f, S) = at[S]
  BY SumExists, Zenon DEF Sum
<1>2. Alike(f, f, S) /\ S \subseteq S
  BY DEF Alike
<1> QED
  BY <1>1, <1>2, SumsAgree

LEMMA SumType ==
    ASSUME NEW S, IsFiniteSet(S), NEW f, \A x \in S : f[x] \in Int
    PROVE  Sum(f, S) \in Int
<1> DEFINE bad == {s \in SUBSET S : Sum(f, s) \notin Int}
<1>1. ASSUME NEW s \in SUBSET S, \A r \in SUBSET s : r # s => r \notin bad
      PROVE  s \notin bad
  <2>1. IsFiniteSet(s)
    BY FS_Subset
  <2>2. CASE s = {}
    BY <2>2, SumEmpty
  <2>3. CASE s # {}
    <3>1. Choice(s) \in S /\ s \ {Choice(s)} \in SUBSET S /\ s \ {Choice(s)} \notin bad
      BY <1>1, <2>3, Chosen
    <3>2. f[Choice(s)] \in Int /\ Sum(f, s \ {Choice(s)}) \in Int
      BY <3>1
    <3>3. Sum(f, s) = f[Choice(s)] + Sum(f, s \ {Choice(s)})
      BY <2>1, <2>3, SumIs
    <3> QED
      BY <3>2, <3>3
  <2> QED
    BY <2>2, <2>3
<1>2. bad \subseteq SUBSET S
  OBVIOUS
<1> HIDE DEF bad
<1>3. bad = {}
  BY <1>1, <1>2, NoneIsBad
<1> QED
  BY <1>3 DEF bad

LEMMA SumNat ==
    ASSUME NEW S, IsFiniteSet(S), NEW f, \A x \in S : f[x] \in Nat
    PROVE  Sum(f, S) \in Nat
<1> DEFINE bad == {s \in SUBSET S : Sum(f, s) \notin Nat}
<1>1. ASSUME NEW s \in SUBSET S, \A r \in SUBSET s : r # s => r \notin bad
      PROVE  s \notin bad
  <2>1. IsFiniteSet(s)
    BY FS_Subset
  <2>2. CASE s = {}
    BY <2>2, SumEmpty
  <2>3. CASE s # {}
    <3>1. Choice(s) \in S /\ s \ {Choice(s)} \in SUBSET S /\ s \ {Choice(s)} \notin bad
      BY <1>1, <2>3, Chosen
    <3>2. f[Choice(s)] \in Nat /\ Sum(f, s \ {Choice(s)}) \in Nat
      BY <3>1
    <3>3. Sum(f, s) = f[Choice(s)] + Sum(f, s \ {Choice(s)})
      BY <2>1, <2>3, SumIs
    <3> QED
      BY <3>2, <3>3
  <2> QED
    BY <2>2, <2>3
<1>2. bad \subseteq SUBSET S
  OBVIOUS
<1> HIDE DEF bad
<1>3. bad = {}
  BY <1>1, <1>2, NoneIsBad
<1> QED
  BY <1>3 DEF bad

\* An element can be taken out of the sum.
LEMMA SumTakeOut ==
    ASSUME NEW S, IsFiniteSet(S), NEW f, \A y \in S : f[y] \in Int, NEW x \in S
    PROVE  Sum(f, S) = f[x] + Sum(f, S \ {x})
<1> DEFINE Apart(s, y) == Sum(f, s) = f[y] + Sum(f, s \ {y})
           bad == {s \in SUBSET S : ~\A y \in s : Apart(s, y)}
<1>1. ASSUME NEW s \in SUBSET S, \A r \in SUBSET s : r # s => r \notin bad
      PROVE  s \notin bad
  <2> SUFFICES ASSUME NEW y \in s PROVE Apart(s, y)
    OBVIOUS
  <2> DEFINE c == Choice(s)
  <2>1. IsFiniteSet(s) /\ c \in s /\ s \ {c} \in SUBSET s /\ s \ {c} # s
    BY FS_Subset, Chosen
  <2>2. Sum(f, s) = f[c] + Sum(f, s \ {c})
    BY <2>1, SumIs
  <2> HIDE DEF c
  <2>3. CASE c = y
    BY <2>2, <2>3
  <2>4. CASE c # y
    <3> DEFINE rest == s \ {c, y}
    <3>1. s \ {c} \notin bad /\ y \in s \ {c} /\ s \ {y} \notin bad /\ c \in s \ {y}
      BY <1>1, <2>1, <2>4
    <3>2. Apart(s \ {c}, y) /\ Apart(s \ {y}, c)
      BY <3>1
    <3>3. (s \ {c}) \ {y} = rest /\ (s \ {y}) \ {c} = rest
      OBVIOUS
    <3>4. Sum(f, s \ {c}) = f[y] + Sum(f, rest) /\ Sum(f, s \ {y}) = f[c] + Sum(f, rest)
      BY <3>2, <3>3
    <3>5. IsFiniteSet(rest) /\ rest \subseteq S
      BY <2>1, FS_Subset
    <3> HIDE DEF rest
    <3>6. Sum(f, rest) \in Int /\ f[c] \in Int /\ f[y] \in Int
      BY <2>1, <3>5, SumType
    <3> QED
      BY <2>2, <3>4, <3>6
  <2> QED
    BY <2>3, <2>4
<1>2. bad \subseteq SUBSET S
  OBVIOUS
<1> HIDE DEF bad
<1>3. bad = {}
  BY <1>1, <1>2, NoneIsBad
<1> QED
  BY <1>3 DEF bad

\* One summand changes.
LEMMA SumUpdate ==
    ASSUME NEW S, IsFiniteSet(S), NEW f, NEW g, NEW x \in S,
           \A y \in S : f[y] \in Int, g[x] \in Int, \A y \in S \ {x} : g[y] = f[y]
    PROVE  Sum(g, S) = Sum(f, S) - f[x] + g[x]
<1>1. IsFiniteSet(S \ {x}) /\ \A y \in S : g[y] \in Int
  BY FS_Subset
<1>2. Sum(f, S) = f[x] + Sum(f, S \ {x}) /\ Sum(g, S) = g[x] + Sum(g, S \ {x})
  BY <1>1, SumTakeOut
<1>3. Sum(g, S \ {x}) = Sum(f, S \ {x})
  BY <1>1, SumSame
<1>4. Sum(f, S \ {x}) \in Int
  BY <1>1, SumType
<1> QED
  BY <1>1, <1>2, <1>3, <1>4

Whole(f, S) == \A x \in S : f[x] \in Int

LEMMA SumChange ==
    ASSUME NEW S, IsFiniteSet(S), NEW f, NEW g, NEW x \in S,
           Whole(f, S), Whole(g, S), Alike(f, g, S \ {x})
    PROVE  Sum(g, S) = Sum(f, S) - f[x] + g[x]
<1>1. \A y \in S : f[y] \in Int
  BY DEF Whole
<1>2. g[x] \in Int
  BY DEF Whole
<1>3. \A y \in S \ {x} : g[y] = f[y]
  BY DEF Alike
<1> QED
  BY <1>1, <1>2, <1>3, SumUpdate

LEMMA SumAdd ==
    ASSUME NEW S, IsFiniteSet(S), NEW f, NEW g, NEW h,
           \A x \in S : f[x] \in Int /\ g[x] \in Int /\ h[x] = f[x] + g[x]
    PROVE  Sum(h, S) = Sum(f, S) + Sum(g, S)
<1> DEFINE bad == {s \in SUBSET S : Sum(h, s) # Sum(f, s) + Sum(g, s)}
<1>1. ASSUME NEW s \in SUBSET S, \A r \in SUBSET s : r # s => r \notin bad
      PROVE  s \notin bad
  <2>1. IsFiniteSet(s)
    BY FS_Subset
  <2>2. CASE s = {}
    BY <2>2, SumEmpty
  <2>3. CASE s # {}
    <3> DEFINE c == Choice(s)
               q == s \ {c}
    <3>1. c \in S /\ q \in SUBSET S /\ q \notin bad
      BY <1>1, <2>3, Chosen
    <3>2. Sum(h, q) = Sum(f, q) + Sum(g, q)
      BY <3>1
    <3>3. Sum(h, s) = h[c] + Sum(h, q) /\ Sum(f, s) = f[c] + Sum(f, q) /\ Sum(g, s) = g[c] + Sum(g, q)
      BY <2>1, <2>3, SumIs
    <3> HIDE DEF c
    <3>4. Sum(f, q) \in Int /\ Sum(g, q) \in Int /\ f[c] \in Int /\ g[c] \in Int /\ h[c] = f[c] + g[c]
      BY <2>1, <3>1, FS_Subset, SumType
    <3> QED
      BY <3>2, <3>3, <3>4
  <2> QED
    BY <2>2, <2>3
<1>2. bad \subseteq SUBSET S
  OBVIOUS
<1> HIDE DEF bad
<1>3. bad = {}
  BY <1>1, <1>2, NoneIsBad
<1> QED
  BY <1>3 DEF bad

LEMMA SumAtMost ==
    ASSUME NEW S, IsFiniteSet(S), NEW f, NEW g,
           \A x \in S : f[x] \in Int /\ g[x] \in Int /\ f[x] <= g[x]
    PROVE  Sum(f, S) <= Sum(g, S)
<1> DEFINE d == [x \in S |-> g[x] - f[x]]
<1>1. \A x \in S : f[x] \in Int /\ d[x] \in Nat /\ d[x] \in Int /\ g[x] = f[x] + d[x]
  OBVIOUS
<1> HIDE DEF d
<1>2. Sum(g, S) = Sum(f, S) + Sum(d, S)
  BY <1>1, SumAdd
<1>3. Sum(f, S) \in Int /\ Sum(d, S) \in Nat
  BY <1>1, SumType, SumNat
<1> QED
  BY <1>2, <1>3

LEMMA TwiceItself ==
    ASSUME NEW z \in Int, z = z + z
    PROVE  z = 0
OBVIOUS

LEMMA SumZero ==
    ASSUME NEW S, IsFiniteSet(S), NEW f, \A x \in S : f[x] = 0
    PROVE  Sum(f, S) = 0
<1>1. \A x \in S : f[x] \in Int /\ f[x] = f[x] + f[x]
  OBVIOUS
<1>2. Sum(f, S) = Sum(f, S) + Sum(f, S) /\ Sum(f, S) \in Int
  BY <1>1, SumAdd, SumType
<1> QED
  BY <1>2, TwiceItself, Zenon

LEMMA SumOne ==
    ASSUME NEW x, NEW f, f[x] \in Int
    PROVE  Sum(f, {x}) = f[x]
<1>1. IsFiniteSet({x}) /\ {x} \ {x} = {}
  BY FS_Singleton
<1>2. Sum(f, {x}) = f[x] + Sum(f, {x} \ {x})
  BY <1>1, SumTakeOut
<1>3. Sum(f, {x} \ {x}) = 0
  BY <1>1, SumEmpty, Zenon
<1>4. Sum(f, {x}) = f[x] + 0
  BY <1>2, <1>3, Zenon
<1>5. f[x] + 0 = f[x]
  OBVIOUS
<1> QED
  BY <1>4, <1>5, Zenon

\* Summing by rows and by columns.
LEMMA SumSwap ==
    ASSUME NEW S, IsFiniteSet(S), NEW T, IsFiniteSet(T), NEW F,
           \A x \in S : \A y \in T : F[x][y] \in Int
    PROVE  Sum([x \in S |-> Sum(F[x], T)], S)
             = Sum([y \in T |-> Sum([x \in S |-> F[x][y]], S)], T)
<1> DEFINE across == [x \in S |-> Sum(F[x], T)]
           down(y) == [x \in S |-> F[x][y]]
           total(s) == [y \in T |-> Sum(down(y), s)]
           bad == {s \in SUBSET S : Sum(across, s) # Sum(total(s), T)}
<1>1. ASSUME NEW s \in SUBSET S, \A r \in SUBSET s : r # s => r \notin bad
      PROVE  s \notin bad
  <2>1. IsFiniteSet(s)
    BY FS_Subset
  <2>2. CASE s = {}
    <3>1. \A y \in T : total(s)[y] = 0
      BY <2>2, SumEmpty
    <3> HIDE DEF total
    <3>2. Sum(total(s), T) = 0
      BY <3>1, SumZero
    <3> QED
      BY <2>2, <3>2, SumEmpty
  <2>3. CASE s # {}
    <3> DEFINE c == Choice(s)
               q == s \ {c}
    <3>1. c \in S /\ q \in SUBSET S /\ q \notin bad /\ IsFiniteSet(q)
      BY <1>1, <2>1, <2>3, Chosen, FS_Subset
    <3>2. Sum(across, q) = Sum(total(q), T)
      BY <3>1
    <3>3. Sum(across, s) = across[c] + Sum(across, q) /\ \A y \in T : Sum(down(y), s) = down(y)[c] + Sum(down(y), q)
      <4> HIDE DEF across, down
      <4> QED
        BY <2>1, <2>3, SumIs
    <3> HIDE DEF c, q
    <3>4. \A y \in T : down(y)[c] = F[c][y] /\ F[c][y] \in Int
      BY <3>1
    <3>5. \A y \in T : Sum(down(y), q) \in Int
      <4> SUFFICES ASSUME NEW y \in T PROVE Sum(down(y), q) \in Int
        OBVIOUS
      <4>1. \A x \in q : down(y)[x] \in Int
        BY <3>1
      <4> HIDE DEF down
      <4> QED
        BY <3>1, <4>1, SumType
    <3> HIDE DEF down
    <3>6. \A y \in T : F[c][y] \in Int /\ total(q)[y] \in Int /\ total(s)[y] = F[c][y] + total(q)[y]
      BY <3>3, <3>4, <3>5
    <3> HIDE DEF total
    <3>7. Sum(total(s), T) = Sum(F[c], T) + Sum(total(q), T)
      BY <3>6, SumAdd
    <3> QED
      BY <3>1, <3>2, <3>3, <3>7
  <2> QED
    BY <2>2, <2>3
<1>2. bad \subseteq SUBSET S
  OBVIOUS
<1> HIDE DEF bad
<1>3. bad = {}
  BY <1>1, <1>2, NoneIsBad
<1>4. S \notin bad
  BY <1>3
<1> QED
  BY <1>4 DEF bad

\* The order of the summands does not matter.
LEMMA SumOver ==
    ASSUME NEW S, IsFiniteSet(S), NEW T, IsFiniteSet(T), NEW b \in [S -> T],
           \A x, y \in S : b[x] = b[y] => x = y, \A y \in T : \E x \in S : b[x] = y,
           NEW f, NEW g, \A x \in S : f[x] = g[b[x]] /\ f[x] \in Int
    PROVE  Sum(f, S) = Sum(g, T)
<1> DEFINE image(s) == {b[x] : x \in s}
           bad == {s \in SUBSET S : Sum(f, s) # Sum(g, image(s))}
<1>1. ASSUME NEW s \in SUBSET S, \A r \in SUBSET s : r # s => r \notin bad
      PROVE  s \notin bad
  <2>1. IsFiniteSet(s) /\ image(s) \in SUBSET T /\ IsFiniteSet(image(s))
    <3>1. image(s) \in SUBSET T
      OBVIOUS
    <3> HIDE DEF image
    <3> QED
      BY <3>1, FS_Subset
  <2>2. CASE s = {}
    BY <2>2, SumEmpty
  <2>3. CASE s # {}
    <3> DEFINE c == Choice(s)
               q == s \ {c}
    <3>1. c \in s /\ q \in SUBSET S /\ q \notin bad
      BY <1>1, <2>3, Chosen
    <3>2. Sum(f, s) = f[c] + Sum(f, q)
      BY <2>1, <2>3, SumIs
    <3> HIDE DEF c
    <3>3. image(q) = image(s) \ {b[c]} /\ b[c] \in image(s)
      BY <3>1
    <3>4. \A y \in image(s) : g[y] \in Int
      OBVIOUS
    <3>5. Sum(f, q) = Sum(g, image(q))
      BY <3>1
    <3> HIDE DEF image
    <3>6. Sum(g, image(s)) = g[b[c]] + Sum(g, image(s) \ {b[c]})
      BY <2>1, <3>3, <3>4, SumTakeOut
    <3> QED
      BY <3>1, <3>2, <3>3, <3>5, <3>6
  <2> QED
    BY <2>2, <2>3
<1>2. bad \subseteq SUBSET S
  OBVIOUS
<1>3. image(S) = T
  OBVIOUS
<1> HIDE DEF bad
<1>4. bad = {}
  BY <1>1, <1>2, NoneIsBad
<1>5. Sum(f, S) = Sum(g, image(S))
  BY <1>4 DEF bad
<1> QED
  BY <1>3, <1>5

-----------------------------------------------------------------------------
(* Traffic *)

TrafficBase ==
    /\ IsFiniteSet(Metered) /\ IsFiniteSet(Process) /\ IsFiniteSet(Worker)
    /\ ProcessOf \in [Worker -> Process]
    /\ Minute \in Nat \ {0} /\ Hour \in Nat \ {0} /\ Span \in Nat \ {0} /\ History \in Nat \ {0}
    /\ Span <= History /\ MaxSeconds \in Nat /\ MaxHits \in Nat /\ MaxCrashes \in Nat
    /\ \A l \in Limits :
          /\ l.burst \in Nat
          /\ \A w \in traffic!Window : l.limit[w] \in (Nat \ {0}) \cup {Unlimited}

LEMMA TrafficBased ==
    ASSUME traffic!TrafficAssumption
    PROVE  TrafficBase
<1>1. \A S : traffic!IsFiniteSet(S) => IsFiniteSet(S)
  BY Zenon DEF IsFiniteSet, traffic!IsFiniteSet
<1>2. IsFiniteSet(Metered) /\ IsFiniteSet(Process) /\ IsFiniteSet(Worker)
  BY <1>1, Zenon DEF traffic!TrafficAssumption
<1>3. /\ ProcessOf \in [Worker -> Process]
      /\ Minute \in Nat \ {0} /\ Hour \in Nat \ {0} /\ Span \in Nat \ {0} /\ History \in Nat \ {0}
      /\ Span <= History /\ MaxSeconds \in Nat /\ MaxHits \in Nat /\ MaxCrashes \in Nat
  BY DEF traffic!TrafficAssumption
<1>4. \A l \in Limits : l.burst \in Nat /\ l.limit \in [{"rps", "rpm", "rph"} -> (Nat \ {0}) \cup {Unlimited}]
  BY DEF traffic!TrafficAssumption
<1> QED
  BY <1>2, <1>3, <1>4 DEF TrafficBase, traffic!Window

TrafficSlot == {s \in traffic!Slot : s.tt <= s.c4 /\ s.c4 + s.c5 <= s.n}

TrafficSlots == [Metered -> TrafficSlot]

\* The keys of one write.
TrafficGroups == {{"s", "n"}, {"c4"}, {"c5"}, {"tt"}, {"hn", "hc5"}}

TrafficHas(q, k) == \E i \in DOMAIN q : k \in q[i]

\* What a thread may still have to write of a client, in order: n before
\* everything else and c4 before tt, each of them once.
TrafficOrdered(q) ==
    \A i, j \in DOMAIN q :
        /\ "n" \in q[i] => i = 1
        /\ "tt" \in q[i] /\ "c4" \in q[j] => j < i
        /\ \A k \in q[i] : k \in q[j] => i = j

TrafficTodo == {q \in Seq(TrafficGroups) : TrafficOrdered(q)}

TrafficJob ==
    {traffic!Idle}
      \cup [step : {"add"}, tenant : Metered, at : 0 .. MaxSeconds, i : 1 .. 3]
      \cup [step : {"incr"}, tenant : Metered, at : 0 .. MaxSeconds, i : 1 .. 3, seen : Nat]
      \cup [step : {"view"}, tenant : Metered]
      \cup [step : {"record"}, tenant : Metered, status : {"refused", "ok", "c5"}]
      \cup [step : {"write"}, second : 0 .. MaxSeconds, slots : TrafficSlots, todo : [Metered -> TrafficTodo]]

TrafficBuffer == [second : 0 .. MaxSeconds, slots : TrafficSlots]

TrafficKeys == [Metered -> [traffic!Kind -> [0 .. MaxSeconds -> Nat]]]

TrafficTyped ==
    /\ now \in 0 .. MaxSeconds
    /\ policy \in [Metered -> Limits]
    /\ budget \in [traffic!Key -> [count : Nat, until : Nat]]
    /\ threads \in [Worker -> TrafficJob]
    /\ buffers \in [Process -> TrafficBuffer]
    /\ \A p \in Process : buffers[p].second <= now
    /\ keys \in TrafficKeys
    /\ requests \in 0 .. MaxHits /\ crashes \in 0 .. MaxCrashes
    /\ passed \in [traffic!Key -> Nat]
    /\ lapsed \subseteq traffic!Key
    /\ recorded \in [Metered -> Nat] /\ lost \in [Metered -> Nat]

LEMMA TrafficJobs ==
    ASSUME NEW j \in TrafficJob
    PROVE  /\ j.step \in {"idle", "add", "incr", "view", "record", "write"}
           /\ j.step = "idle" => j = traffic!Idle
           /\ j.step \in {"add", "incr"} => j.tenant \in Metered /\ j.at \in 0 .. MaxSeconds /\ j.i \in 1 .. 3
           /\ j.step \in {"view", "record"} => j.tenant \in Metered
           /\ j.step = "record" => j.status \in {"refused", "ok", "c5"}
           /\ j.step = "write" => j \in [step : {"write"}, second : 0 .. MaxSeconds, slots : TrafficSlots,
                                         todo : [Metered -> TrafficTodo]]
<1>1. CASE j = traffic!Idle
  BY <1>1 DEF traffic!Idle
<1>2. CASE j \in [step : {"add"}, tenant : Metered, at : 0 .. MaxSeconds, i : 1 .. 3]
  BY <1>2
<1>3. CASE j \in [step : {"incr"}, tenant : Metered, at : 0 .. MaxSeconds, i : 1 .. 3, seen : Nat]
  BY <1>3
<1>4. CASE j \in [step : {"view"}, tenant : Metered]
  BY <1>4
<1>5. CASE j \in [step : {"record"}, tenant : Metered, status : {"refused", "ok", "c5"}]
  BY <1>5
<1>6. CASE j \in [step : {"write"}, second : 0 .. MaxSeconds, slots : TrafficSlots,
                  todo : [Metered -> TrafficTodo]]
  BY <1>6
<1> QED
  BY <1>1, <1>2, <1>3, <1>4, <1>5, <1>6 DEF TrafficJob

LEMMA TrafficWindows ==
    /\ Len(traffic!Windows) = 3 /\ traffic!Windows[1] = "rps" /\ traffic!Windows[2] = "rpm"
    /\ traffic!Windows[3] = "rph"
    /\ \A i \in 1 .. 3 : traffic!Windows[i] \in traffic!Window
  BY DEF traffic!Windows, traffic!Window

LEMMA Quotients ==
    ASSUME NEW a \in Nat, NEW d \in Nat \ {0}
    PROVE  a \div d \in Nat /\ a \div d <= a
  OBVIOUS

LEMMA TrafficSeconds ==
    ASSUME TrafficBase, NEW w \in traffic!Window
    PROVE  traffic!Seconds(w) \in Nat \ {0}
  BY DEF TrafficBase, traffic!Seconds, traffic!Window

-----------------------------------------------------------------------------
(* What is in memory *)

\* What a thread still has to add to a client's n.
TrafficHeld(j, t) == IF j.step = "write" /\ TrafficHas(j.todo[t], "n") THEN j.slots[t].n ELSE 0

TrafficThreads(p) == {th \in Worker : ProcessOf[th] = p}

TrafficMemory(B, J, p, t) ==
    B[p].slots[t].n + Sum([th \in Worker |-> TrafficHeld(J[th], t)], TrafficThreads(p))

TrafficAll(B, J, t) == Sum([p \in Process |-> TrafficMemory(B, J, p, t)], Process)

LEMMA TrafficHeldIs ==
    ASSUME NEW j \in TrafficJob, NEW t \in Metered
    PROVE  TrafficHeld(j, t) \in Nat /\ (j.step # "write" => TrafficHeld(j, t) = 0)
<1>1. CASE j.step = "write"
  <2>1. j.slots \in TrafficSlots
    BY <1>1, TrafficJobs
  <2>2. j.slots[t].n \in Nat
    BY <2>1 DEF TrafficSlots, TrafficSlot, traffic!Slot
  <2> QED
    BY <1>1, <2>2 DEF TrafficHeld
<1>2. CASE j.step # "write"
  BY <1>2 DEF TrafficHeld
<1> QED
  BY <1>1, <1>2

LEMMA TrafficMemoryIs ==
    ASSUME TrafficBase, NEW J \in [Worker -> TrafficJob], NEW B \in [Process -> TrafficBuffer],
           NEW p \in Process, NEW t \in Metered
    PROVE  /\ IsFiniteSet(TrafficThreads(p)) /\ TrafficThreads(p) \subseteq Worker
           /\ \A th \in Worker : TrafficHeld(J[th], t) \in Nat
           /\ B[p].slots[t].n \in Nat
           /\ Sum([th \in Worker |-> TrafficHeld(J[th], t)], TrafficThreads(p)) \in Nat
           /\ TrafficMemory(B, J, p, t) \in Nat
<1>1. TrafficThreads(p) \subseteq Worker /\ IsFiniteSet(Worker)
  BY DEF TrafficThreads, TrafficBase
<1>2. IsFiniteSet(TrafficThreads(p))
  BY <1>1, FS_Subset
<1>3. \A th \in Worker : TrafficHeld(J[th], t) \in Nat
  BY TrafficHeldIs
<1>4. B[p].slots[t].n \in Nat
  BY DEF TrafficBuffer, TrafficSlots, TrafficSlot, traffic!Slot
<1> DEFINE held == [th \in Worker |-> TrafficHeld(J[th], t)]
<1>5. \A th \in TrafficThreads(p) : held[th] \in Nat
  BY <1>1, <1>3
<1>6. Sum(held, TrafficThreads(p)) \in Nat
  <2> HIDE DEF held
  <2> QED
    BY <1>2, <1>5, SumNat
<1> HIDE DEF held
<1>7. TrafficMemory(B, J, p, t) = B[p].slots[t].n + Sum(held, TrafficThreads(p))
  BY Zenon DEF TrafficMemory, held
<1> QED
  BY <1>1, <1>2, <1>3, <1>4, <1>6, <1>7 DEF held

Moved(J, J2, th, j) == J2 = [J EXCEPT ![th] = j]

\* A thread goes on, and the buffer of its worker may change with it.
LEMMA TrafficMoves ==
    ASSUME TrafficBase, NEW J \in [Worker -> TrafficJob], NEW B \in [Process -> TrafficBuffer],
           NEW B2 \in [Process -> TrafficBuffer], NEW th \in Worker, NEW j \in TrafficJob,
           NEW J2, Moved(J, J2, th, j), \A p \in Process \ {ProcessOf[th]} : B2[p] = B[p],
           NEW t \in Metered
    PROVE  /\ TrafficAll(B, J, t) \in Nat
           /\ TrafficAll(B2, J2, t)
                = TrafficAll(B, J, t) - B[ProcessOf[th]].slots[t].n - TrafficHeld(J[th], t)
                    + B2[ProcessOf[th]].slots[t].n + TrafficHeld(j, t)
<1> DEFINE mine == ProcessOf[th]
           held == [u \in Worker |-> TrafficHeld(J[u], t)]
           held2 == [u \in Worker |-> TrafficHeld(J2[u], t)]
           memory == [p \in Process |-> TrafficMemory(B, J, p, t)]
           memory2 == [p \in Process |-> TrafficMemory(B2, J2, p, t)]
<1>1. J2 \in [Worker -> TrafficJob] /\ J2[th] = j /\ (\A u \in Worker \ {th} : J2[u] = J[u])
      /\ mine \in Process /\ IsFiniteSet(Process)
  BY DEF TrafficBase, Moved
<1>2. /\ \A u \in Worker : held[u] \in Int /\ held2[u] \in Int
      /\ held[th] = TrafficHeld(J[th], t) /\ held2[th] = TrafficHeld(j, t)
      /\ \A u \in Worker \ {th} : held2[u] = held[u]
  <2>1. \A u \in Worker : TrafficHeld(J[u], t) \in Nat /\ TrafficHeld(J2[u], t) \in Nat
    BY <1>1, TrafficHeldIs
  <2> QED
    BY <1>1, <2>1
<1>3. \A p \in Process : /\ memory[p] \in Nat /\ memory2[p] \in Nat
                         /\ memory[p] = B[p].slots[t].n + Sum(held, TrafficThreads(p))
                         /\ memory2[p] = B2[p].slots[t].n + Sum(held2, TrafficThreads(p))
                         /\ IsFiniteSet(TrafficThreads(p)) /\ TrafficThreads(p) \subseteq Worker
                         /\ B[p].slots[t].n \in Nat /\ B2[p].slots[t].n \in Nat
                         /\ Sum(held, TrafficThreads(p)) \in Nat
  <2> SUFFICES ASSUME NEW p \in Process
               PROVE  /\ TrafficMemory(B, J, p, t) \in Nat /\ TrafficMemory(B2, J2, p, t) \in Nat
                      /\ TrafficMemory(B, J, p, t) = B[p].slots[t].n + Sum(held, TrafficThreads(p))
                      /\ TrafficMemory(B2, J2, p, t) = B2[p].slots[t].n + Sum(held2, TrafficThreads(p))
                      /\ IsFiniteSet(TrafficThreads(p)) /\ TrafficThreads(p) \subseteq Worker
                      /\ B[p].slots[t].n \in Nat /\ B2[p].slots[t].n \in Nat
                      /\ Sum(held, TrafficThreads(p)) \in Nat
    OBVIOUS
  <2>1. /\ TrafficMemory(B, J, p, t) = B[p].slots[t].n + Sum(held, TrafficThreads(p))
        /\ TrafficMemory(B2, J2, p, t) = B2[p].slots[t].n + Sum(held2, TrafficThreads(p))
    BY Zenon DEF TrafficMemory
  <2>2. /\ TrafficMemory(B, J, p, t) \in Nat /\ TrafficMemory(B2, J2, p, t) \in Nat
        /\ IsFiniteSet(TrafficThreads(p)) /\ TrafficThreads(p) \subseteq Worker
        /\ B[p].slots[t].n \in Nat /\ B2[p].slots[t].n \in Nat
        /\ Sum(held, TrafficThreads(p)) \in Nat
    BY <1>1, TrafficMemoryIs
  <2> QED
    BY <2>1, <2>2
<1>4. TrafficAll(B, J, t) = Sum(memory, Process) /\ TrafficAll(B2, J2, t) = Sum(memory2, Process)
  BY Zenon DEF TrafficAll
<1> HIDE DEF held, held2, memory, memory2, mine
<1>5. ASSUME NEW p \in Process \ {mine}
      PROVE  memory2[p] = memory[p]
  <2>1. \A u \in TrafficThreads(p) : held2[u] = held[u]
    BY <1>2, <1>3, <1>5 DEF TrafficThreads, mine
  <2>2. Sum(held2, TrafficThreads(p)) = Sum(held, TrafficThreads(p))
    BY <1>3, <2>1, SumSame
  <2>3. B2[p] = B[p]
    BY <1>5 DEF mine
  <2> QED
    BY <1>3, <2>2, <2>3
<1>6. Sum(held2, TrafficThreads(mine)) = Sum(held, TrafficThreads(mine)) - held[th] + held2[th]
  <2>1. th \in TrafficThreads(mine)
    BY DEF TrafficThreads, mine
  <2>2. /\ IsFiniteSet(TrafficThreads(mine)) /\ Whole(held, TrafficThreads(mine))
        /\ Whole(held2, TrafficThreads(mine)) /\ Alike(held, held2, TrafficThreads(mine) \ {th})
    BY <1>1, <1>2, <1>3 DEF Whole, Alike
  <2> QED
    BY <2>1, <2>2, SumChange
<1>7. Sum(memory2, Process) = Sum(memory, Process) - memory[mine] + memory2[mine]
  <2>1. /\ IsFiniteSet(Process) /\ mine \in Process
        /\ Whole(memory, Process) /\ Whole(memory2, Process) /\ Alike(memory, memory2, Process \ {mine})
    BY <1>1, <1>3, <1>5 DEF Whole, Alike
  <2> QED
    BY <2>1, SumChange
<1>8. Sum(memory, Process) \in Nat
  BY <1>1, <1>3, SumNat
<1>9. /\ memory[mine] = B[mine].slots[t].n + Sum(held, TrafficThreads(mine))
      /\ memory2[mine] = B2[mine].slots[t].n + Sum(held2, TrafficThreads(mine))
      /\ B[mine].slots[t].n \in Nat /\ B2[mine].slots[t].n \in Nat
      /\ Sum(held, TrafficThreads(mine)) \in Nat /\ held[th] \in Int /\ held2[th] \in Int
  BY <1>1, <1>2, <1>3
<1>10. Sum(memory2, Process)
         = Sum(memory, Process) - B[mine].slots[t].n - held[th] + B2[mine].slots[t].n + held2[th]
  BY <1>6, <1>7, <1>8, <1>9
<1> QED
  BY <1>2, <1>4, <1>8, <1>10 DEF mine

\* A worker dies: what it had in memory is gone.
LEMMA TrafficDies ==
    ASSUME TrafficBase, NEW J \in [Worker -> TrafficJob], NEW B \in [Process -> TrafficBuffer],
           NEW B2 \in [Process -> TrafficBuffer], NEW p \in Process, NEW t \in Metered, B2[p].slots[t].n = 0,
           NEW J2 \in [Worker -> TrafficJob],
           \A th \in Worker : J2[th] = IF ProcessOf[th] = p THEN traffic!Idle ELSE J[th],
           \A q \in Process \ {p} : B2[q] = B[q]
    PROVE  /\ TrafficAll(B, J, t) \in Nat
           /\ TrafficAll(B2, J2, t) = TrafficAll(B, J, t) - TrafficMemory(B, J, p, t)
<1> DEFINE held == [u \in Worker |-> TrafficHeld(J[u], t)]
           held2 == [u \in Worker |-> TrafficHeld(J2[u], t)]
           memory == [q \in Process |-> TrafficMemory(B, J, q, t)]
           memory2 == [q \in Process |-> TrafficMemory(B2, J2, q, t)]
<1>1. \A q \in Process : /\ memory[q] \in Nat /\ memory2[q] \in Nat
                         /\ memory[q] = TrafficMemory(B, J, q, t)
                         /\ memory[q] = B[q].slots[t].n + Sum(held, TrafficThreads(q))
                         /\ memory2[q] = B2[q].slots[t].n + Sum(held2, TrafficThreads(q))
                         /\ IsFiniteSet(TrafficThreads(q)) /\ TrafficThreads(q) \subseteq Worker
                         /\ \A u \in Worker : held2[u] = TrafficHeld(J2[u], t) /\ held[u] = TrafficHeld(J[u], t)
  <2> SUFFICES ASSUME NEW q \in Process
               PROVE  /\ TrafficMemory(B, J, q, t) \in Nat /\ TrafficMemory(B2, J2, q, t) \in Nat
                      /\ TrafficMemory(B, J, q, t) = B[q].slots[t].n + Sum(held, TrafficThreads(q))
                      /\ TrafficMemory(B2, J2, q, t) = B2[q].slots[t].n + Sum(held2, TrafficThreads(q))
                      /\ IsFiniteSet(TrafficThreads(q)) /\ TrafficThreads(q) \subseteq Worker
    OBVIOUS
  <2>1. /\ TrafficMemory(B, J, q, t) = B[q].slots[t].n + Sum(held, TrafficThreads(q))
        /\ TrafficMemory(B2, J2, q, t) = B2[q].slots[t].n + Sum(held2, TrafficThreads(q))
    BY Zenon DEF TrafficMemory
  <2>2. /\ TrafficMemory(B, J, q, t) \in Nat /\ TrafficMemory(B2, J2, q, t) \in Nat
        /\ IsFiniteSet(TrafficThreads(q)) /\ TrafficThreads(q) \subseteq Worker
    BY TrafficMemoryIs
  <2> QED
    BY <2>1, <2>2
<1>2. TrafficAll(B, J, t) = Sum(memory, Process) /\ TrafficAll(B2, J2, t) = Sum(memory2, Process)
  BY Zenon DEF TrafficAll
<1>3. IsFiniteSet(Process)
  BY DEF TrafficBase
<1> HIDE DEF held, held2, memory, memory2
<1>4. ASSUME NEW q \in Process \ {p}
      PROVE  memory2[q] = memory[q]
  <2>1. \A u \in TrafficThreads(q) : J2[u] = J[u]
    BY DEF TrafficThreads
  <2>2. \A u \in TrafficThreads(q) : held2[u] = held[u]
    BY <1>1, <2>1
  <2>3. Sum(held2, TrafficThreads(q)) = Sum(held, TrafficThreads(q))
    BY <1>1, <2>2, SumSame
  <2> QED
    BY <1>1, <2>3
<1>5. memory2[p] = 0
  <2>1. \A u \in TrafficThreads(p) : J2[u] = traffic!Idle
    BY DEF TrafficThreads
  <2>2. \A u \in TrafficThreads(p) : held2[u] = 0
    BY <1>1, <2>1 DEF TrafficHeld, traffic!Idle
  <2>3. Sum(held2, TrafficThreads(p)) = 0
    BY <1>1, <2>2, SumZero
  <2> QED
    BY <1>1, <2>3
<1>6. Sum(memory2, Process) = Sum(memory, Process) - memory[p] + memory2[p]
  <2>1. /\ IsFiniteSet(Process) /\ p \in Process
        /\ Whole(memory, Process) /\ Whole(memory2, Process) /\ Alike(memory, memory2, Process \ {p})
    BY <1>1, <1>3, <1>4 DEF Whole, Alike
  <2> QED
    BY <2>1, SumChange
<1>7. Sum(memory, Process) \in Nat
  BY <1>1, <1>3, SumNat
<1> QED
  BY <1>1, <1>2, <1>5, <1>6, <1>7

LEMMA TrafficInMemory ==
    ASSUME TrafficBase, NEW p \in Process, NEW t \in Metered
    PROVE  traffic!InMemory(p, t) = TrafficMemory(buffers, threads, p, t)
<1> DEFINE S == TrafficThreads(p)
           f == [th \in Worker |-> TrafficHeld(threads[th], t)]
           body(it) == [s \in SUBSET S |-> IF s = {} THEN 0
                                           ELSE traffic!Unwritten(Choice(s), t) + it[s \ {Choice(s)}]]
           it == CHOOSE it : it = body(it)
<1>1. traffic!MapThenSumSet(LAMBDA th : traffic!Unwritten(th, t), S) = it[S]
  BY Zenon DEF traffic!MapThenSumSet, traffic!MapThenFoldSet, Choice
<1>2. S \subseteq Worker /\ IsFiniteSet(S) /\ S = traffic!ThreadsOf(p)
  BY FS_Subset DEF TrafficThreads, traffic!ThreadsOf, TrafficBase
<1> HIDE DEF S
<1>3. \A h : IsSum(h, f, S) <=> h = body(h)
  <2>1. \A th \in Worker : f[th] = traffic!Unwritten(th, t)
    BY DEF traffic!Unwritten, TrafficHeld, TrafficHas
  <2>2. \A s \in SUBSET S : s # {} => f[Choice(s)] = traffic!Unwritten(Choice(s), t)
    BY <1>2, <2>1, Chosen
  <2> HIDE DEF f
  <2>3. \A h : body(h) = [s \in SUBSET S |-> IF s = {} THEN 0 ELSE f[Choice(s)] + h[s \ {Choice(s)}]]
    BY <2>2
  <2> HIDE DEF body
  <2> QED
    BY <2>3, Zenon DEF IsSum
<1>4. \E h : IsSum(h, f, S)
  BY <1>2, SumExists, Zenon
<1> HIDE DEF f, body
<1>5. it = body(it)
  BY <1>3, <1>4, Zenon
<1> HIDE DEF it
<1>6. it[S] = Sum(f, S)
  BY <1>2, <1>3, <1>5, SumUnfolds
<1> QED
  BY <1>1, <1>2, <1>6, Zenon DEF traffic!InMemory, TrafficMemory, f, S

-----------------------------------------------------------------------------
(* What is written, and in which order *)

LEMMA TrafficPuts ==
    ASSUME NEW q \in TrafficTodo, NEW k \in TrafficGroups, NEW a \in Nat, q # <<>>,
           \A x \in k : ~TrafficHas(q, x), "n" \notin k, "c4" \in k => ~TrafficHas(q, "tt")
    PROVE  /\ q \o traffic!Some(a, k) \in TrafficTodo /\ q \o traffic!Some(a, k) # <<>>
           /\ \A x : TrafficHas(q \o traffic!Some(a, k), x) <=> TrafficHas(q, x) \/ (a > 0 /\ x \in k)
<1>1. q \in Seq(TrafficGroups) /\ TrafficOrdered(q)
  BY DEF TrafficTodo
<1>2. CASE a = 0
  <2>1. traffic!Some(a, k) = <<>>
    BY <1>2 DEF traffic!Some
  <2>2. q \o <<>> = q
    BY <1>1, ConcatEmptySeq
  <2>3. q \o traffic!Some(a, k) = q
    BY <2>1, <2>2, Zenon
  <2>4. ~(a > 0)
    BY <1>2
  <2> QED
    BY <2>3, <2>4, Zenon
<1>3. CASE a > 0
  <2> DEFINE r == Append(q, k)
  <2>1. q \o traffic!Some(a, k) = r
    <3>1. traffic!Some(a, k) = <<k>>
      BY <1>3 DEF traffic!Some
    <3> QED
      BY <1>1, <3>1, AppendIsConcat
  <2>2. /\ r \in Seq(TrafficGroups) /\ r # <<>> /\ Len(r) = Len(q) + 1 /\ Len(q) \in Nat
        /\ \A i \in 1 .. Len(q) : r[i] = q[i]
        /\ r[Len(q) + 1] = k /\ DOMAIN q = 1 .. Len(q) /\ DOMAIN r = 1 .. Len(q) + 1
    BY <1>1, AppendProperties, LenProperties
  <2> HIDE DEF r
  <2>3. /\ DOMAIN r = DOMAIN q \cup {Len(q) + 1}
        /\ \A i \in DOMAIN q : r[i] = q[i] /\ i < Len(q) + 1
    BY <2>2
  <2>4. \A x : TrafficHas(r, x) <=> TrafficHas(q, x) \/ x \in k
    BY <2>2, <2>3 DEF TrafficHas
  <2>5. TrafficOrdered(r)
    <3> SUFFICES ASSUME NEW i \in DOMAIN r, NEW j \in DOMAIN r
                 PROVE  /\ "n" \in r[i] => i = 1
                        /\ "tt" \in r[i] /\ "c4" \in r[j] => j < i
                        /\ \A x \in r[i] : x \in r[j] => i = j
      BY DEF TrafficOrdered
    <3> DEFINE n == Len(q) + 1
    <3>1. CASE i \in DOMAIN q /\ j \in DOMAIN q
      BY <1>1, <2>3, <3>1 DEF TrafficOrdered
    <3>2. CASE i = n /\ j = n
      BY <2>2, <3>2 DEF TrafficGroups
    <3>3. CASE i \in DOMAIN q /\ j = n
      BY <1>1, <2>2, <2>3, <3>3 DEF TrafficOrdered, TrafficHas
    <3>4. CASE i = n /\ j \in DOMAIN q
      BY <2>2, <2>3, <3>4 DEF TrafficHas
    <3> QED
      BY <2>3, <3>1, <3>2, <3>3, <3>4
  <2> QED
    BY <1>3, <2>1, <2>2, <2>4, <2>5 DEF TrafficTodo
<1> QED
  BY <1>2, <1>3

LEMMA TrafficKeysOf ==
    ASSUME NEW s \in TrafficSlot
    PROVE  /\ traffic!KeysOf(s) \in TrafficTodo
           /\ TrafficHas(traffic!KeysOf(s), "n")
           /\ TrafficHas(traffic!KeysOf(s), "c4") <=> s.c4 > 0
           /\ TrafficHas(traffic!KeysOf(s), "tt") <=> s.tt > 0
<1>0. s.c4 \in Nat /\ s.c5 \in Nat /\ s.tt \in Nat
  BY DEF TrafficSlot, traffic!Slot
<1> DEFINE first == <<{"s", "n"}>>
           second == first \o traffic!Some(s.c4, {"c4"})
           third == second \o traffic!Some(s.c5, {"c5"})
           fourth == third \o traffic!Some(s.tt, {"tt"})
           fifth == fourth \o traffic!Some(1, {"hn", "hc5"})
<1>1. first \in TrafficTodo /\ first # <<>> /\ \A x : TrafficHas(first, x) <=> x \in {"s", "n"}
  BY DEF TrafficTodo, TrafficGroups, TrafficOrdered, TrafficHas
<1> HIDE DEF first
<1>2. /\ second \in TrafficTodo /\ second # <<>>
      /\ \A x : TrafficHas(second, x) <=> TrafficHas(first, x) \/ (s.c4 > 0 /\ x \in {"c4"})
  <2>1. {"c4"} \in TrafficGroups /\ "n" \notin {"c4"}
    BY DEF TrafficGroups
  <2> QED
    BY <1>0, <1>1, <2>1, TrafficPuts
<1> HIDE DEF second
<1>3. /\ third \in TrafficTodo /\ third # <<>>
      /\ \A x : TrafficHas(third, x) <=> TrafficHas(second, x) \/ (s.c5 > 0 /\ x \in {"c5"})
  <2>1. {"c5"} \in TrafficGroups /\ "n" \notin {"c5"} /\ "c4" \notin {"c5"}
    BY DEF TrafficGroups
  <2> QED
    BY <1>0, <1>1, <1>2, <2>1, TrafficPuts
<1> HIDE DEF third
<1>4. /\ fourth \in TrafficTodo /\ fourth # <<>>
      /\ \A x : TrafficHas(fourth, x) <=> TrafficHas(third, x) \/ (s.tt > 0 /\ x \in {"tt"})
  <2>1. {"tt"} \in TrafficGroups /\ "n" \notin {"tt"} /\ "c4" \notin {"tt"}
    BY DEF TrafficGroups
  <2> QED
    BY <1>0, <1>1, <1>2, <1>3, <2>1, TrafficPuts
<1> HIDE DEF fourth
<1>5. /\ fifth \in TrafficTodo
      /\ \A x : TrafficHas(fifth, x) <=> TrafficHas(fourth, x) \/ x \in {"hn", "hc5"}
  <2>1. {"hn", "hc5"} \in TrafficGroups /\ "n" \notin {"hn", "hc5"} /\ "c4" \notin {"hn", "hc5"}
    BY DEF TrafficGroups
  <2>2. ~TrafficHas(fourth, "hn") /\ ~TrafficHas(fourth, "hc5")
    BY <1>1, <1>2, <1>3, <1>4
  <2> QED
    BY <1>4, <2>1, <2>2, TrafficPuts
<1>6. fifth = traffic!KeysOf(s)
  <2>1. traffic!Some(1, {"hn", "hc5"}) = <<{"hn", "hc5"}>>
    BY DEF traffic!Some
  <2> QED
    BY <2>1, Zenon DEF traffic!KeysOf, fifth, fourth, third, second, first
<1> HIDE DEF fifth
<1>7. /\ TrafficHas(fifth, "n")
      /\ TrafficHas(fifth, "c4") <=> s.c4 > 0
      /\ TrafficHas(fifth, "tt") <=> s.tt > 0
  BY <1>1, <1>2, <1>3, <1>4, <1>5
<1> QED
  BY <1>5, <1>6, <1>7, Zenon

\* The keys that were written are not written again.
LEMMA TrafficNextKeys ==
    ASSUME NEW q \in TrafficTodo, q # <<>>
    PROVE  /\ Head(q) \in TrafficGroups /\ Tail(q) \in TrafficTodo
           /\ \A x : TrafficHas(q, x) <=> x \in Head(q) \/ TrafficHas(Tail(q), x)
           /\ \A x \in Head(q) : ~TrafficHas(Tail(q), x)
           /\ ~TrafficHas(Tail(q), "n")
           /\ "tt" \in Head(q) => ~TrafficHas(q, "c4")
<1>1. q \in Seq(TrafficGroups) /\ TrafficOrdered(q)
  BY DEF TrafficTodo
<1>2. /\ Head(q) = q[1] /\ Len(q) \in Nat /\ Len(q) > 0 /\ DOMAIN q = 1 .. Len(q)
      /\ Head(q) \in TrafficGroups /\ Tail(q) \in Seq(TrafficGroups)
      /\ Len(Tail(q)) = Len(q) - 1 /\ DOMAIN Tail(q) = 1 .. Len(q) - 1
      /\ \A i \in 1 .. Len(q) - 1 : Tail(q)[i] = q[i + 1]
  BY <1>1, LenProperties, HeadTailProperties, EmptySeq
<1> DEFINE r == Tail(q)
<1> HIDE DEF r
<1>3. /\ \A i \in DOMAIN r : i \in Nat \ {0} /\ i + 1 \in DOMAIN q /\ i + 1 # 1 /\ r[i] = q[i + 1]
      /\ \A i \in DOMAIN q : i = 1 \/ (i - 1 \in DOMAIN r /\ r[i - 1] = q[i])
      /\ 1 \in DOMAIN q
  BY <1>2 DEF r
<1>4. \A x : TrafficHas(q, x) <=> x \in q[1] \/ TrafficHas(r, x)
  BY <1>3 DEF TrafficHas
<1>5. TrafficOrdered(r)
  <2> SUFFICES ASSUME NEW i \in DOMAIN r, NEW j \in DOMAIN r
               PROVE  /\ "n" \in r[i] => i = 1
                      /\ "tt" \in r[i] /\ "c4" \in r[j] => j < i
                      /\ \A x \in r[i] : x \in r[j] => i = j
    BY DEF TrafficOrdered
  <2>1. /\ i + 1 \in DOMAIN q /\ j + 1 \in DOMAIN q /\ i + 1 # 1 /\ r[i] = q[i + 1] /\ r[j] = q[j + 1]
        /\ i \in Nat /\ j \in Nat
    BY <1>3
  <2>2. /\ "n" \in q[i + 1] => i + 1 = 1
        /\ "tt" \in q[i + 1] /\ "c4" \in q[j + 1] => j + 1 < i + 1
        /\ \A x \in q[i + 1] : x \in q[j + 1] => i + 1 = j + 1
    BY <1>1, <2>1 DEF TrafficOrdered
  <2> QED
    BY <2>1, <2>2
<1>6. /\ \A x \in q[1] : ~TrafficHas(r, x)
      /\ ~TrafficHas(r, "n")
      /\ "tt" \in q[1] => ~TrafficHas(q, "c4")
  <2>1. ASSUME NEW x \in q[1], NEW i \in DOMAIN r, x \in r[i]
        PROVE  FALSE
    BY <1>1, <1>3, <2>1 DEF TrafficOrdered
  <2>2. ASSUME NEW i \in DOMAIN r, "n" \in r[i]
        PROVE  FALSE
    BY <1>1, <1>3, <2>2 DEF TrafficOrdered
  <2>3. ASSUME NEW i \in DOMAIN q, "tt" \in q[1], "c4" \in q[i]
        PROVE  FALSE
    BY <1>1, <1>2, <1>3, <2>3 DEF TrafficOrdered
  <2> QED
    BY <2>1, <2>2, <2>3 DEF TrafficHas
<1> QED
  BY <1>2, <1>4, <1>5, <1>6 DEF TrafficTodo, r

-----------------------------------------------------------------------------
(* What holds of traffic in every state *)

\* Every request is in the counters, in memory, or lost.
TrafficCounted ==
    \A t \in Metered :
        recorded[t] = lost[t] + Sum(keys[t]["n"], 0 .. MaxSeconds) + TrafficAll(buffers, threads, t)

\* Errors of a minute that a thread has still to write while it has written
\* the requests, and refusals while it has written the 4xx.
TrafficErrors(j, t, m) ==
    IF j.step = "write" /\ j.second \div Minute = m /\ ~TrafficHas(j.todo[t], "n")
      THEN (IF TrafficHas(j.todo[t], "c4") THEN j.slots[t].c4 ELSE 0)
             + (IF TrafficHas(j.todo[t], "c5") THEN j.slots[t].c5 ELSE 0)
      ELSE 0

TrafficRefusals(j, t, m) ==
    IF /\ j.step = "write" /\ j.second \div Minute = m
       /\ ~TrafficHas(j.todo[t], "c4") /\ TrafficHas(j.todo[t], "tt")
      THEN j.slots[t].tt ELSE 0

\* The counters of requests are ahead of those of errors by what threads
\* have still to write, and the 4xx of the refusals.
TrafficAhead(K, J) ==
    \A t \in Metered : \A m \in 0 .. MaxSeconds :
        /\ K[t]["c4"][m] + K[t]["c5"][m] + Sum([th \in Worker |-> TrafficErrors(J[th], t, m)], Worker)
             <= K[t]["n"][m]
        /\ K[t]["tt"][m] + Sum([th \in Worker |-> TrafficRefusals(J[th], t, m)], Worker)
             <= K[t]["c4"][m]

TrafficRank(w) == CASE w = "rps" -> 1 [] w = "rpm" -> 2 [] w = "rph" -> 3

\* Whether a thread may still spend from a counter.
TrafficWants(j, key) ==
    IF /\ j.step \in {"add", "incr"} /\ j.tenant = key[1] /\ j.i <= TrafficRank(key[2])
       /\ j.at \div traffic!Seconds(key[2]) = key[3]
      THEN 1 ELSE 0

TrafficWanting(J, key) == Sum([th \in Worker |-> TrafficWants(J[th], key)], Worker)

\* No counter is above the number of requests received.
TrafficSpent(b, J, r) ==
    \A key \in traffic!Key :
        b[key].count + TrafficWanting(J, key) <= r

TrafficWithin ==
    \A key \in traffic!Key \ lapsed :
        /\ passed[key] <= budget[key].count
        /\ passed[key] > 0 => passed[key] <= traffic!Ceiling(key[1], key[2])

TrafficLimited ==
    \A th \in Worker :
        threads[th].step \in {"add", "incr"} => threads[th].i \in traffic!Limited(threads[th].tenant)

TrafficInv ==
    /\ TrafficTyped /\ TrafficCounted /\ TrafficAhead(keys, threads)
    /\ TrafficSpent(budget, threads, requests) /\ TrafficWithin /\ TrafficLimited

LEMMA TrafficWantsIs ==
    ASSUME NEW j \in TrafficJob, NEW key
    PROVE  /\ TrafficWants(j, key) \in {0, 1}
           /\ j.step \notin {"add", "incr"} => TrafficWants(j, key) = 0
  BY DEF TrafficWants

LEMMA TrafficKey ==
    ASSUME NEW K \in TrafficKeys, NEW t \in Metered, NEW kind \in traffic!Kind, NEW m \in 0 .. MaxSeconds
    PROVE  K[t][kind][m] \in Nat
<1>1. K[t][kind] \in [0 .. MaxSeconds -> Nat]
  BY DEF TrafficKeys
<1> QED
  BY <1>1

LEMMA TrafficPending ==
    ASSUME TrafficBase, NEW j \in TrafficJob, NEW t \in Metered, NEW m
    PROVE  /\ TrafficErrors(j, t, m) \in Nat /\ TrafficRefusals(j, t, m) \in Nat
           /\ j.step # "write" => TrafficErrors(j, t, m) = 0 /\ TrafficRefusals(j, t, m) = 0
<1>1. CASE j.step = "write"
  <2>1. j.slots \in TrafficSlots
    BY <1>1, TrafficJobs
  <2>2. j.slots[t].c4 \in Nat /\ j.slots[t].c5 \in Nat /\ j.slots[t].tt \in Nat
    BY <2>1 DEF TrafficSlots, TrafficSlot, traffic!Slot
  <2> QED
    BY <1>1, <2>2 DEF TrafficErrors, TrafficRefusals
<1>2. CASE j.step # "write"
  BY <1>2 DEF TrafficErrors, TrafficRefusals
<1> QED
  BY <1>1, <1>2

\* What a thread still owes leaves the counters as far apart as it found them.
TrafficLeads(K, K2, old, new) ==
    \A t \in Metered : \A m \in 0 .. MaxSeconds :
       /\ K2[t]["c4"][m] + K2[t]["c5"][m] + TrafficErrors(new, t, m) + K[t]["n"][m]
            <= K[t]["c4"][m] + K[t]["c5"][m] + TrafficErrors(old, t, m) + K2[t]["n"][m]
       /\ K2[t]["tt"][m] + TrafficRefusals(new, t, m) + K[t]["c4"][m]
            <= K[t]["tt"][m] + TrafficRefusals(old, t, m) + K2[t]["c4"][m]

\* A thread goes on, and the counters with it.
LEMMA TrafficAheadMoves ==
    ASSUME TrafficBase, NEW J \in [Worker -> TrafficJob], NEW th \in Worker, NEW j \in TrafficJob,
           NEW J2, Moved(J, J2, th, j),
           NEW K \in TrafficKeys, NEW K2 \in TrafficKeys, TrafficAhead(K, J),
           TrafficLeads(K, K2, J[th], j)
    PROVE  TrafficAhead(K2, J2)
<1>1. J2 \in [Worker -> TrafficJob] /\ J2[th] = j /\ (\A u \in Worker \ {th} : J2[u] = J[u])
      /\ IsFiniteSet(Worker)
  BY DEF TrafficBase, Moved
<1> SUFFICES ASSUME NEW t \in Metered, NEW m \in 0 .. MaxSeconds
             PROVE  /\ K2[t]["c4"][m] + K2[t]["c5"][m]
                         + Sum([u \in Worker |-> TrafficErrors(J2[u], t, m)], Worker) <= K2[t]["n"][m]
                    /\ K2[t]["tt"][m] + Sum([u \in Worker |-> TrafficRefusals(J2[u], t, m)], Worker)
                         <= K2[t]["c4"][m]
  BY Zenon DEF TrafficAhead
<1> DEFINE e == [u \in Worker |-> TrafficErrors(J[u], t, m)]
           e2 == [u \in Worker |-> TrafficErrors(J2[u], t, m)]
           r == [u \in Worker |-> TrafficRefusals(J[u], t, m)]
           r2 == [u \in Worker |-> TrafficRefusals(J2[u], t, m)]
<1>2. /\ \A u \in Worker : e[u] \in Nat /\ e2[u] \in Nat /\ r[u] \in Nat /\ r2[u] \in Nat
      /\ e[th] = TrafficErrors(J[th], t, m) /\ e2[th] = TrafficErrors(j, t, m)
      /\ r[th] = TrafficRefusals(J[th], t, m) /\ r2[th] = TrafficRefusals(j, t, m)
      /\ \A u \in Worker \ {th} : e2[u] = e[u] /\ r2[u] = r[u]
  <2>1. \A u \in Worker : /\ TrafficErrors(J[u], t, m) \in Nat /\ TrafficErrors(J2[u], t, m) \in Nat
                          /\ TrafficRefusals(J[u], t, m) \in Nat /\ TrafficRefusals(J2[u], t, m) \in Nat
    BY <1>1, TrafficPending
  <2> QED
    BY <1>1, <2>1
<1>3. /\ K[t]["c4"][m] + K[t]["c5"][m] + Sum(e, Worker) <= K[t]["n"][m]
      /\ K[t]["tt"][m] + Sum(r, Worker) <= K[t]["c4"][m]
  BY Zenon DEF TrafficAhead
<1> HIDE DEF e, e2, r, r2
<1>4. Sum(e2, Worker) = Sum(e, Worker) - e[th] + e2[th] /\ Sum(r2, Worker) = Sum(r, Worker) - r[th] + r2[th]
  <2>0. IsFiniteSet(Worker)
    BY <1>1
  <2>3. /\ Whole(e, Worker) /\ Whole(e2, Worker) /\ Alike(e, e2, Worker \ {th})
        /\ Whole(r, Worker) /\ Whole(r2, Worker) /\ Alike(r, r2, Worker \ {th})
    BY <1>2 DEF Whole, Alike
  <2>4. \A x \in Worker : Alike(e, e2, Worker \ {x}) => Sum(e2, Worker) = Sum(e, Worker) - e[x] + e2[x]
    BY <2>0, <2>3, SumChange
  <2>5. \A x \in Worker : Alike(r, r2, Worker \ {x}) => Sum(r2, Worker) = Sum(r, Worker) - r[x] + r2[x]
    BY <2>0, <2>3, SumChange
  <2> QED
    BY <2>3, <2>4, <2>5
<1>5. Sum(e, Worker) \in Nat /\ Sum(r, Worker) \in Nat
  BY <1>1, <1>2, SumNat
<1>6. \A kind \in {"n", "c4", "c5", "tt"} : K[t][kind][m] \in Nat /\ K2[t][kind][m] \in Nat
  <2> SUFFICES ASSUME NEW kind \in {"n", "c4", "c5", "tt"}
               PROVE  K[t][kind][m] \in Nat /\ K2[t][kind][m] \in Nat
    OBVIOUS
  <2>1. kind \in traffic!Kind
    BY DEF traffic!Kind
  <2>2. K[t][kind] \in [0 .. MaxSeconds -> Nat] /\ K2[t][kind] \in [0 .. MaxSeconds -> Nat]
    BY <2>1 DEF TrafficKeys
  <2> QED
    BY <2>2
<1>7. /\ e[th] \in Nat /\ e2[th] \in Nat /\ r[th] \in Nat /\ r2[th] \in Nat
      /\ K2[t]["c4"][m] + K2[t]["c5"][m] + e2[th] + K[t]["n"][m]
           <= K[t]["c4"][m] + K[t]["c5"][m] + e[th] + K2[t]["n"][m]
      /\ K2[t]["tt"][m] + r2[th] + K[t]["c4"][m] <= K[t]["tt"][m] + r[th] + K2[t]["c4"][m]
  <2>1. /\ K2[t]["c4"][m] + K2[t]["c5"][m] + TrafficErrors(j, t, m) + K[t]["n"][m]
             <= K[t]["c4"][m] + K[t]["c5"][m] + TrafficErrors(J[th], t, m) + K2[t]["n"][m]
        /\ K2[t]["tt"][m] + TrafficRefusals(j, t, m) + K[t]["c4"][m]
             <= K[t]["tt"][m] + TrafficRefusals(J[th], t, m) + K2[t]["c4"][m]
    BY Zenon DEF TrafficLeads
  <2> QED
    BY <1>2, <2>1
<1>8. /\ K2[t]["c4"][m] + K2[t]["c5"][m] + Sum(e2, Worker) <= K2[t]["n"][m]
      /\ K2[t]["tt"][m] + Sum(r2, Worker) <= K2[t]["c4"][m]
  BY <1>3, <1>4, <1>5, <1>6, <1>7
<1> QED
  BY <1>8 DEF e2, r2

LEMMA TrafficWantsMove ==
    ASSUME TrafficBase, NEW J \in [Worker -> TrafficJob], NEW th \in Worker, NEW j \in TrafficJob,
           NEW J2, Moved(J, J2, th, j), NEW key
    PROVE  /\ TrafficWanting(J, key) \in Nat
           /\ TrafficWanting(J2, key)
                = TrafficWanting(J, key) - TrafficWants(J[th], key) + TrafficWants(j, key)
<1>1. J2 \in [Worker -> TrafficJob] /\ J2[th] = j /\ (\A u \in Worker \ {th} : J2[u] = J[u])
      /\ IsFiniteSet(Worker)
  BY DEF TrafficBase, Moved
<1> DEFINE w == [u \in Worker |-> TrafficWants(J[u], key)]
           w2 == [u \in Worker |-> TrafficWants(J2[u], key)]
<1>2. /\ \A u \in Worker : w[u] \in Nat /\ w2[u] \in Nat
      /\ w[th] = TrafficWants(J[th], key) /\ w2[th] = TrafficWants(j, key)
      /\ \A u \in Worker \ {th} : w2[u] = w[u]
  <2>1. \A u \in Worker : TrafficWants(J[u], key) \in {0, 1} /\ TrafficWants(J2[u], key) \in {0, 1}
    BY <1>1, TrafficWantsIs
  <2> QED
    BY <1>1, <2>1
<1> HIDE DEF w, w2
<1>3. Sum(w2, Worker) = Sum(w, Worker) - w[th] + w2[th]
  <2>0. IsFiniteSet(Worker)
    BY <1>1
  <2>1. Whole(w, Worker) /\ Whole(w2, Worker)
    BY <1>2 DEF Whole
  <2>2. Alike(w, w2, Worker \ {th})
    BY <1>2 DEF Alike
  <2>3. /\ IsFiniteSet(Worker) /\ Whole(w, Worker) /\ Whole(w2, Worker) /\ Alike(w, w2, Worker \ {th}) /\ th \in Worker
    BY <2>0, <2>1, <2>2
  <2>4. \A x \in Worker : Alike(w, w2, Worker \ {x}) => Sum(w2, Worker) = Sum(w, Worker) - w[x] + w2[x]
    BY <2>0, <2>1, SumChange
  <2> QED
    BY <2>3, <2>4
<1>4. Sum(w, Worker) \in Nat
  BY <1>1, <1>2, SumNat
<1> QED
  BY <1>2, <1>3, <1>4, Zenon DEF w, w2, TrafficWanting

\* A thread goes on, and spends.
LEMMA TrafficSpentMoves ==
    ASSUME TrafficBase, NEW J \in [Worker -> TrafficJob], NEW th \in Worker, NEW j \in TrafficJob,
           NEW J2, Moved(J, J2, th, j), NEW r \in Nat, NEW r2 \in Nat,
           NEW b \in [traffic!Key -> [count : Nat, until : Nat]],
           NEW b2 \in [traffic!Key -> [count : Nat, until : Nat]], TrafficSpent(b, J, r),
           \A key \in traffic!Key :
              b2[key].count + TrafficWants(j, key) + r <= b[key].count + TrafficWants(J[th], key) + r2
    PROVE  TrafficSpent(b2, J2, r2)
<1> SUFFICES ASSUME NEW key \in traffic!Key
             PROVE  b2[key].count + TrafficWanting(J2, key) <= r2
  BY Zenon DEF TrafficSpent
<1> DEFINE w == TrafficWanting(J, key)
           w2 == TrafficWanting(J2, key)
           x == TrafficWants(J[th], key)
           y == TrafficWants(j, key)
<1>1. w \in Nat /\ w2 = w - x + y
  <2>1. /\ TrafficBase /\ J \in [Worker -> TrafficJob] /\ th \in Worker /\ j \in TrafficJob
        /\ Moved(J, J2, th, j)
    OBVIOUS
  <2> QED
    BY <2>1, TrafficWantsMove
<1>2. b[key].count + w <= r
  BY Zenon DEF TrafficSpent
<1>3. /\ b[key].count \in Nat /\ b2[key].count \in Nat /\ x \in Nat /\ y \in Nat
      /\ b2[key].count + y + r <= b[key].count + x + r2
  <2>1. x \in {0, 1} /\ y \in {0, 1}
    BY TrafficWantsIs
  <2> HIDE DEF x, y
  <2>2. b2[key].count + y + r <= b[key].count + x + r2
    BY Zenon DEF x, y
  <2> QED
    BY <2>1, <2>2
<1> HIDE DEF w, w2, x, y
<1>4. b2[key].count + w2 <= r2
  BY <1>1, <1>2, <1>3
<1> QED
  BY <1>4 DEF w2

-----------------------------------------------------------------------------
(* What a thread does next *)

LEMMA TrafficSmallest ==
    ASSUME NEW S, S \subseteq Nat, S # {}
    PROVE  traffic!Min(S) \in S
<1> DEFINE R == OpToRel(<, Nat)
<1>1. IsWellFoundedOn(R, Nat)
  BY NatLessThanWellFounded
<1>2. \A x, y \in Nat : x < y => <<x, y>> \in R
  BY DEF OpToRel
<1> HIDE DEF R
<1>3. PICK x \in S : \A y \in S : <<y, x>> \notin R
  BY <1>1, WFMin
<1>4. \A y \in S : x <= y
  <2> TAKE y \in S
  <2>1. x \in Nat /\ y \in Nat /\ ~(y < x)
    BY <1>2, <1>3
  <2> QED
    BY <2>1
<1> QED
  BY <1>4 DEF traffic!Min

LEMMA TrafficWalks ==
    ASSUME TrafficBase, NEW t \in Metered, NEW at \in 0 .. MaxSeconds, NEW after \in 0 .. 3
    PROVE  /\ traffic!Walk(t, at, after) \in TrafficJob
           /\ traffic!Walk(t, at, after).step \in {"view", "add"}
           /\ traffic!Walk(t, at, after).step = "add" =>
                /\ traffic!Walk(t, at, after).tenant = t /\ traffic!Walk(t, at, after).at = at
                /\ traffic!Walk(t, at, after).i \in traffic!Limited(t)
                /\ traffic!Walk(t, at, after).i > after
<1> DEFINE rest == {i \in traffic!Limited(t) : i > after}
<1>1. traffic!Limited(t) \subseteq 1 .. 3
  BY TrafficWindows DEF traffic!Limited
<1>2. CASE rest = {}
  <2>1. traffic!Walk(t, at, after) = [step |-> "view", tenant |-> t]
    BY <1>2 DEF traffic!Walk
  <2> QED
    BY <2>1 DEF TrafficJob
<1>3. CASE rest # {}
  <2> DEFINE least == traffic!Min(rest)
  <2>1. traffic!Walk(t, at, after) = [step |-> "add", tenant |-> t, at |-> at, i |-> least]
    BY <1>3 DEF traffic!Walk
  <2>2. least \in rest
    <3>1. rest \subseteq Nat
      BY <1>1
    <3> HIDE DEF rest
    <3> QED
      BY <1>3, <3>1, TrafficSmallest
  <2>3. least \in traffic!Limited(t) /\ least > after /\ least \in 1 .. 3
    BY <1>1, <2>2
  <2> HIDE DEF least, rest
  <2> QED
    BY <2>1, <2>3 DEF TrafficJob
<1> QED
  BY <1>2, <1>3

LEMMA TrafficCounter ==
    ASSUME TrafficBase, TrafficTyped, NEW th \in Worker, threads[th].step \in {"add", "incr"}
    PROVE  /\ traffic!CounterOf(th) \in traffic!Key
           /\ traffic!CounterOf(th)[1] = threads[th].tenant
           /\ traffic!CounterOf(th)[2] = traffic!Windows[threads[th].i]
           /\ traffic!CounterOf(th)[3] = threads[th].at \div traffic!Seconds(traffic!Windows[threads[th].i])
           /\ TrafficRank(traffic!CounterOf(th)[2]) = threads[th].i
<1>1. threads[th].tenant \in Metered /\ threads[th].at \in 0 .. MaxSeconds /\ threads[th].i \in 1 .. 3
  BY TrafficJobs DEF TrafficTyped
<1> DEFINE w == traffic!Windows[threads[th].i]
<1>2. w \in traffic!Window /\ TrafficRank(w) = threads[th].i
  BY <1>1, TrafficWindows DEF TrafficRank
<1>3. traffic!CounterOf(th) = <<threads[th].tenant, w, threads[th].at \div traffic!Seconds(w)>>
  BY DEF traffic!CounterOf
<1> HIDE DEF w
<1>4. threads[th].at \div traffic!Seconds(w) \in 0 .. MaxSeconds
  <2>1. threads[th].at \in Nat /\ threads[th].at <= MaxSeconds /\ MaxSeconds \in Nat
    BY <1>1 DEF TrafficBase
  <2>2. traffic!Seconds(w) \in Nat \ {0}
    BY <1>2, TrafficSeconds
  <2> DEFINE a == threads[th].at
             d == traffic!Seconds(w)
  <2> HIDE DEF a, d
  <2>3. a \div d \in Nat /\ a \div d <= a
    BY <2>1, <2>2, Quotients DEF a, d
  <2>4. a \div d \in 0 .. MaxSeconds
    BY <2>1, <2>3 DEF a
  <2> QED
    BY <2>4 DEF a, d
<1> QED
  BY <1>1, <1>2, <1>3, <1>4 DEF traffic!Key, w

\* A request goes on with what it got: it is past its counter.
LEMMA TrafficJudged ==
    ASSUME TrafficBase, TrafficTyped, TrafficLimited, NEW th \in Worker,
           threads[th].step \in {"add", "incr"}, NEW count \in Nat, traffic!Judge(th, count)
    PROVE  \E j \in TrafficJob :
              /\ Moved(threads, threads', th, j)
              /\ j.step \notin {"write", "idle"}
              /\ j.step \in {"add", "incr"} => j.i \in traffic!Limited(j.tenant)
              /\ TrafficWants(j, traffic!CounterOf(th)) = 0
              /\ \A key \in traffic!Key : TrafficWants(j, key) <= TrafficWants(threads[th], key)
              /\ \/ passed' = passed
                 \/ /\ passed' = [passed EXCEPT ![traffic!CounterOf(th)] = @ + 1]
                    /\ count <= traffic!Ceiling(traffic!CounterOf(th)[1], traffic!CounterOf(th)[2])
                    /\ traffic!Ceiling(traffic!CounterOf(th)[1], traffic!CounterOf(th)[2]) \in Nat
<1> DEFINE mine == traffic!CounterOf(th)
           t == threads[th].tenant
           walk == traffic!Walk(t, threads[th].at, threads[th].i)
           refusal == [step |-> "record", tenant |-> t, status |-> "refused"]
<1>1. threads[th] \in TrafficJob /\ t \in Metered /\ threads[th].at \in 0 .. MaxSeconds /\ threads[th].i \in 1 .. 3
  BY TrafficJobs DEF TrafficTyped
<1>2. mine \in traffic!Key /\ mine[1] = t /\ mine[2] = traffic!Windows[threads[th].i]
      /\ TrafficRank(mine[2]) = threads[th].i
  BY TrafficCounter
<1>3. CASE count > traffic!Ceiling(mine[1], mine[2])
  <2>1. threads' = [threads EXCEPT ![th] = refusal] /\ passed' = passed
    BY <1>2, <1>3 DEF traffic!Judge
  <2>2. refusal \in TrafficJob /\ refusal.step = "record"
    BY <1>1 DEF TrafficJob
  <2> HIDE DEF refusal, mine
  <2>3. TrafficWants(refusal, mine) = 0
    BY <2>2, TrafficWantsIs
  <2>4. \A key \in traffic!Key : TrafficWants(refusal, key) <= TrafficWants(threads[th], key)
    BY <1>1, <2>2, TrafficWantsIs
  <2> QED
    BY <2>1, <2>2, <2>3, <2>4 DEF Moved, mine
<1>4. CASE ~(count > traffic!Ceiling(mine[1], mine[2]))
  <2>1. threads' = [threads EXCEPT ![th] = walk] /\ passed' = [passed EXCEPT ![mine] = @ + 1]
    BY <1>2, <1>4 DEF traffic!Judge
  <2>2. /\ walk \in TrafficJob /\ walk.step \in {"view", "add"}
        /\ walk.step = "add" => /\ walk.tenant = t /\ walk.at = threads[th].at
                                /\ walk.i \in traffic!Limited(t) /\ walk.i > threads[th].i
    BY <1>1, TrafficWalks
  <2>3. walk.step = "add" => walk.i \in 1 .. 3
    BY <2>2, TrafficJobs
  <2> HIDE DEF walk, mine
  <2>4. TrafficWants(walk, mine) = 0
    BY <1>1, <1>2, <2>2, <2>3 DEF TrafficWants
  <2>5. ASSUME NEW key \in traffic!Key
        PROVE  TrafficWants(walk, key) <= TrafficWants(threads[th], key)
    <3>1. key[2] \in traffic!Window
      BY DEF traffic!Key
    <3>2. TrafficRank(key[2]) \in 1 .. 3
      BY <3>1 DEF TrafficRank, traffic!Window
    <3> QED
      BY <1>1, <2>2, <2>3, <3>2 DEF TrafficWants
  <2>6. traffic!Ceiling(mine[1], mine[2]) \in Nat
    <3>1. policy[t] \in Limits
      BY <1>1 DEF TrafficTyped
    <3>2. threads[th].i \in traffic!Limited(t)
      BY DEF TrafficLimited
    <3>3. policy[t].limit[mine[2]] # Unlimited
      BY <1>2, <3>2 DEF traffic!Limited
    <3>4. mine[2] \in traffic!Window
      BY <1>1, <1>2, TrafficWindows
    <3>5. policy[t].limit[mine[2]] \in Nat /\ policy[t].burst \in Nat
      BY <3>1, <3>3, <3>4 DEF TrafficBase
    <3> QED
      BY <1>2, <3>5 DEF traffic!Ceiling
  <2>7. count <= traffic!Ceiling(mine[1], mine[2])
    BY <1>4, <2>6
  <2> QED
    BY <2>1, <2>2, <2>4, <2>5, <2>6, <2>7 DEF Moved, mine
<1> QED
  BY <1>3, <1>4

\* A buffer is taken away with all its requests still to be written.
LEMMA TrafficWriting ==
    ASSUME TrafficBase, NEW b \in TrafficBuffer
    PROVE  /\ traffic!Writing(b) \in TrafficJob /\ traffic!Writing(b).step = "write"
           /\ \A t \in Metered : TrafficHeld(traffic!Writing(b), t) = b.slots[t].n
           /\ \A t \in Metered : \A m : /\ TrafficErrors(traffic!Writing(b), t, m) = 0
                                        /\ TrafficRefusals(traffic!Writing(b), t, m) = 0
<1> DEFINE todo == [t \in Metered |-> IF b.slots[t].n > 0 THEN traffic!KeysOf(b.slots[t]) ELSE <<>>]
           j == traffic!Writing(b)
<1>1. j = [step |-> "write", second |-> b.second, slots |-> b.slots, todo |-> todo]
  BY Zenon DEF traffic!Writing
<1>2. b.second \in 0 .. MaxSeconds /\ b.slots \in TrafficSlots
  BY DEF TrafficBuffer
<1>3. <<>> \in TrafficTodo /\ \A x : ~TrafficHas(<<>>, x)
  BY DEF TrafficTodo, TrafficOrdered, TrafficHas
<1>4. ASSUME NEW t \in Metered
      PROVE  /\ todo[t] \in TrafficTodo
             /\ b.slots[t] \in TrafficSlot /\ b.slots[t].n \in Nat /\ b.slots[t].c4 \in Nat
             /\ b.slots[t].tt \in Nat /\ b.slots[t].tt <= b.slots[t].c4
             /\ TrafficHas(todo[t], "n") <=> b.slots[t].n > 0
             /\ TrafficHas(todo[t], "c4") <=> b.slots[t].n > 0 /\ b.slots[t].c4 > 0
             /\ TrafficHas(todo[t], "tt") <=> b.slots[t].n > 0 /\ b.slots[t].tt > 0
             /\ b.slots[t].n = 0 => todo[t] = <<>>
  <2>1. b.slots[t] \in TrafficSlot
    BY <1>2 DEF TrafficSlots
  <2>2. /\ b.slots[t].n \in Nat /\ b.slots[t].c4 \in Nat /\ b.slots[t].tt \in Nat
        /\ b.slots[t].tt <= b.slots[t].c4
    BY <2>1 DEF TrafficSlot, traffic!Slot
  <2>3. CASE b.slots[t].n > 0
    <3>1. todo[t] = traffic!KeysOf(b.slots[t])
      BY <2>3
    <3>2. /\ traffic!KeysOf(b.slots[t]) \in TrafficTodo
          /\ TrafficHas(traffic!KeysOf(b.slots[t]), "n")
          /\ TrafficHas(traffic!KeysOf(b.slots[t]), "c4") <=> b.slots[t].c4 > 0
          /\ TrafficHas(traffic!KeysOf(b.slots[t]), "tt") <=> b.slots[t].tt > 0
      BY <2>1, TrafficKeysOf
    <3> HIDE DEF todo
    <3> QED
      BY <2>1, <2>2, <2>3, <3>1, <3>2
  <2>4. CASE ~(b.slots[t].n > 0)
    <3>1. todo[t] = <<>> /\ b.slots[t].n = 0
      BY <2>2, <2>4
    <3> HIDE DEF todo
    <3> QED
      BY <1>3, <2>1, <2>2, <2>4, <3>1
  <2> QED
    BY <2>3, <2>4
<1>5. todo \in [Metered -> TrafficTodo]
  BY <1>4
<1> HIDE DEF todo
<1>6. j \in TrafficJob /\ j.step = "write" /\ j.todo = todo /\ j.slots = b.slots
  BY <1>1, <1>2, <1>5 DEF TrafficJob
<1> HIDE DEF j
<1>7. ASSUME NEW t \in Metered, NEW m
      PROVE  TrafficHeld(j, t) = b.slots[t].n /\ TrafficErrors(j, t, m) = 0 /\ TrafficRefusals(j, t, m) = 0
  <2>1. TrafficHeld(j, t) = b.slots[t].n
    BY <1>4, <1>6 DEF TrafficHeld
  <2>2. CASE b.slots[t].n > 0
    <3>1. TrafficErrors(j, t, m) = 0
      BY <1>4, <1>6, <2>2 DEF TrafficErrors
    <3>2. TrafficRefusals(j, t, m) = 0
      BY <1>4, <1>6, <2>2 DEF TrafficRefusals
    <3> QED
      BY <2>1, <3>1, <3>2
  <2>3. CASE b.slots[t].n = 0
    <3>1. \A x : ~TrafficHas(j.todo[t], x)
      BY <1>3, <1>4, <1>6, <2>3
    <3>2. TrafficErrors(j, t, m) = 0 /\ TrafficRefusals(j, t, m) = 0
      BY <3>1 DEF TrafficErrors, TrafficRefusals
    <3> QED
      BY <2>1, <3>2
  <2> QED
    BY <1>4, <2>2, <2>3
<1> QED
  BY <1>6, <1>7 DEF j

-----------------------------------------------------------------------------
(* What a step keeps *)

LEMMA TrafficThreadMoves ==
    ASSUME NEW J \in [Worker -> TrafficJob], NEW th \in Worker, NEW j \in TrafficJob, NEW J2, Moved(J, J2, th, j)
    PROVE  J2 \in [Worker -> TrafficJob] /\ J2[th] = j /\ \A u \in Worker \ {th} : J2[u] = J[u]
  BY DEF Moved

LEMMA TrafficQuiet ==
    ASSUME TrafficBase, TrafficInv, NEW th \in Worker, NEW j \in TrafficJob, Moved(threads, threads', th, j),
           threads[th].step # "write", j.step # "write",
           buffers' = buffers, keys' = keys, recorded' = recorded, lost' = lost
    PROVE  TrafficCounted' /\ TrafficAhead(keys, threads)'
<1>1. /\ threads \in [Worker -> TrafficJob] /\ buffers \in [Process -> TrafficBuffer] /\ keys \in TrafficKeys
      /\ threads[th] \in TrafficJob /\ TrafficAhead(keys, threads)
  BY DEF TrafficInv, TrafficTyped
<1>2. ASSUME NEW t \in Metered
      PROVE  TrafficAll(buffers', threads', t) = TrafficAll(buffers, threads, t)
  <2>1. ProcessOf[th] \in Process /\ buffers[ProcessOf[th]].slots[t].n \in Nat
    BY <1>1, TrafficMemoryIs DEF TrafficBase
  <2>2. /\ TrafficAll(buffers, threads, t) \in Nat
        /\ TrafficAll(buffers, threads', t)
             = TrafficAll(buffers, threads, t) - buffers[ProcessOf[th]].slots[t].n - TrafficHeld(threads[th], t)
                 + buffers[ProcessOf[th]].slots[t].n + TrafficHeld(j, t)
    BY <1>1, TrafficMoves
  <2>3. TrafficHeld(threads[th], t) = 0 /\ TrafficHeld(j, t) = 0
    BY <1>1, TrafficHeldIs
  <2>4. TrafficAll(buffers, threads', t) = TrafficAll(buffers, threads, t)
    BY <2>1, <2>2, <2>3
  <2> QED
    BY <2>4
<1>3. TrafficCounted'
  BY <1>2 DEF TrafficInv, TrafficCounted
<1>4. TrafficAhead(keys, threads')
  <2>1. TrafficLeads(keys, keys, threads[th], j)
    <3> SUFFICES ASSUME NEW t \in Metered, NEW m \in 0 .. MaxSeconds
                 PROVE  /\ keys[t]["c4"][m] + keys[t]["c5"][m] + TrafficErrors(j, t, m) + keys[t]["n"][m]
                             <= keys[t]["c4"][m] + keys[t]["c5"][m] + TrafficErrors(threads[th], t, m) + keys[t]["n"][m]
                        /\ keys[t]["tt"][m] + TrafficRefusals(j, t, m) + keys[t]["c4"][m]
                             <= keys[t]["tt"][m] + TrafficRefusals(threads[th], t, m) + keys[t]["c4"][m]
      BY Zenon DEF TrafficLeads
    <3>1. /\ TrafficErrors(j, t, m) = 0 /\ TrafficErrors(threads[th], t, m) = 0
          /\ TrafficRefusals(j, t, m) = 0 /\ TrafficRefusals(threads[th], t, m) = 0
      BY <1>1, TrafficPending
    <3>2. /\ keys[t]["n"][m] \in Nat /\ keys[t]["c4"][m] \in Nat /\ keys[t]["c5"][m] \in Nat
          /\ keys[t]["tt"][m] \in Nat
      BY <1>1, TrafficKey DEF traffic!Kind
    <3> QED
      BY <3>1, <3>2
  <2> QED
    BY <1>1, <2>1, TrafficAheadMoves
<1> QED
  BY <1>3, <1>4 DEF TrafficAhead

LEMMA TrafficSpentKept ==
    ASSUME TrafficBase, TrafficInv, NEW th \in Worker, NEW j \in TrafficJob, Moved(threads, threads', th, j),
           j.step \notin {"add", "incr"}, budget' = budget, requests' = requests
    PROVE  TrafficSpent(budget, threads, requests)'
<1>1. /\ threads \in [Worker -> TrafficJob] /\ budget \in [traffic!Key -> [count : Nat, until : Nat]]
      /\ requests \in Nat /\ TrafficSpent(budget, threads, requests)
  BY DEF TrafficInv, TrafficTyped, TrafficBase
<1>2. \A key \in traffic!Key :
         budget[key].count + TrafficWants(j, key) + requests
           <= budget[key].count + TrafficWants(threads[th], key) + requests
  <2> SUFFICES ASSUME NEW key \in traffic!Key
               PROVE  budget[key].count + TrafficWants(j, key) + requests
                        <= budget[key].count + TrafficWants(threads[th], key) + requests
    OBVIOUS
  <2>1. TrafficWants(j, key) = 0 /\ TrafficWants(threads[th], key) \in {0, 1}
    BY <1>1, TrafficWantsIs
  <2>2. budget[key].count \in Nat
    BY <1>1
  <2> QED
    BY <1>1, <2>1, <2>2
<1>3. TrafficSpent(budget, threads', requests)
  BY <1>1, <1>2, TrafficSpentMoves
<1> QED
  BY <1>3 DEF TrafficSpent

LEMMA TrafficLimitedKept ==
    ASSUME TrafficBase, TrafficInv, NEW th \in Worker, NEW j \in TrafficJob, Moved(threads, threads', th, j),
           j.step \in {"add", "incr"} => j.i \in traffic!Limited(j.tenant), policy' = policy
    PROVE  TrafficLimited'
<1>1. /\ threads' \in [Worker -> TrafficJob] /\ threads'[th] = j
      /\ \A u \in Worker \ {th} : threads'[u] = threads[u]
  BY TrafficThreadMoves DEF TrafficInv, TrafficTyped
<1> SUFFICES ASSUME NEW u \in Worker, threads'[u].step \in {"add", "incr"}
             PROVE  threads'[u].i \in {i \in 1 .. Len(traffic!Windows) :
                        policy'[threads'[u].tenant].limit[traffic!Windows[i]] # Unlimited}
  BY DEF TrafficLimited, traffic!Limited
<1>2. threads'[u].i \in traffic!Limited(threads'[u].tenant)
  BY <1>1 DEF TrafficInv, TrafficLimited
<1> QED
  BY <1>2 DEF traffic!Limited

LEMMA TrafficWithinKept ==
    ASSUME TrafficInv, UNCHANGED <<budget, passed, lapsed, policy>>
    PROVE  TrafficWithin'
  BY DEF TrafficInv, TrafficWithin, traffic!Ceiling

-----------------------------------------------------------------------------
(* The steps of the gate *)

LEMMA TrafficArrives ==
    ASSUME TrafficBase, TrafficInv, NEW th \in Worker, NEW t \in Metered, traffic!Arrive(th, t)
    PROVE  TrafficInv'
<1>1. TrafficTyped /\ threads[th] = traffic!Idle /\ requests < MaxHits /\ requests' = requests + 1
      /\ UNCHANGED <<now, policy, budget, buffers, keys, crashes, passed, lapsed, recorded, lost>>
  BY DEF TrafficInv, traffic!Arrive, traffic!history
<1>2. PICK j \in TrafficJob : /\ Moved(threads, threads', th, j)
                              /\ j.step \notin {"write", "idle"}
                              /\ j.step \in {"add", "incr"} => j.i \in traffic!Limited(j.tenant)
  <2> DEFINE walk == traffic!Walk(t, now, 0)
             refusal == [step |-> "record", tenant |-> t, status |-> "refused"]
  <2>1. refusal \in TrafficJob /\ refusal.step = "record"
    BY DEF TrafficJob
  <2>2. /\ walk \in TrafficJob /\ walk.step \in {"view", "add"}
        /\ walk.step = "add" => walk.tenant = t /\ walk.i \in traffic!Limited(t)
    BY <1>1, TrafficWalks DEF TrafficTyped
  <2>3. \/ threads' = [threads EXCEPT ![th] = refusal]
        \/ threads' = [threads EXCEPT ![th] = walk]
    BY DEF traffic!Arrive
  <2> HIDE DEF refusal, walk
  <2> QED
    BY <2>1, <2>2, <2>3 DEF Moved
<1>3. /\ threads \in [Worker -> TrafficJob] /\ threads[th].step = "idle"
      /\ budget \in [traffic!Key -> [count : Nat, until : Nat]]
      /\ requests \in Nat /\ TrafficSpent(budget, threads, requests)
  BY <1>1 DEF TrafficInv, TrafficTyped, TrafficBase, traffic!Idle
<1>4. TrafficCounted' /\ TrafficAhead(keys, threads)'
  BY <1>1, <1>2, <1>3, TrafficQuiet
<1>5. TrafficSpent(budget, threads, requests)'
  <2>1. \A key \in traffic!Key :
           budget[key].count + TrafficWants(j, key) + requests
             <= budget[key].count + TrafficWants(threads[th], key) + (requests + 1)
    <3> SUFFICES ASSUME NEW key \in traffic!Key
                 PROVE  budget[key].count + TrafficWants(j, key) + requests
                          <= budget[key].count + TrafficWants(threads[th], key) + (requests + 1)
      OBVIOUS
    <3>1. TrafficWants(j, key) \in {0, 1} /\ TrafficWants(threads[th], key) \in {0, 1}
      BY <1>3, TrafficWantsIs
    <3>2. budget[key].count \in Nat
      BY <1>3
    <3> QED
      BY <1>3, <3>1, <3>2
  <2>2. requests + 1 \in Nat
    BY <1>3
  <2>3. TrafficSpent(budget, threads', requests + 1)
    BY <1>2, <1>3, <2>1, <2>2, TrafficSpentMoves
  <2> QED
    BY <1>1, <2>3 DEF TrafficSpent
<1>6. TrafficLimited' /\ TrafficWithin'
  BY <1>1, <1>2, TrafficLimitedKept, TrafficWithinKept
<1>7. TrafficTyped'
  <2>1. threads' \in [Worker -> TrafficJob]
    BY <1>2, <1>3, TrafficThreadMoves
  <2>2. requests' \in 0 .. MaxHits
    BY <1>1, <1>3 DEF TrafficBase
  <2> QED
    BY <1>1, <2>1, <2>2 DEF TrafficTyped
<1> QED
  BY <1>4, <1>5, <1>6, <1>7 DEF TrafficInv

LEMMA TrafficViews ==
    ASSUME TrafficBase, TrafficInv, NEW th \in Worker, NEW status \in {"ok", "c5"}, traffic!View(th, status)
    PROVE  TrafficInv'
<1>1. TrafficTyped /\ threads[th].step = "view"
      /\ UNCHANGED <<now, policy, budget, buffers, keys, requests, crashes, passed, lapsed, recorded, lost>>
  BY DEF TrafficInv, traffic!View, traffic!history
<1> DEFINE j == [step |-> "record", tenant |-> threads[th].tenant, status |-> status]
<1>2. threads \in [Worker -> TrafficJob] /\ threads[th].tenant \in Metered
  BY <1>1, TrafficJobs DEF TrafficTyped
<1>3. j \in TrafficJob /\ j.step = "record" /\ Moved(threads, threads', th, j)
  BY <1>2 DEF TrafficJob, Moved, traffic!View
<1> HIDE DEF j
<1>4. TrafficCounted' /\ TrafficAhead(keys, threads)'
  BY <1>1, <1>3, TrafficQuiet
<1>5. TrafficSpent(budget, threads, requests)'
  BY <1>1, <1>3, TrafficSpentKept
<1>6. TrafficLimited' /\ TrafficWithin'
  BY <1>1, <1>3, TrafficLimitedKept, TrafficWithinKept
<1>7. threads' \in [Worker -> TrafficJob]
  BY <1>2, <1>3, TrafficThreadMoves
<1>8. TrafficTyped'
  BY <1>1, <1>7 DEF TrafficTyped
<1> QED
  BY <1>4, <1>5, <1>6, <1>8 DEF TrafficInv

\* One more request is counted, and passes the window or not.
LEMMA TrafficSpends ==
    ASSUME TrafficBase, TrafficInv, NEW th \in Worker, threads[th].step \in {"add", "incr"},
           NEW count \in Nat, NEW until \in Nat, traffic!Judge(th, count),
           budget' = [budget EXCEPT ![traffic!CounterOf(th)] = [count |-> count, until |-> until]],
           count <= budget[traffic!CounterOf(th)].count + 1,
           lapsed' \in {lapsed, lapsed \cup {traffic!CounterOf(th)}},
           traffic!CounterOf(th) \notin lapsed' => count = budget[traffic!CounterOf(th)].count + 1,
           UNCHANGED <<now, policy, buffers, keys, requests, crashes, recorded, lost>>
    PROVE  TrafficInv'
<1> DEFINE mine == traffic!CounterOf(th)
<1>1. TrafficTyped /\ TrafficLimited /\ TrafficWithin
  BY DEF TrafficInv
<1>2. /\ mine \in traffic!Key /\ mine[1] = threads[th].tenant
      /\ mine[3] = threads[th].at \div traffic!Seconds(mine[2])
      /\ TrafficRank(mine[2]) = threads[th].i
  BY <1>1, TrafficCounter
<1>3. PICK j \in TrafficJob :
              /\ Moved(threads, threads', th, j)
              /\ j.step \notin {"write", "idle"}
              /\ j.step \in {"add", "incr"} => j.i \in traffic!Limited(j.tenant)
              /\ TrafficWants(j, mine) = 0
              /\ \A key \in traffic!Key : TrafficWants(j, key) <= TrafficWants(threads[th], key)
              /\ \/ passed' = passed
                 \/ /\ passed' = [passed EXCEPT ![mine] = @ + 1]
                    /\ count <= traffic!Ceiling(mine[1], mine[2])
                    /\ traffic!Ceiling(mine[1], mine[2]) \in Nat
  BY <1>1, TrafficJudged
<1>4. TrafficWants(threads[th], mine) = 1
  <2>1. threads[th].i \in 1 .. 3
    BY <1>1, TrafficJobs DEF TrafficTyped
  <2> HIDE DEF mine
  <2> QED
    BY <1>2, <2>1 DEF TrafficWants
<1>5. /\ budget' = [budget EXCEPT ![mine] = [count |-> count, until |-> until]]
      /\ count <= budget[mine].count + 1
      /\ lapsed' \in {lapsed, lapsed \cup {mine}}
      /\ mine \notin lapsed' => count = budget[mine].count + 1
  OBVIOUS
<1> HIDE DEF mine
<1>6. /\ threads \in [Worker -> TrafficJob] /\ budget \in [traffic!Key -> [count : Nat, until : Nat]]
      /\ requests \in Nat /\ TrafficSpent(budget, threads, requests) /\ passed \in [traffic!Key -> Nat]
      /\ lapsed \subseteq traffic!Key
  BY DEF TrafficInv, TrafficTyped, TrafficBase
<1>7. /\ budget' \in [traffic!Key -> [count : Nat, until : Nat]]
      /\ budget'[mine].count = count /\ budget[mine].count \in Nat
      /\ \A key \in traffic!Key \ {mine} : budget'[key] = budget[key]
  <2> DEFINE new == [count |-> count, until |-> until]
  <2>1. new \in [count : Nat, until : Nat] /\ new.count = count
    OBVIOUS
  <2>2. budget[mine] \in [count : Nat, until : Nat]
    BY <1>2, <1>6
  <2>3. budget' = [budget EXCEPT ![mine] = new]
    BY <1>5
  <2> HIDE DEF new
  <2>4. budget' \in [traffic!Key -> [count : Nat, until : Nat]]
    BY <1>6, <2>1, <2>3
  <2>5. budget'[mine] = new
    BY <1>2, <1>6, <2>3
  <2>6. \A key \in traffic!Key \ {mine} : budget'[key] = budget[key]
    BY <1>6, <2>3
  <2>7. budget[mine].count \in Nat
    BY <2>2
  <2> QED
    BY <2>1, <2>4, <2>5, <2>6, <2>7
<1>8. TrafficCounted' /\ TrafficAhead(keys, threads)'
  BY <1>3, TrafficQuiet
<1>9. TrafficSpent(budget, threads, requests)'
  <2>1. ASSUME NEW key \in traffic!Key
        PROVE  budget'[key].count + TrafficWants(j, key) + requests
                 <= budget[key].count + TrafficWants(threads[th], key) + requests
    <3>1. TrafficWants(j, key) \in {0, 1} /\ TrafficWants(threads[th], key) \in {0, 1}
      BY <1>6, TrafficWantsIs
    <3>2. TrafficWants(j, key) <= TrafficWants(threads[th], key)
      BY <1>3
    <3>3. budget[key].count \in Nat
      BY <1>6
    <3>4. CASE key = mine
      <4>1. TrafficWants(j, key) = 0 /\ TrafficWants(threads[th], key) = 1
        BY <1>3, <1>4, <3>4
      <4>2. budget'[key].count = count /\ count <= budget[key].count + 1
        BY <1>5, <1>7, <3>4
      <4> QED
        BY <1>6, <3>3, <4>1, <4>2
    <3>5. CASE key # mine
      BY <1>6, <1>7, <3>1, <3>2, <3>3, <3>5
    <3> QED
      BY <3>4, <3>5
  <2>2. Moved(threads, threads', th, j)
    BY <1>3
  <2> DEFINE b2 == budget'
             J2 == threads'
  <2>3. \A key \in traffic!Key :
           b2[key].count + TrafficWants(j, key) + requests
             <= budget[key].count + TrafficWants(threads[th], key) + requests
    BY <2>1
  <2>4. b2 \in [traffic!Key -> [count : Nat, until : Nat]] /\ Moved(threads, J2, th, j)
    BY <1>7, <2>2
  <2> HIDE DEF b2, J2
  <2>5. TrafficSpent(b2, J2, requests)
    BY <1>6, <2>3, <2>4, TrafficSpentMoves
  <2> QED
    BY <2>5 DEF TrafficSpent, b2, J2
<1>10. TrafficLimited'
  BY <1>3, TrafficLimitedKept
<1>11. TrafficWithin'
  <2> SUFFICES ASSUME NEW key \in traffic!Key \ lapsed'
               PROVE  /\ passed'[key] <= budget'[key].count
                      /\ passed'[key] > 0 => passed'[key] <= traffic!Ceiling(key[1], key[2])
    BY DEF TrafficWithin, traffic!Ceiling
  <2>1. key \in traffic!Key /\ key \notin lapsed
    BY <1>5
  <2>2. /\ passed[key] <= budget[key].count /\ passed[key] \in Nat
        /\ passed[key] > 0 => passed[key] <= traffic!Ceiling(key[1], key[2])
    BY <1>1, <1>6, <2>1 DEF TrafficWithin
  <2>3. CASE key = mine
    <3>1. count = budget[key].count + 1 /\ budget'[key].count = count /\ budget[key].count \in Nat
      BY <1>5, <1>7, <2>3
    <3>2. \/ passed'[key] = passed[key]
          \/ /\ passed'[key] = passed[key] + 1
             /\ count <= traffic!Ceiling(key[1], key[2]) /\ traffic!Ceiling(key[1], key[2]) \in Nat
      BY <1>3, <1>6, <2>1, <2>3
    <3> QED
      BY <2>2, <3>1, <3>2
  <2>4. CASE key # mine
    <3>1. passed'[key] = passed[key] /\ budget'[key] = budget[key]
      BY <1>3, <1>6, <1>7, <2>1, <2>4
    <3> QED
      BY <2>2, <3>1
  <2> QED
    BY <2>3, <2>4
<1>12. TrafficTyped'
  <2>1. threads' \in [Worker -> TrafficJob]
    BY <1>3, <1>6, TrafficThreadMoves
  <2>2. passed' \in [traffic!Key -> Nat]
    BY <1>3, <1>6
  <2>3. lapsed' \subseteq traffic!Key
    BY <1>2, <1>5, <1>6
  <2> QED
    BY <1>1, <1>7, <2>1, <2>2, <2>3 DEF TrafficTyped
<1> QED
  BY <1>8, <1>9, <1>10, <1>11, <1>12 DEF TrafficInv

LEMMA TrafficFresh ==
    ASSUME TrafficBase, TrafficTyped, NEW key \in traffic!Key
    PROVE  /\ traffic!Fresh(key) = [count |-> 1, until |-> now + traffic!Seconds(key[2]) + 1]
           /\ now + traffic!Seconds(key[2]) + 1 \in Nat
<1>1. key[2] \in traffic!Window
  BY DEF traffic!Key
<1>2. traffic!Seconds(key[2]) \in Nat
  BY <1>1, TrafficSeconds
<1>3. now \in Nat
  BY DEF TrafficTyped
<1> DEFINE s == traffic!Seconds(key[2])
<1> HIDE DEF s
<1>4. now + s + 1 \in Nat
  BY <1>2, <1>3 DEF s
<1> QED
  BY <1>4 DEF s, traffic!Fresh

LEMMA TrafficAdds ==
    ASSUME TrafficBase, TrafficInv, NEW th \in Worker, traffic!Add(th)
    PROVE  TrafficInv'
<1> DEFINE mine == traffic!CounterOf(th)
<1>1. /\ TrafficTyped /\ TrafficLimited /\ TrafficWithin /\ threads[th].step = "add"
      /\ UNCHANGED <<now, policy, buffers, keys, requests, crashes, recorded, lost>>
  BY DEF TrafficInv, traffic!Add
<1>2. mine \in traffic!Key /\ mine[1] = threads[th].tenant
  BY <1>1, TrafficCounter
<1>3. /\ threads[th].tenant \in Metered /\ threads[th].at \in 0 .. MaxSeconds /\ threads[th].i \in 1 .. 3
      /\ threads \in [Worker -> TrafficJob]
  BY <1>1, TrafficJobs DEF TrafficTyped
<1>4. budget \in [traffic!Key -> [count : Nat, until : Nat]] /\ budget[mine] \in [count : Nat, until : Nat]
  BY <1>1, <1>2 DEF TrafficTyped
<1>5. CASE budget[mine].until > now
  <2> DEFINE j == [step |-> "incr", tenant |-> threads[th].tenant, at |-> threads[th].at,
                   i |-> threads[th].i, seen |-> budget[mine].count]
  <2>1. threads' = [threads EXCEPT ![th] = j] /\ UNCHANGED <<budget, passed, lapsed>>
    BY <1>2, <1>5 DEF traffic!Add
  <2>2. j \in TrafficJob
    <3>1. budget[mine].count \in Nat
      BY <1>4
    <3> HIDE DEF mine
    <3> QED
      BY <1>3, <3>1 DEF TrafficJob
  <2> HIDE DEF mine
  <2>3. /\ j.step = "incr" /\ j.tenant = threads[th].tenant /\ j.at = threads[th].at /\ j.i = threads[th].i
        /\ Moved(threads, threads', th, j)
    BY <2>1 DEF Moved
  <2>4. j.i \in traffic!Limited(j.tenant)
    BY <1>1, <2>3 DEF TrafficLimited
  <2> HIDE DEF j
  <2>5. TrafficCounted' /\ TrafficAhead(keys, threads)'
    BY <1>1, <2>2, <2>3, TrafficQuiet
  <2>6. TrafficSpent(budget, threads, requests)'
    <3>1. requests \in Nat /\ TrafficSpent(budget, threads, requests)
      BY <1>1 DEF TrafficInv, TrafficTyped, TrafficBase
    <3>2. \A key \in traffic!Key :
             budget[key].count + TrafficWants(j, key) + requests
               <= budget[key].count + TrafficWants(threads[th], key) + requests
      <4> SUFFICES ASSUME NEW key \in traffic!Key
                   PROVE  budget[key].count + TrafficWants(j, key) + requests
                            <= budget[key].count + TrafficWants(threads[th], key) + requests
        OBVIOUS
      <4>1. TrafficWants(j, key) = TrafficWants(threads[th], key)
        BY <1>1, <2>3 DEF TrafficWants
      <4>2. TrafficWants(j, key) \in {0, 1}
        BY <2>2, TrafficWantsIs
      <4>3. budget[key].count \in Nat
        BY <1>4
      <4> QED
        BY <3>1, <4>1, <4>2, <4>3
    <3>3. TrafficSpent(budget, threads', requests)
      BY <1>3, <1>4, <2>2, <2>3, <3>1, <3>2, TrafficSpentMoves
    <3> QED
      BY <1>1, <2>1, <3>3 DEF TrafficSpent
  <2>7. TrafficLimited' /\ TrafficWithin'
    BY <1>1, <2>1, <2>2, <2>3, <2>4, TrafficLimitedKept, TrafficWithinKept
  <2>8. threads' \in [Worker -> TrafficJob]
    BY <1>3, <2>2, <2>3, TrafficThreadMoves
  <2>9. TrafficTyped'
    BY <1>1, <2>1, <2>8 DEF TrafficTyped
  <2> QED
    BY <2>5, <2>6, <2>7, <2>9 DEF TrafficInv
<1>6. CASE ~(budget[mine].until > now)
  <2> DEFINE until == now + traffic!Seconds(mine[2]) + 1
  <2>1. /\ traffic!Judge(th, 1) /\ budget' = [budget EXCEPT ![mine] = traffic!Fresh(mine)]
        /\ lapsed' = IF budget[mine] # traffic!Expired THEN lapsed \cup {mine} ELSE lapsed
    BY <1>6 DEF traffic!Add
  <2>2. traffic!Fresh(mine) = [count |-> 1, until |-> until] /\ until \in Nat
    BY <1>1, <1>2, TrafficFresh
  <2>3. budget[mine] = traffic!Expired => budget[mine].count = 0
    BY DEF traffic!Expired
  <2> HIDE DEF mine, until
  <2>4. /\ budget' = [budget EXCEPT ![mine] = [count |-> 1, until |-> until]] /\ 1 <= budget[mine].count + 1
        /\ lapsed' \in {lapsed, lapsed \cup {mine}}
        /\ mine \notin lapsed' => 1 = budget[mine].count + 1
    BY <1>4, <2>1, <2>2, <2>3
  <2> QED
    BY <1>1, <2>1, <2>2, <2>4, TrafficSpends DEF mine
<1> QED
  BY <1>5, <1>6

LEMMA TrafficIncrs ==
    ASSUME TrafficBase, TrafficInv, NEW th \in Worker, traffic!Incr(th)
    PROVE  TrafficInv'
<1> DEFINE mine == traffic!CounterOf(th)
<1>1. /\ TrafficTyped /\ threads[th].step = "incr"
      /\ UNCHANGED <<now, policy, buffers, keys, requests, crashes, recorded, lost>>
  BY DEF TrafficInv, traffic!Incr
<1>2. mine \in traffic!Key
  BY <1>1, TrafficCounter
<1>3. budget \in [traffic!Key -> [count : Nat, until : Nat]] /\ budget[mine] \in [count : Nat, until : Nat]
  BY <1>1, <1>2 DEF TrafficTyped
<1>4. CASE budget[mine].until > now
  <2>1. /\ traffic!Judge(th, budget[mine].count + 1)
        /\ budget' = [budget EXCEPT ![mine].count = @ + 1] /\ lapsed' = lapsed
    BY <1>4 DEF traffic!Incr
  <2> HIDE DEF mine
  <2> DEFINE c == budget[mine].count + 1
             u == budget[mine].until
  <2>2. c \in Nat /\ u \in Nat
    BY <1>3
  <2>3. budget' = [budget EXCEPT ![mine] = [count |-> c, until |-> u]]
    <3>1. PICK b \in [count : Nat, until : Nat] : b = budget[mine]
      BY <1>3
    <3>2. [b EXCEPT !.count = b.count + 1] = [count |-> b.count + 1, until |-> b.until]
      OBVIOUS
    <3>3. budget' = [budget EXCEPT ![mine] = [b EXCEPT !.count = b.count + 1]]
      BY <2>1, <3>1
    <3> QED
      BY <3>1, <3>2, <3>3
  <2>4. traffic!Judge(th, c) /\ c <= budget[mine].count + 1 /\ c = budget[mine].count + 1
    BY <2>1, <2>2
  <2> HIDE DEF c, u
  <2> QED
    BY <1>1, <2>1, <2>2, <2>3, <2>4, TrafficSpends DEF mine
<1>5. CASE ~(budget[mine].until > now)
  <2> DEFINE until == now + traffic!Seconds(mine[2]) + 1
  <2>1. /\ traffic!Judge(th, 1) /\ budget' = [budget EXCEPT ![mine] = traffic!Fresh(mine)]
        /\ lapsed' = lapsed \cup {mine}
    BY <1>5 DEF traffic!Incr
  <2>2. traffic!Fresh(mine) = [count |-> 1, until |-> until] /\ until \in Nat
    BY <1>1, <1>2, TrafficFresh
  <2> HIDE DEF mine, until
  <2>3. /\ budget' = [budget EXCEPT ![mine] = [count |-> 1, until |-> until]] /\ 1 <= budget[mine].count + 1
        /\ lapsed' \in {lapsed, lapsed \cup {mine}}
        /\ mine \notin lapsed' => 1 = budget[mine].count + 1
    BY <1>3, <2>1, <2>2
  <2> QED
    BY <1>1, <2>1, <2>2, <2>3, TrafficSpends DEF mine
<1> QED
  BY <1>4, <1>5

-----------------------------------------------------------------------------
(* The steps of the metering *)

\* A request is counted, or a buffer taken away: nothing is forgotten.
LEMMA TrafficHandsOver ==
    ASSUME TrafficBase, TrafficInv, NEW th \in Worker, NEW j \in TrafficJob, Moved(threads, threads', th, j),
           threads[th].step # "write", j.step \in {"write", "idle"},
           \A t \in Metered : \A m : TrafficErrors(j, t, m) = 0 /\ TrafficRefusals(j, t, m) = 0,
           NEW new \in TrafficBuffer, new.second <= now,
           buffers' = [buffers EXCEPT ![ProcessOf[th]] = new],
           recorded' \in [Metered -> Nat],
           \A t \in Metered : recorded'[t] + buffers[ProcessOf[th]].slots[t].n
                                = recorded[t] + new.slots[t].n + TrafficHeld(j, t),
           UNCHANGED <<now, policy, budget, keys, requests, crashes, passed, lapsed, lost>>
    PROVE  TrafficInv'
<1> DEFINE p == ProcessOf[th]
<1>1. /\ TrafficTyped /\ threads \in [Worker -> TrafficJob] /\ buffers \in [Process -> TrafficBuffer]
      /\ keys \in TrafficKeys /\ TrafficAhead(keys, threads) /\ p \in Process
      /\ recorded \in [Metered -> Nat] /\ lost \in [Metered -> Nat]
  BY DEF TrafficInv, TrafficTyped, TrafficBase
<1>2. /\ buffers' \in [Process -> TrafficBuffer] /\ buffers'[p] = new
      /\ \A q \in Process \ {p} : buffers'[q] = buffers[q]
  BY <1>1
<1>3. /\ threads' \in [Worker -> TrafficJob]
  BY <1>1, TrafficThreadMoves
<1> HIDE DEF p
<1>4. TrafficCounted'
  <2> SUFFICES ASSUME NEW t \in Metered
               PROVE  recorded'[t] = lost[t] + Sum(keys[t]["n"], 0 .. MaxSeconds)
                                       + TrafficAll(buffers', threads', t)
    BY Zenon DEF TrafficCounted
  <2> DEFINE B2 == buffers'
             J2 == threads'
             counters == Sum(keys[t]["n"], 0 .. MaxSeconds)
             memory == TrafficAll(buffers, threads, t)
             memory2 == TrafficAll(B2, J2, t)
  <2>1. /\ Moved(threads, J2, th, j) /\ B2 \in [Process -> TrafficBuffer]
        /\ B2[ProcessOf[th]] = new /\ \A q \in Process \ {ProcessOf[th]} : B2[q] = buffers[q]
    BY <1>2 DEF p
  <2> HIDE DEF B2, J2
  <2>2. /\ memory \in Nat
        /\ memory2 = memory - buffers[ProcessOf[th]].slots[t].n - TrafficHeld(threads[th], t)
                         + B2[ProcessOf[th]].slots[t].n + TrafficHeld(j, t)
    BY <1>1, <2>1, TrafficMoves
  <2>3. TrafficHeld(threads[th], t) = 0 /\ TrafficHeld(j, t) \in Nat
    BY <1>1, TrafficHeldIs
  <2>4. buffers[ProcessOf[th]].slots[t].n \in Nat
    BY <1>1, TrafficMemoryIs DEF p
  <2>5. new.slots[t].n \in Nat
    BY DEF TrafficBuffer, TrafficSlots, TrafficSlot, traffic!Slot
  <2>6. recorded[t] = lost[t] + counters + memory
    BY Zenon DEF TrafficInv, TrafficCounted
  <2>7. counters \in Nat
    <3>1. \A m \in 0 .. MaxSeconds : keys[t]["n"][m] \in Nat
      BY <1>1, TrafficKey DEF traffic!Kind
    <3>2. IsFiniteSet(0 .. MaxSeconds)
      BY FS_Interval DEF TrafficBase
    <3> QED
      BY <3>1, <3>2, SumNat
  <2>8. recorded[t] \in Nat /\ lost[t] \in Nat /\ recorded'[t] \in Nat
    BY <1>1
  <2>9. recorded'[t] + buffers[ProcessOf[th]].slots[t].n = recorded[t] + new.slots[t].n + TrafficHeld(j, t)
    OBVIOUS
  <2> DEFINE a == buffers[ProcessOf[th]].slots[t].n
             b == new.slots[t].n
             h == TrafficHeld(j, t)
             r == recorded'[t]
  <2> HIDE DEF counters, memory, memory2, a, b, h, r
  <2>10. memory \in Nat /\ memory2 = memory - a + b + h /\ a \in Nat /\ b \in Nat /\ h \in Nat
    <3>1. B2[ProcessOf[th]].slots[t].n = b
      BY <2>1 DEF b
    <3>2. memory2 = memory - a - 0 + b + h
      BY <2>2, <2>3, <3>1, ZenonT(60) DEF a, b, h
    <3>3. memory \in Nat /\ a \in Nat /\ b \in Nat /\ h \in Nat
      BY <2>2, <2>3, <2>4, <2>5 DEF a, b, h
    <3> QED
      BY <3>2, <3>3
  <2>11. r + a = recorded[t] + b + h /\ recorded[t] = lost[t] + counters + memory
    BY <2>6, <2>9 DEF a, b, h, r
  <2>12. r = lost[t] + counters + memory2
    BY <2>7, <2>8, <2>10, <2>11 DEF r
  <2> QED
    BY <2>12 DEF counters, memory2, B2, J2, r
<1>5. TrafficAhead(keys, threads)'
  <2> DEFINE J2 == threads'
  <2>1. TrafficLeads(keys, keys, threads[th], j)
    <3> SUFFICES ASSUME NEW t \in Metered, NEW m \in 0 .. MaxSeconds
                 PROVE  /\ keys[t]["c4"][m] + keys[t]["c5"][m] + TrafficErrors(j, t, m) + keys[t]["n"][m]
                             <= keys[t]["c4"][m] + keys[t]["c5"][m] + TrafficErrors(threads[th], t, m) + keys[t]["n"][m]
                        /\ keys[t]["tt"][m] + TrafficRefusals(j, t, m) + keys[t]["c4"][m]
                             <= keys[t]["tt"][m] + TrafficRefusals(threads[th], t, m) + keys[t]["c4"][m]
      BY Zenon DEF TrafficLeads
    <3>1. /\ TrafficErrors(j, t, m) = 0 /\ TrafficErrors(threads[th], t, m) = 0
          /\ TrafficRefusals(j, t, m) = 0 /\ TrafficRefusals(threads[th], t, m) = 0
      BY <1>1, TrafficPending
    <3>2. /\ keys[t]["n"][m] \in Nat /\ keys[t]["c4"][m] \in Nat /\ keys[t]["c5"][m] \in Nat
          /\ keys[t]["tt"][m] \in Nat
      BY <1>1, TrafficKey DEF traffic!Kind
    <3> QED
      BY <3>1, <3>2
  <2>2. Moved(threads, J2, th, j)
    OBVIOUS
  <2> HIDE DEF J2
  <2>3. TrafficAhead(keys, J2)
    BY <1>1, <2>1, <2>2, TrafficAheadMoves
  <2> QED
    BY <2>3 DEF TrafficAhead, J2
<1>6. TrafficSpent(budget, threads, requests)'
  BY TrafficSpentKept
<1>7. TrafficLimited' /\ TrafficWithin'
  BY TrafficLimitedKept, TrafficWithinKept
<1>8. TrafficTyped'
  <2>1. \A q \in Process : buffers'[q].second <= now
    BY <1>1, <1>2 DEF TrafficTyped
  <2> QED
    BY <1>1, <1>2, <1>3, <2>1 DEF TrafficTyped
<1> QED
  BY <1>4, <1>5, <1>6, <1>7, <1>8 DEF TrafficInv

LEMMA TrafficIdle ==
    /\ traffic!Idle \in TrafficJob /\ traffic!Idle.step = "idle"
    /\ \A t : TrafficHeld(traffic!Idle, t) = 0
    /\ \A t : \A m : TrafficErrors(traffic!Idle, t, m) = 0 /\ TrafficRefusals(traffic!Idle, t, m) = 0
  BY DEF traffic!Idle, TrafficJob, TrafficHeld, TrafficErrors, TrafficRefusals

LEMMA TrafficNoSlots ==
    /\ traffic!NoSlots \in TrafficSlots
    /\ \A t \in Metered : traffic!NoSlots[t].n = 0
  BY DEF traffic!NoSlots, traffic!NoSlot, TrafficSlots, TrafficSlot, traffic!Slot

LEMMA TrafficCounts ==
    ASSUME NEW slot \in TrafficSlot, NEW status \in {"refused", "ok", "c5"}
    PROVE  traffic!Counted(slot, status) \in TrafficSlot /\ traffic!Counted(slot, status).n = slot.n + 1
<1>1. /\ slot.n \in Nat /\ slot.c4 \in Nat /\ slot.c5 \in Nat /\ slot.tt \in Nat
      /\ slot.tt <= slot.c4 /\ slot.c4 + slot.c5 <= slot.n
  BY DEF TrafficSlot, traffic!Slot
<1>2. CASE status = "refused"
  <2>1. traffic!Counted(slot, status) = [n |-> slot.n + 1, c4 |-> slot.c4 + 1, c5 |-> slot.c5 + 0, tt |-> slot.tt + 1]
    BY <1>2 DEF traffic!Counted
  <2> QED
    BY <1>1, <2>1 DEF TrafficSlot, traffic!Slot
<1>3. CASE status = "ok"
  <2>1. traffic!Counted(slot, status) = [n |-> slot.n + 1, c4 |-> slot.c4 + 0, c5 |-> slot.c5 + 0, tt |-> slot.tt + 0]
    BY <1>3 DEF traffic!Counted
  <2> QED
    BY <1>1, <2>1 DEF TrafficSlot, traffic!Slot
<1>4. CASE status = "c5"
  <2>1. traffic!Counted(slot, status) = [n |-> slot.n + 1, c4 |-> slot.c4 + 0, c5 |-> slot.c5 + 1, tt |-> slot.tt + 0]
    BY <1>4 DEF traffic!Counted
  <2> QED
    BY <1>1, <2>1 DEF TrafficSlot, traffic!Slot
<1> QED
  BY <1>2, <1>3, <1>4

LEMMA TrafficRecords ==
    ASSUME TrafficBase, TrafficInv, NEW th \in Worker, traffic!Record(th)
    PROVE  TrafficInv'
<1> DEFINE p == ProcessOf[th]
           t == threads[th].tenant
           old == buffers[p]
           turns == old.second # now
           mine == IF turns THEN traffic!Swapped(old) ELSE old
           slots2 == [mine.slots EXCEPT ![t] = traffic!Counted(mine.slots[t], threads[th].status)]
           new == [second |-> mine.second, slots |-> slots2]
           j == IF turns /\ old.slots # traffic!NoSlots THEN traffic!Writing(old) ELSE traffic!Idle
<1>1. /\ TrafficTyped /\ threads \in [Worker -> TrafficJob] /\ buffers \in [Process -> TrafficBuffer]
      /\ p \in Process /\ recorded \in [Metered -> Nat] /\ threads[th].step = "record"
      /\ now \in 0 .. MaxSeconds
      /\ UNCHANGED <<now, policy, budget, keys, requests, crashes, passed, lapsed, lost>>
  BY DEF TrafficInv, TrafficTyped, TrafficBase, traffic!Record
<1>2. t \in Metered /\ threads[th].status \in {"refused", "ok", "c5"}
  BY <1>1, TrafficJobs
<1>3. old \in TrafficBuffer /\ old.second <= now
  BY <1>1 DEF TrafficTyped
<1>4. /\ buffers' = [buffers EXCEPT ![p] = [mine EXCEPT !.slots[t] = traffic!Counted(@, threads[th].status)]]
      /\ threads' = [threads EXCEPT ![th] = j]
      /\ recorded' = [recorded EXCEPT ![t] = @ + 1]
  BY Zenon DEF traffic!Record
<1> HIDE DEF old, p
<1>5. mine \in TrafficBuffer /\ mine.second <= now
  <2>1. traffic!Swapped(old) = [second |-> now, slots |-> traffic!NoSlots]
    BY DEF traffic!Swapped
  <2>2. [second |-> now, slots |-> traffic!NoSlots] \in TrafficBuffer
    BY <1>1, TrafficNoSlots DEF TrafficBuffer
  <2>3. now <= now
    BY <1>1 DEF TrafficBase
  <2> QED
    BY <1>3, <2>1, <2>2, <2>3
<1>6. /\ j \in TrafficJob /\ j.step \in {"write", "idle"}
      /\ \A u \in Metered : \A m : TrafficErrors(j, u, m) = 0 /\ TrafficRefusals(j, u, m) = 0
      /\ \A u \in Metered : mine.slots[u].n + TrafficHeld(j, u) = old.slots[u].n
  <2>1. \A u \in Metered : old.slots[u].n \in Nat
    BY <1>3 DEF TrafficBuffer, TrafficSlots, TrafficSlot, traffic!Slot
  <2>2. CASE turns /\ old.slots # traffic!NoSlots
    <3>1. j = traffic!Writing(old) /\ mine.slots = traffic!NoSlots
      BY <2>2 DEF traffic!Swapped
    <3> HIDE DEF j, mine
    <3>2. /\ traffic!Writing(old) \in TrafficJob /\ traffic!Writing(old).step = "write"
          /\ \A u \in Metered : TrafficHeld(traffic!Writing(old), u) = old.slots[u].n
          /\ \A u \in Metered : \A m : /\ TrafficErrors(traffic!Writing(old), u, m) = 0
                                       /\ TrafficRefusals(traffic!Writing(old), u, m) = 0
      BY <1>3, TrafficWriting
    <3>3. \A u \in Metered : mine.slots[u].n = 0
      BY <3>1, TrafficNoSlots
    <3> QED
      BY <2>1, <3>1, <3>2, <3>3
  <2>3. CASE ~(turns /\ old.slots # traffic!NoSlots)
    <3>1. j = traffic!Idle
      BY <2>3
    <3>2. mine.slots = old.slots
      BY <2>3 DEF traffic!Swapped
    <3> HIDE DEF j, mine
    <3> QED
      BY <2>1, <3>1, <3>2, TrafficIdle
  <2> QED
    BY <2>2, <2>3
<1> HIDE DEF mine, j, turns, t
<1>7. /\ slots2 \in TrafficSlots /\ slots2[t].n = mine.slots[t].n + 1
      /\ \A u \in Metered \ {t} : slots2[u] = mine.slots[u]
  <2>1. mine.slots \in TrafficSlots
    BY <1>5 DEF TrafficBuffer
  <2>2. mine.slots[t] \in TrafficSlot
    BY <1>2, <2>1 DEF TrafficSlots
  <2> DEFINE c == traffic!Counted(mine.slots[t], threads[th].status)
  <2>3. c \in TrafficSlot /\ c.n = mine.slots[t].n + 1
    BY <1>2, <2>2, TrafficCounts
  <2> HIDE DEF c
  <2>4. mine.slots \in [Metered -> TrafficSlot]
    BY <2>1 DEF TrafficSlots
  <2>5. slots2 = [mine.slots EXCEPT ![t] = c]
    BY Zenon DEF c
  <2> HIDE DEF slots2
  <2>6. slots2 \in TrafficSlots
    BY <2>3, <2>4, <2>5 DEF TrafficSlots
  <2> QED
    BY <1>2, <2>3, <2>4, <2>5, <2>6
<1>8. buffers' = [buffers EXCEPT ![p] = new]
  <2>1. PICK b \in TrafficBuffer : b = mine
    BY <1>5
  <2>2. [b EXCEPT !.slots[t] = traffic!Counted(@, threads[th].status)]
          = [second |-> b.second, slots |-> [b.slots EXCEPT ![t] = traffic!Counted(b.slots[t], threads[th].status)]]
    BY DEF TrafficBuffer
  <2> QED
    BY <1>4, <2>1, <2>2
<1>9. new \in TrafficBuffer /\ new.second <= now /\ new.slots = slots2
  BY <1>5, <1>7 DEF TrafficBuffer
<1> HIDE DEF slots2, new
<1>10. recorded' \in [Metered -> Nat]
  BY <1>1, <1>2, <1>4
<1>11. ASSUME NEW u \in Metered
       PROVE  recorded'[u] + old.slots[u].n = recorded[u] + new.slots[u].n + TrafficHeld(j, u)
  <2>1. mine.slots[u].n \in Nat
    BY <1>5 DEF TrafficBuffer, TrafficSlots, TrafficSlot, traffic!Slot
  <2>2. TrafficHeld(j, u) \in Nat /\ mine.slots[u].n + TrafficHeld(j, u) = old.slots[u].n
    BY <1>6, TrafficHeldIs
  <2>3. recorded[u] \in Nat
    BY <1>1
  <2>4. CASE u = t
    <3>1. recorded'[u] = recorded[u] + 1 /\ new.slots[u].n = mine.slots[u].n + 1
      BY <1>1, <1>4, <1>7, <1>9, <2>4
    <3> QED
      BY <2>1, <2>2, <2>3, <3>1
  <2>5. CASE u # t
    <3>1. recorded'[u] = recorded[u] /\ new.slots[u] = mine.slots[u]
      BY <1>1, <1>4, <1>7, <1>9, <2>5
    <3> QED
      BY <2>1, <2>2, <2>3, <3>1
  <2> QED
    BY <2>4, <2>5
<1>12. Moved(threads, threads', th, j)
  BY <1>4 DEF Moved
<1> QED
  BY <1>1, <1>6, <1>8, <1>9, <1>10, <1>11, <1>12, TrafficHandsOver DEF p, old

LEMMA TrafficFlushes ==
    ASSUME TrafficBase, TrafficInv, NEW th \in Worker, traffic!Flush(th)
    PROVE  TrafficInv'
<1> DEFINE p == ProcessOf[th]
           old == buffers[p]
           new == [second |-> old.second, slots |-> traffic!NoSlots]
           j == traffic!Writing(old)
<1>1. /\ TrafficTyped /\ threads \in [Worker -> TrafficJob] /\ buffers \in [Process -> TrafficBuffer]
      /\ p \in Process /\ recorded \in [Metered -> Nat] /\ threads[th].step # "write"
      /\ UNCHANGED <<now, policy, budget, keys, requests, crashes, passed, lapsed, lost, recorded>>
  BY DEF TrafficInv, TrafficTyped, TrafficBase, traffic!Flush, traffic!Idle, traffic!history
<1>2. old \in TrafficBuffer /\ old.second <= now
  BY <1>1 DEF TrafficTyped
<1>3. buffers' = [buffers EXCEPT ![p].slots = traffic!NoSlots] /\ Moved(threads, threads', th, j)
  BY Zenon DEF traffic!Flush, Moved
<1>4. buffers' = [buffers EXCEPT ![p] = new]
  <2>1. PICK b \in TrafficBuffer : b = old
    BY <1>2
  <2>2. [b EXCEPT !.slots = traffic!NoSlots] = [second |-> b.second, slots |-> traffic!NoSlots]
    BY DEF TrafficBuffer
  <2> QED
    BY <1>3, <2>1, <2>2
<1> HIDE DEF old
<1>5. /\ j \in TrafficJob /\ j.step = "write"
      /\ \A t \in Metered : TrafficHeld(j, t) = old.slots[t].n
      /\ \A t \in Metered : \A m : TrafficErrors(j, t, m) = 0 /\ TrafficRefusals(j, t, m) = 0
  BY <1>2, TrafficWriting
<1>6. new \in TrafficBuffer /\ new.second <= now /\ new.slots = traffic!NoSlots
  BY <1>2, TrafficNoSlots DEF TrafficBuffer
<1>7. ASSUME NEW t \in Metered
      PROVE  recorded'[t] + old.slots[t].n = recorded[t] + new.slots[t].n + TrafficHeld(j, t)
  <2>1. new.slots[t].n = 0
    BY <1>6, TrafficNoSlots
  <2>2. old.slots[t].n \in Nat
    BY <1>2 DEF TrafficBuffer, TrafficSlots, TrafficSlot, traffic!Slot
  <2>3. recorded[t] \in Nat /\ recorded' = recorded
    BY <1>1
  <2> QED
    BY <1>5, <2>1, <2>2, <2>3
<1> HIDE DEF new, j
<1>8. recorded' \in [Metered -> Nat] /\ j.step \in {"write", "idle"}
  BY <1>1, <1>5
<1>9. buffers' = [buffers EXCEPT ![ProcessOf[th]] = new]
  BY <1>4
<1>10. \A t \in Metered : recorded'[t] + buffers[ProcessOf[th]].slots[t].n
                            = recorded[t] + new.slots[t].n + TrafficHeld(j, t)
  BY <1>7 DEF old
<1>11. Moved(threads, threads', th, j)
  BY <1>3
<1>12. UNCHANGED <<now, policy, budget, keys, requests, crashes, passed, lapsed, lost>>
  BY <1>1
<1> HIDE DEF p
<1> QED
  BY <1>1, <1>5, <1>6, <1>8, <1>9, <1>10, <1>11, <1>12, TrafficHandsOver

LEMMA TrafficBuckets ==
    ASSUME TrafficBase, NEW second \in 0 .. MaxSeconds, NEW kind \in traffic!Kind
    PROVE  /\ traffic!Bucket(kind, second) \in 0 .. MaxSeconds
           /\ kind \in {"n", "c4", "c5", "tt"} => traffic!Bucket(kind, second) = second \div Minute
<1>1. second \in Nat /\ second <= MaxSeconds /\ MaxSeconds \in Nat /\ Minute \in Nat \ {0} /\ Hour \in Nat \ {0}
  BY DEF TrafficBase
<1>2. second \div Minute \in 0 .. MaxSeconds /\ second \div Hour \in 0 .. MaxSeconds
  BY <1>1, Quotients
<1>3. \/ kind = "s" /\ traffic!Bucket(kind, second) = second
      \/ kind \in {"n", "c4", "c5", "tt"} /\ traffic!Bucket(kind, second) = second \div Minute
      \/ kind \in {"hn", "hc5"} /\ traffic!Bucket(kind, second) = second \div Hour
  BY DEF traffic!Bucket, traffic!Kind
<1> QED
  BY <1>2, <1>3

LEMMA TrafficAmounts ==
    ASSUME NEW slot \in TrafficSlot
    PROVE  /\ \A kind \in traffic!Kind : traffic!Amount(slot, kind) \in Nat
           /\ traffic!Amount(slot, "n") = slot.n /\ traffic!Amount(slot, "c4") = slot.c4
           /\ traffic!Amount(slot, "c5") = slot.c5 /\ traffic!Amount(slot, "tt") = slot.tt
<1>1. slot.n \in Nat /\ slot.c4 \in Nat /\ slot.c5 \in Nat /\ slot.tt \in Nat
  BY DEF TrafficSlot, traffic!Slot
<1> QED
  BY <1>1 DEF traffic!Amount, traffic!Kind

TrafficPut(K, t, head, second, slot) ==
    [K EXCEPT ![t] = [kind \in traffic!Kind |->
        IF kind \in head
          THEN [K[t][kind] EXCEPT ![traffic!Bucket(kind, second)] = @ + traffic!Amount(slot, kind)]
          ELSE K[t][kind]]]

TrafficIsPut(K, K2, t, head, second, slot) ==
    /\ K2 \in TrafficKeys
    /\ \A u \in Metered \ {t} : K2[u] = K[u]
    /\ \A kind \in {"n", "c4", "c5", "tt"} : \A m \in 0 .. MaxSeconds :
          K2[t][kind][m] = IF kind \in head /\ m = second \div Minute
                             THEN K[t][kind][m] + traffic!Amount(slot, kind) ELSE K[t][kind][m]

TrafficLeft(w, t) == [w.todo EXCEPT ![t] = Tail(@)]

TrafficGoesOn(w, t) ==
    IF \A u \in Metered : TrafficLeft(w, t)[u] = <<>> THEN traffic!Idle
    ELSE [w EXCEPT !.todo = TrafficLeft(w, t)]

\* The counters when some keys of a client are written.
LEMMA TrafficWritten ==
    ASSUME TrafficBase, NEW K \in TrafficKeys, NEW t \in Metered, NEW head, NEW second \in 0 .. MaxSeconds,
           NEW slot \in TrafficSlot, NEW K2, K2 = TrafficPut(K, t, head, second, slot)
    PROVE  TrafficIsPut(K, K2, t, head, second, slot)
<1> DEFINE new == [kind \in traffic!Kind |->
                   IF kind \in head
                     THEN [K[t][kind] EXCEPT ![traffic!Bucket(kind, second)] = @ + traffic!Amount(slot, kind)]
                     ELSE K[t][kind]]
<1>1. ASSUME NEW kind \in traffic!Kind
      PROVE  /\ new[kind] \in [0 .. MaxSeconds -> Nat]
             /\ \A m \in 0 .. MaxSeconds :
                   new[kind][m] = IF kind \in head /\ m = traffic!Bucket(kind, second)
                                    THEN K[t][kind][m] + traffic!Amount(slot, kind) ELSE K[t][kind][m]
  <2>1. K[t][kind] \in [0 .. MaxSeconds -> Nat]
    BY DEF TrafficKeys
  <2> DEFINE b == traffic!Bucket(kind, second)
             a == traffic!Amount(slot, kind)
  <2>2. b \in 0 .. MaxSeconds /\ a \in Nat
    BY TrafficBuckets, TrafficAmounts
  <2>3. new[kind] = IF kind \in head THEN [K[t][kind] EXCEPT ![b] = @ + a] ELSE K[t][kind]
    OBVIOUS
  <2> HIDE DEF a, b, new
  <2>4. new[kind] \in [0 .. MaxSeconds -> Nat]
    <3>1. CASE kind \in head
      <4>1. new[kind] = [K[t][kind] EXCEPT ![b] = K[t][kind][b] + a]
        BY <2>3, <3>1
      <4>2. K[t][kind][b] \in Nat
        BY <2>2, TrafficKey
      <4> DEFINE v == K[t][kind][b]
      <4> HIDE DEF v
      <4>3. v + a \in Nat
        BY <2>2, <4>2 DEF v
      <4> QED
        BY <2>1, <2>2, <4>1, <4>3 DEF v
    <3>2. CASE kind \notin head
      BY <2>1, <2>3, <3>2
    <3> QED
      BY <3>1, <3>2
  <2>5. \A m \in 0 .. MaxSeconds :
           new[kind][m] = IF kind \in head /\ m = b THEN K[t][kind][m] + a ELSE K[t][kind][m]
    <3>1. CASE kind \in head
      <4>1. new[kind] = [K[t][kind] EXCEPT ![b] = K[t][kind][b] + a]
        BY <2>3, <3>1
      <4> QED
        BY <2>1, <2>2, <3>1, <4>1
    <3>2. CASE kind \notin head
      BY <2>3, <3>2
    <3> QED
      BY <3>1, <3>2
  <2> QED
    BY <2>4, <2>5 DEF a, b
<1>2. new \in [traffic!Kind -> [0 .. MaxSeconds -> Nat]]
  BY <1>1
<1>3. K2 = [K EXCEPT ![t] = new]
  BY Zenon DEF TrafficPut
<1> HIDE DEF new
<1>4. K2 \in TrafficKeys /\ K2[t] = new /\ \A u \in Metered \ {t} : K2[u] = K[u]
  BY <1>2, <1>3 DEF TrafficKeys
<1>5. ASSUME NEW kind \in {"n", "c4", "c5", "tt"}, NEW m \in 0 .. MaxSeconds
      PROVE  K2[t][kind][m] = IF kind \in head /\ m = second \div Minute
                                THEN K[t][kind][m] + traffic!Amount(slot, kind) ELSE K[t][kind][m]
  <2>1. kind \in traffic!Kind
    BY DEF traffic!Kind
  <2>2. traffic!Bucket(kind, second) = second \div Minute
    BY <2>1, TrafficBuckets
  <2>3. K2[t][kind] = new[kind]
    BY <1>4
  <2>4. new[kind][m] = IF kind \in head /\ m = traffic!Bucket(kind, second)
                         THEN K[t][kind][m] + traffic!Amount(slot, kind) ELSE K[t][kind][m]
    BY <1>1, <2>1, Zenon
  <2> QED
    BY <2>2, <2>3, <2>4, Zenon
<1> QED
  BY <1>4, <1>5, Zenon DEF TrafficIsPut

\* What is left to write after the next keys of a client.
LEMMA TrafficTurn ==
    ASSUME TrafficBase, NEW w \in [step : {"write"}, second : 0 .. MaxSeconds, slots : TrafficSlots,
                                   todo : [Metered -> TrafficTodo]],
           NEW t \in Metered, w.todo[t] # <<>>, NEW rest, rest = TrafficLeft(w, t),
           NEW j, j = TrafficGoesOn(w, t)
    PROVE  /\ j \in TrafficJob /\ j.step \in {"write", "idle"}
           /\ \A u \in Metered : TrafficHeld(j, u) = IF TrafficHas(rest[u], "n") THEN w.slots[u].n ELSE 0
           /\ \A u \in Metered : \A m :
                 TrafficErrors(j, u, m) =
                    IF w.second \div Minute = m /\ ~TrafficHas(rest[u], "n")
                      THEN (IF TrafficHas(rest[u], "c4") THEN w.slots[u].c4 ELSE 0)
                             + (IF TrafficHas(rest[u], "c5") THEN w.slots[u].c5 ELSE 0)
                      ELSE 0
           /\ \A u \in Metered : \A m :
                 TrafficRefusals(j, u, m) =
                    IF w.second \div Minute = m /\ ~TrafficHas(rest[u], "c4") /\ TrafficHas(rest[u], "tt")
                      THEN w.slots[u].tt ELSE 0
<1>1. rest \in [Metered -> TrafficTodo]
  <2>1. w.todo \in [Metered -> TrafficTodo]
    OBVIOUS
  <2>2. w.todo[t] \in TrafficTodo
    BY <2>1
  <2>3. Tail(w.todo[t]) \in TrafficTodo
    BY <2>2, TrafficNextKeys
  <2> DEFINE q == Tail(w.todo[t])
  <2>4. rest = [w.todo EXCEPT ![t] = q]
    BY Zenon DEF TrafficLeft
  <2> HIDE DEF q
  <2> QED
    BY <2>1, <2>3, <2>4 DEF q
<1>2. CASE \A u \in Metered : rest[u] = <<>>
  <2>1. j = traffic!Idle
    BY <1>2, Zenon DEF TrafficGoesOn
  <2>2. \A u \in Metered : \A x : ~TrafficHas(rest[u], x)
    BY <1>2 DEF TrafficHas
  <2>3. /\ j \in TrafficJob /\ j.step = "idle" /\ \A u : TrafficHeld(j, u) = 0
        /\ \A u : \A m : TrafficErrors(j, u, m) = 0 /\ TrafficRefusals(j, u, m) = 0
    BY <2>1, TrafficIdle, Zenon
  <2>4. ASSUME NEW u \in Metered, NEW m
        PROVE  /\ TrafficHeld(j, u) = 0 /\ TrafficErrors(j, u, m) = 0 /\ TrafficRefusals(j, u, m) = 0
               /\ ~TrafficHas(rest[u], "n") /\ ~TrafficHas(rest[u], "tt")
               /\ ~TrafficHas(rest[u], "c4") /\ ~TrafficHas(rest[u], "c5")
    BY <2>2, <2>3
  <2>5. \A u \in Metered : TrafficHeld(j, u) = IF TrafficHas(rest[u], "n") THEN w.slots[u].n ELSE 0
    BY <2>4
  <2>6. \A u \in Metered : \A m :
           TrafficErrors(j, u, m) =
              IF w.second \div Minute = m /\ ~TrafficHas(rest[u], "n")
                THEN (IF TrafficHas(rest[u], "c4") THEN w.slots[u].c4 ELSE 0)
                       + (IF TrafficHas(rest[u], "c5") THEN w.slots[u].c5 ELSE 0)
                ELSE 0
    <3> SUFFICES ASSUME NEW u \in Metered, NEW m
                 PROVE  TrafficErrors(j, u, m) =
                           IF w.second \div Minute = m /\ ~TrafficHas(rest[u], "n")
                             THEN (IF TrafficHas(rest[u], "c4") THEN w.slots[u].c4 ELSE 0)
                                    + (IF TrafficHas(rest[u], "c5") THEN w.slots[u].c5 ELSE 0)
                             ELSE 0
      OBVIOUS
    <3> QED
      BY <2>4
  <2>7. \A u \in Metered : \A m :
           TrafficRefusals(j, u, m) =
              IF w.second \div Minute = m /\ ~TrafficHas(rest[u], "c4") /\ TrafficHas(rest[u], "tt")
                THEN w.slots[u].tt ELSE 0
    BY <2>4
  <2> QED
    BY <2>3, <2>5, <2>6, <2>7, Zenon
<1>3. CASE ~\A u \in Metered : rest[u] = <<>>
  <2>1. j = [w EXCEPT !.todo = rest]
    BY <1>3, Zenon DEF TrafficGoesOn
  <2>2. j = [step |-> "write", second |-> w.second, slots |-> w.slots, todo |-> rest]
    BY <2>1
  <2>3. /\ j \in TrafficJob /\ j.step = "write" /\ j.second = w.second /\ j.slots = w.slots /\ j.todo = rest
    <3>1. w.second \in 0 .. MaxSeconds /\ w.slots \in TrafficSlots
      OBVIOUS
    <3>2. j \in [step : {"write"}, second : 0 .. MaxSeconds, slots : TrafficSlots,
                 todo : [Metered -> TrafficTodo]]
      BY <1>1, <2>2, <3>1
    <3>3. j \in TrafficJob
      BY <3>2, ZenonT(60) DEF TrafficJob
    <3> QED
      BY <2>2, <3>3
  <2> QED
    BY <2>3, Zenon DEF TrafficHeld, TrafficErrors, TrafficRefusals
<1> QED
  BY <1>2, <1>3

\* Whatever the keys are, the requests stay ahead of the errors.
LEMMA TrafficWritesAhead ==
    ASSUME TrafficBase, NEW w \in [step : {"write"}, second : 0 .. MaxSeconds, slots : TrafficSlots,
                                   todo : [Metered -> TrafficTodo]],
           NEW t \in Metered, w.todo[t] # <<>>, NEW j, j = TrafficGoesOn(w, t),
           NEW K \in TrafficKeys, NEW K2, K2 = TrafficPut(K, t, Head(w.todo[t]), w.second, w.slots[t]),
           NEW u \in Metered, NEW m \in 0 .. MaxSeconds
    PROVE  /\ K2[u]["c4"][m] + K2[u]["c5"][m] + TrafficErrors(j, u, m) + K[u]["n"][m]
                <= K[u]["c4"][m] + K[u]["c5"][m] + TrafficErrors(w, u, m) + K2[u]["n"][m]
           /\ K2[u]["tt"][m] + TrafficRefusals(j, u, m) + K[u]["c4"][m]
                <= K[u]["tt"][m] + TrafficRefusals(w, u, m) + K2[u]["c4"][m]
<1> DEFINE rest == TrafficLeft(w, t)
           head == Head(w.todo[t])
           q == w.todo[t]
           slot == w.slots[u]
           e2 == TrafficErrors(j, u, m)
           r2 == TrafficRefusals(j, u, m)
           e == TrafficErrors(w, u, m)
           r == TrafficRefusals(w, u, m)
<1>1. w.second \in 0 .. MaxSeconds /\ w.slots[t] \in TrafficSlot /\ slot \in TrafficSlot
      /\ w.todo \in [Metered -> TrafficTodo] /\ q \in TrafficTodo /\ w.step = "write"
  BY DEF TrafficSlots
<1>2. /\ K2 \in TrafficKeys
      /\ \A v \in Metered \ {t} : K2[v] = K[v]
      /\ \A kind \in {"n", "c4", "c5", "tt"} : \A b \in 0 .. MaxSeconds :
            K2[t][kind][b] = IF kind \in head /\ b = w.second \div Minute
                               THEN K[t][kind][b] + traffic!Amount(w.slots[t], kind) ELSE K[t][kind][b]
  <2> DEFINE second == w.second
             mine == w.slots[t]
  <2>1. /\ K2 = TrafficPut(K, t, head, second, mine) /\ second \in 0 .. MaxSeconds /\ mine \in TrafficSlot
    BY <1>1
  <2> HIDE DEF head, second, mine
  <2>2. TrafficIsPut(K, K2, t, head, second, mine)
    BY <2>1, TrafficWritten
  <2> QED
    BY <2>2, Zenon DEF TrafficIsPut, second, mine
<1>3. /\ e2 = IF w.second \div Minute = m /\ ~TrafficHas(rest[u], "n")
                THEN (IF TrafficHas(rest[u], "c4") THEN slot.c4 ELSE 0)
                       + (IF TrafficHas(rest[u], "c5") THEN slot.c5 ELSE 0)
                ELSE 0
      /\ r2 = IF w.second \div Minute = m /\ ~TrafficHas(rest[u], "c4") /\ TrafficHas(rest[u], "tt")
                THEN slot.tt ELSE 0
  BY TrafficTurn
<1>4. /\ e = IF w.second \div Minute = m /\ ~TrafficHas(w.todo[u], "n")
               THEN (IF TrafficHas(w.todo[u], "c4") THEN slot.c4 ELSE 0)
                      + (IF TrafficHas(w.todo[u], "c5") THEN slot.c5 ELSE 0)
               ELSE 0
      /\ r = IF w.second \div Minute = m /\ ~TrafficHas(w.todo[u], "c4") /\ TrafficHas(w.todo[u], "tt")
               THEN slot.tt ELSE 0
  BY <1>1, Zenon DEF TrafficErrors, TrafficRefusals
<1>5. /\ slot.n \in Nat /\ slot.c4 \in Nat /\ slot.c5 \in Nat /\ slot.tt \in Nat
      /\ slot.tt <= slot.c4 /\ slot.c4 + slot.c5 <= slot.n
  BY <1>1 DEF TrafficSlot, traffic!Slot
<1>6. /\ K[u]["n"][m] \in Nat /\ K[u]["c4"][m] \in Nat /\ K[u]["c5"][m] \in Nat /\ K[u]["tt"][m] \in Nat
  BY TrafficKey DEF traffic!Kind
<1> HIDE DEF e, e2, r, r2, slot, head, rest
<1>7. CASE u # t
  <2>1. K2[u] = K[u]
    BY <1>2, <1>7
  <2>2. rest[u] = w.todo[u]
    BY <1>1, <1>7 DEF rest, TrafficLeft
  <2>3. e2 = e /\ r2 = r
    BY <1>3, <1>4, <2>2, Zenon
  <2>4. e \in Nat /\ r \in Nat
    <3>1. w \in TrafficJob
      BY Zenon DEF TrafficJob
    <3> QED
      BY <3>1, TrafficPending DEF e, r
  <2> DEFINE n == K[u]["n"][m]
             c4 == K[u]["c4"][m]
             c5 == K[u]["c5"][m]
             tt == K[u]["tt"][m]
  <2>5. n \in Nat /\ c4 \in Nat /\ c5 \in Nat /\ tt \in Nat
    BY <1>6
  <2> HIDE DEF n, c4, c5, tt
  <2>6. c4 + c5 + e + n <= c4 + c5 + e + n /\ tt + r + c4 <= tt + r + c4
    BY <2>4, <2>5, SMTT(60)
  <2> QED
    BY <2>1, <2>3, <2>6, Zenon DEF e, e2, r, r2, n, c4, c5, tt
<1>8. CASE u = t
  <2> DEFINE b == w.second \div Minute
             n == K[u]["n"][m]
             c4 == K[u]["c4"][m]
             c5 == K[u]["c5"][m]
             tt == K[u]["tt"][m]
             n2 == K2[u]["n"][m]
             c42 == K2[u]["c4"][m]
             c52 == K2[u]["c5"][m]
             tt2 == K2[u]["tt"][m]
  <2>1. /\ head \in TrafficGroups
        /\ \A x : TrafficHas(q, x) <=> x \in head \/ TrafficHas(Tail(q), x)
        /\ \A x \in head : ~TrafficHas(Tail(q), x)
        /\ ~TrafficHas(Tail(q), "n")
        /\ "tt" \in head => ~TrafficHas(q, "c4")
    BY <1>1, TrafficNextKeys DEF head
  <2>2. rest[u] = Tail(q) /\ w.todo[u] = q
    BY <1>1, <1>8 DEF rest, TrafficLeft
  <2>3. /\ n2 = IF "n" \in head /\ m = b THEN n + slot.n ELSE n
        /\ c42 = IF "c4" \in head /\ m = b THEN c4 + slot.c4 ELSE c4
        /\ c52 = IF "c5" \in head /\ m = b THEN c5 + slot.c5 ELSE c5
        /\ tt2 = IF "tt" \in head /\ m = b THEN tt + slot.tt ELSE tt
    <3>1. /\ traffic!Amount(slot, "n") = slot.n /\ traffic!Amount(slot, "c4") = slot.c4
          /\ traffic!Amount(slot, "c5") = slot.c5 /\ traffic!Amount(slot, "tt") = slot.tt
      BY <1>1, TrafficAmounts
    <3>2. w.slots[t] = slot
      BY <1>8 DEF slot
    <3>3. \A kind \in {"n", "c4", "c5", "tt"} :
             K2[t][kind][m] = IF kind \in head /\ m = b THEN K[t][kind][m] + traffic!Amount(w.slots[t], kind)
                              ELSE K[t][kind][m]
      BY <1>2, ZenonT(60)
    <3>4. /\ n2 = K2[t]["n"][m] /\ n = K[t]["n"][m] /\ c42 = K2[t]["c4"][m] /\ c4 = K[t]["c4"][m]
          /\ c52 = K2[t]["c5"][m] /\ c5 = K[t]["c5"][m] /\ tt2 = K2[t]["tt"][m] /\ tt = K[t]["tt"][m]
      BY <1>8, Zenon
    <3> HIDE DEF n, c4, c5, tt, n2, c42, c52, tt2, b
    <3>5. /\ n2 = IF "n" \in head /\ m = b THEN n + traffic!Amount(slot, "n") ELSE n
          /\ c42 = IF "c4" \in head /\ m = b THEN c4 + traffic!Amount(slot, "c4") ELSE c4
          /\ c52 = IF "c5" \in head /\ m = b THEN c5 + traffic!Amount(slot, "c5") ELSE c5
          /\ tt2 = IF "tt" \in head /\ m = b THEN tt + traffic!Amount(slot, "tt") ELSE tt
      BY <3>2, <3>3, <3>4, Zenon
    <3> QED
      BY <3>1, <3>5, Zenon
  <2> DEFINE hn == "n" \in head
             h4 == "c4" \in head
             h5 == "c5" \in head
             ht == "tt" \in head
             q4 == TrafficHas(Tail(q), "c4")
             q5 == TrafficHas(Tail(q), "c5")
             qt == TrafficHas(Tail(q), "tt")
  <2>4. /\ ~TrafficHas(Tail(q), "n") /\ (TrafficHas(q, "n") <=> hn)
        /\ (TrafficHas(q, "c4") <=> h4 \/ q4) /\ (TrafficHas(q, "c5") <=> h5 \/ q5)
        /\ (TrafficHas(q, "tt") <=> ht \/ qt)
        /\ (h4 => ~q4) /\ (h5 => ~q5) /\ (ht => ~qt) /\ (ht => ~q4 /\ ~h4)
    BY <2>1
  <2>5. /\ hn => ~h4 /\ ~h5 /\ ~ht
        /\ h4 => ~hn /\ ~h5 /\ ~ht
        /\ h5 => ~hn /\ ~h4 /\ ~ht
        /\ ht => ~hn /\ ~h4 /\ ~h5
    BY <2>1 DEF TrafficGroups
  <2>6. n \in Nat /\ c4 \in Nat /\ c5 \in Nat /\ tt \in Nat
    BY <1>6
  <2> HIDE DEF hn, h4, h5, ht, q4, q5, qt, b, n, c4, c5, tt, n2, c42, c52, tt2
  <2>7. CASE m # b
    <3>1. e = 0 /\ e2 = 0 /\ r = 0 /\ r2 = 0
      BY <1>3, <1>4, <2>7 DEF b
    <3>2. n2 = n /\ c42 = c4 /\ c52 = c5 /\ tt2 = tt
      BY <2>3, <2>7
    <3>3. /\ c42 + c52 + e2 + n <= c4 + c5 + e + n2
          /\ tt2 + r2 + c4 <= tt + r + c42
      BY <2>6, <3>1, <3>2, SMTT(60)
    <3> QED
      BY <3>3 DEF e, e2, r, r2, n, c4, c5, tt, n2, c42, c52, tt2
  <2>8. CASE m = b
    <3>1. /\ e = IF hn THEN 0 ELSE (IF h4 \/ q4 THEN slot.c4 ELSE 0) + (IF h5 \/ q5 THEN slot.c5 ELSE 0)
          /\ e2 = (IF q4 THEN slot.c4 ELSE 0) + (IF q5 THEN slot.c5 ELSE 0)
          /\ r = IF ~(h4 \/ q4) /\ (ht \/ qt) THEN slot.tt ELSE 0
          /\ r2 = IF ~q4 /\ qt THEN slot.tt ELSE 0
      <4>1. w.second \div Minute = m
        BY <2>8 DEF b
      <4>2. e = IF hn THEN 0 ELSE (IF h4 \/ q4 THEN slot.c4 ELSE 0) + (IF h5 \/ q5 THEN slot.c5 ELSE 0)
        BY <1>4, <2>2, <2>4, <4>1
      <4>3. e2 = (IF q4 THEN slot.c4 ELSE 0) + (IF q5 THEN slot.c5 ELSE 0)
        BY <1>3, <2>2, <2>4, <4>1 DEF q4, q5
      <4>4. r = IF ~(h4 \/ q4) /\ (ht \/ qt) THEN slot.tt ELSE 0
        BY <1>4, <2>2, <2>4, <4>1
      <4>5. r2 = IF ~q4 /\ qt THEN slot.tt ELSE 0
        BY <1>3, <2>2, <4>1 DEF q4, qt
      <4> QED
        BY <4>2, <4>3, <4>4, <4>5
    <3>2. /\ n2 = IF hn THEN n + slot.n ELSE n
          /\ c42 = IF h4 THEN c4 + slot.c4 ELSE c4
          /\ c52 = IF h5 THEN c5 + slot.c5 ELSE c5
          /\ tt2 = IF ht THEN tt + slot.tt ELSE tt
      BY <2>3, <2>8 DEF hn, h4, h5, ht
    <3> DEFINE s4 == slot.c4
               s5 == slot.c5
               st == slot.tt
               sn == slot.n
    <3> HIDE DEF s4, s5, st, sn
    <3>3. sn \in Nat /\ s4 \in Nat /\ s5 \in Nat /\ st \in Nat /\ st <= s4 /\ s4 + s5 <= sn
      BY <1>5 DEF s4, s5, st, sn
    <3>4. /\ e = IF hn THEN 0 ELSE (IF h4 \/ q4 THEN s4 ELSE 0) + (IF h5 \/ q5 THEN s5 ELSE 0)
          /\ e2 = (IF q4 THEN s4 ELSE 0) + (IF q5 THEN s5 ELSE 0)
          /\ r = IF ~(h4 \/ q4) /\ (ht \/ qt) THEN st ELSE 0
          /\ r2 = IF ~q4 /\ qt THEN st ELSE 0
          /\ n2 = IF hn THEN n + sn ELSE n
          /\ c42 = IF h4 THEN c4 + s4 ELSE c4
          /\ c52 = IF h5 THEN c5 + s5 ELSE c5
          /\ tt2 = IF ht THEN tt + st ELSE tt
      BY <3>1, <3>2, Zenon DEF s4, s5, st, sn
    <3>5. c42 + c52 + e2 + n <= c4 + c5 + e + n2
      BY <2>4, <2>5, <2>6, <3>3, <3>4
    <3>6. tt2 + r2 + c4 <= tt + r + c42
      BY <2>4, <2>5, <2>6, <3>3, <3>4
    <3> QED
      BY <3>5, <3>6 DEF e, e2, r, r2, n, c4, c5, tt, n2, c42, c52, tt2
  <2> QED
    BY <2>7, <2>8
<1> QED
  BY <1>7, <1>8

LEMMA TrafficWrites ==
    ASSUME TrafficBase, TrafficInv, NEW th \in Worker, NEW t \in Metered, traffic!WriteKey(th, t)
    PROVE  TrafficInv'
<1> DEFINE w == threads[th]
           j == TrafficGoesOn(w, t)
           K2 == TrafficPut(keys, t, Head(w.todo[t]), w.second, w.slots[t])
<1>1. /\ TrafficTyped /\ threads \in [Worker -> TrafficJob] /\ buffers \in [Process -> TrafficBuffer]
      /\ keys \in TrafficKeys /\ TrafficAhead(keys, threads) /\ ProcessOf[th] \in Process
      /\ recorded \in [Metered -> Nat] /\ lost \in [Metered -> Nat]
      /\ w.step = "write" /\ w.todo[t] # <<>>
      /\ UNCHANGED <<now, policy, budget, buffers, requests, crashes, passed, lapsed, recorded, lost>>
  BY DEF TrafficInv, TrafficTyped, TrafficBase, traffic!WriteKey, traffic!history
<1>2. w \in [step : {"write"}, second : 0 .. MaxSeconds, slots : TrafficSlots, todo : [Metered -> TrafficTodo]]
  BY <1>1, TrafficJobs
<1>3. keys' = K2 /\ Moved(threads, threads', th, j)
  BY Zenon DEF traffic!WriteKey, TrafficPut, TrafficGoesOn, TrafficLeft, Moved
<1> HIDE DEF w
<1>4. /\ j \in TrafficJob /\ j.step \in {"write", "idle"}
      /\ \A u \in Metered : TrafficHeld(j, u)
                              = IF TrafficHas(TrafficLeft(w, t)[u], "n") THEN w.slots[u].n ELSE 0
  BY <1>1, <1>2, TrafficTurn
<1> DEFINE head == Head(w.todo[t])
           second == w.second
           slot == w.slots[t]
<1>5. second \in 0 .. MaxSeconds /\ slot \in TrafficSlot
  BY <1>2 DEF TrafficSlots
<1>6. TrafficIsPut(keys, K2, t, head, second, slot)
  <2>1. K2 = TrafficPut(keys, t, head, second, slot)
    BY Zenon
  <2> HIDE DEF K2, head, second, slot
  <2> QED
    BY <1>1, <1>5, <2>1, TrafficWritten
<1>7. TrafficAhead(keys, threads)'
  <2>1. \A u \in Metered : \A m \in 0 .. MaxSeconds :
           /\ K2[u]["c4"][m] + K2[u]["c5"][m] + TrafficErrors(j, u, m) + keys[u]["n"][m]
                <= keys[u]["c4"][m] + keys[u]["c5"][m] + TrafficErrors(threads[th], u, m) + K2[u]["n"][m]
           /\ K2[u]["tt"][m] + TrafficRefusals(j, u, m) + keys[u]["c4"][m]
                <= keys[u]["tt"][m] + TrafficRefusals(threads[th], u, m) + K2[u]["c4"][m]
    <3> SUFFICES ASSUME NEW u \in Metered, NEW m \in 0 .. MaxSeconds
                 PROVE  /\ K2[u]["c4"][m] + K2[u]["c5"][m] + TrafficErrors(j, u, m) + keys[u]["n"][m]
                             <= keys[u]["c4"][m] + keys[u]["c5"][m] + TrafficErrors(w, u, m) + K2[u]["n"][m]
                        /\ K2[u]["tt"][m] + TrafficRefusals(j, u, m) + keys[u]["c4"][m]
                             <= keys[u]["tt"][m] + TrafficRefusals(w, u, m) + K2[u]["c4"][m]
      BY Zenon DEF w
    <3> DEFINE jj == j
               KK == K2
    <3>1. jj = TrafficGoesOn(w, t) /\ KK = TrafficPut(keys, t, Head(w.todo[t]), w.second, w.slots[t])
      BY Zenon
    <3> HIDE DEF jj, KK
    <3>2. /\ KK[u]["c4"][m] + KK[u]["c5"][m] + TrafficErrors(jj, u, m) + keys[u]["n"][m]
               <= keys[u]["c4"][m] + keys[u]["c5"][m] + TrafficErrors(w, u, m) + KK[u]["n"][m]
          /\ KK[u]["tt"][m] + TrafficRefusals(jj, u, m) + keys[u]["c4"][m]
               <= keys[u]["tt"][m] + TrafficRefusals(w, u, m) + KK[u]["c4"][m]
      BY <1>1, <1>2, <3>1, TrafficWritesAhead
    <3> QED
      BY <3>2, Zenon DEF jj, KK
  <2>2. K2 \in TrafficKeys
    BY <1>6, Zenon DEF TrafficIsPut
  <2> DEFINE J2 == threads'
  <2>3. Moved(threads, J2, th, j)
    BY <1>3
  <2> HIDE DEF J2, j, K2
  <2>4. TrafficAhead(K2, J2)
    <3>1. TrafficLeads(keys, K2, threads[th], j)
      BY <2>1, Zenon DEF TrafficLeads
    <3> QED
      BY <1>1, <1>4, <2>2, <2>3, <3>1, TrafficAheadMoves
  <2> QED
    BY <1>3, <2>4 DEF TrafficAhead, J2
<1> HIDE DEF head, second, slot, j, K2
<1>8. K2 \in TrafficKeys /\ (\A u \in Metered \ {t} : K2[u] = keys[u])
      /\ \A m \in 0 .. MaxSeconds :
            K2[t]["n"][m] = IF "n" \in head /\ m = second \div Minute
                              THEN keys[t]["n"][m] + slot.n ELSE keys[t]["n"][m]
  <2>1. traffic!Amount(slot, "n") = slot.n
    BY <1>5, TrafficAmounts
  <2> QED
    BY <1>6, <2>1, Zenon DEF TrafficIsPut
<1>9. /\ ~TrafficHas(TrafficLeft(w, t)[t], "n")
      /\ TrafficHas(w.todo[t], "n") <=> "n" \in head
      /\ \A u \in Metered \ {t} : TrafficLeft(w, t)[u] = w.todo[u]
  <2>1. w.todo \in [Metered -> TrafficTodo] /\ w.todo[t] \in TrafficTodo
    BY <1>2
  <2>2. /\ \A x : TrafficHas(w.todo[t], x) <=> x \in head \/ TrafficHas(Tail(w.todo[t]), x)
        /\ ~TrafficHas(Tail(w.todo[t]), "n")
    BY <1>1, <2>1, TrafficNextKeys DEF head
  <2>3. TrafficLeft(w, t)[t] = Tail(w.todo[t]) /\ \A u \in Metered \ {t} : TrafficLeft(w, t)[u] = w.todo[u]
    BY <2>1 DEF TrafficLeft
  <2> QED
    BY <2>2, <2>3
<1>10. ASSUME NEW u \in Metered
       PROVE  /\ Sum(keys[u]["n"], 0 .. MaxSeconds) \in Nat
              /\ Sum(K2[u]["n"], 0 .. MaxSeconds) + TrafficHeld(j, u)
                   = Sum(keys[u]["n"], 0 .. MaxSeconds) + TrafficHeld(w, u)
              /\ TrafficHeld(w, u) \in Nat /\ TrafficHeld(j, u) \in Nat
              /\ Sum(K2[u]["n"], 0 .. MaxSeconds) \in Nat
  <2> DEFINE S == 0 .. MaxSeconds
             f == keys[u]["n"]
             g == K2[u]["n"]
  <2>1. IsFiniteSet(S)
    <3>1. 0 \in Int /\ MaxSeconds \in Int
      BY DEF TrafficBase
    <3> QED
      BY <3>1, FS_Interval, Zenon
  <2>2. \A m \in S : f[m] \in Nat /\ g[m] \in Nat
    BY <1>1, <1>8, TrafficKey DEF traffic!Kind
  <2>3. w \in TrafficJob /\ w.slots[u].n \in Nat
    BY <1>1, <1>2 DEF w, TrafficSlots, TrafficSlot, traffic!Slot
  <2>4. TrafficHeld(w, u) \in Nat /\ TrafficHeld(j, u) \in Nat
    BY <1>4, <2>3, TrafficHeldIs
  <2>5. TrafficHeld(w, u) = IF TrafficHas(w.todo[u], "n") THEN w.slots[u].n ELSE 0
    BY <1>1 DEF TrafficHeld
  <2>6. Sum(f, S) \in Nat /\ Sum(g, S) \in Nat
    <3> HIDE DEF S, f, g
    <3> QED
      BY <2>1, <2>2, SumNat
  <2>7. CASE u # t
    <3>1. K2[u] = keys[u] /\ TrafficHeld(j, u) = TrafficHeld(w, u)
      BY <1>4, <1>8, <1>9, <2>5, <2>7
    <3> QED
      BY <2>4, <2>6, <3>1
  <2>8. CASE u = t
    <3> DEFINE b == second \div Minute
    <3>1. b \in S
      <4>1. second \in Nat /\ second <= MaxSeconds /\ MaxSeconds \in Nat /\ Minute \in Nat \ {0}
        BY <1>5 DEF TrafficBase
      <4> QED
        BY <4>1, Quotients
    <3>2. TrafficHeld(j, u) = 0
      BY <1>4, <1>9, <2>8
    <3>3. slot = w.slots[u]
      BY <2>8 DEF slot
    <3>4. CASE "n" \in head
      <4>1. TrafficHeld(w, u) = slot.n
        BY <1>9, <2>5, <2>8, <3>3, <3>4
      <4>2. g[b] = f[b] + slot.n /\ \A m \in S \ {b} : g[m] = f[m]
        BY <1>8, <2>8, <3>1, <3>4
      <4> HIDE DEF S, f, g, b
      <4>3. Whole(f, S) /\ Whole(g, S) /\ Alike(f, g, S \ {b})
        BY <2>2, <4>2 DEF Whole, Alike
      <4>4. Sum(g, S) = Sum(f, S) - f[b] + g[b]
        BY <2>1, <3>1, <4>3, SumChange
      <4>5. f[b] \in Nat /\ g[b] \in Nat /\ slot.n \in Nat
        BY <2>2, <2>3, <3>1, <3>3
      <4>6. Sum(g, S) + TrafficHeld(j, u) = Sum(f, S) + TrafficHeld(w, u)
        BY <2>6, <3>2, <4>1, <4>2, <4>4, <4>5
      <4> QED
        BY <2>4, <2>6, <4>6 DEF S, f, g
    <3>5. CASE "n" \notin head
      <4>1. TrafficHeld(w, u) = 0
        BY <1>9, <2>5, <2>8, <3>5
      <4>2. \A m \in S : g[m] = f[m]
        BY <1>8, <2>8, <3>5
      <4> HIDE DEF S, f, g, b
      <4>3. Sum(g, S) = Sum(f, S)
        BY <2>1, <4>2, SumSame
      <4>4. Sum(g, S) + TrafficHeld(j, u) = Sum(f, S) + TrafficHeld(w, u)
        BY <2>6, <3>2, <4>1, <4>3
      <4> QED
        BY <2>4, <2>6, <4>4 DEF S, f, g
    <3> QED
      BY <3>4, <3>5
  <2> QED
    BY <2>7, <2>8
<1>11. TrafficCounted'
  <2> SUFFICES ASSUME NEW u \in Metered
               PROVE  recorded[u] = lost[u] + Sum(K2[u]["n"], 0 .. MaxSeconds)
                                      + TrafficAll(buffers, threads', u)
    BY <1>1, <1>3 DEF TrafficCounted
  <2> DEFINE J2 == threads'
             before == Sum(keys[u]["n"], 0 .. MaxSeconds)
             after == Sum(K2[u]["n"], 0 .. MaxSeconds)
             memory == TrafficAll(buffers, threads, u)
             memory2 == TrafficAll(buffers, J2, u)
             mine == buffers[ProcessOf[th]].slots[u].n
  <2>1. Moved(threads, J2, th, j)
    BY <1>3
  <2> HIDE DEF J2
  <2>2. memory \in Nat /\ memory2 = memory - mine - TrafficHeld(threads[th], u) + mine + TrafficHeld(j, u)
    <3>1. /\ threads \in [Worker -> TrafficJob] /\ buffers \in [Process -> TrafficBuffer]
          /\ j \in TrafficJob
      BY <1>1, <1>4
    <3> QED
      BY <2>1, <3>1, TrafficMoves
  <2>3. recorded[u] = lost[u] + before + memory
    BY Zenon DEF TrafficInv, TrafficCounted
  <2>4. mine \in Nat
    BY <1>1, TrafficMemoryIs
  <2>5. threads[th] = w
    BY DEF w
  <2>6. /\ before \in Nat /\ after \in Nat /\ TrafficHeld(w, u) \in Nat /\ TrafficHeld(j, u) \in Nat
        /\ after + TrafficHeld(j, u) = before + TrafficHeld(w, u)
    BY <1>10
  <2>7. lost[u] \in Nat
    BY <1>1
  <2> HIDE DEF before, after, memory, memory2, mine
  <2>8. recorded[u] = lost[u] + after + memory2
    BY <2>2, <2>3, <2>4, <2>5, <2>6, <2>7
  <2> QED
    BY <2>8 DEF after, memory2, J2
<1>12. TrafficSpent(budget, threads, requests)'
  BY <1>1, <1>3, <1>4, TrafficSpentKept
<1>13. TrafficLimited' /\ TrafficWithin'
  BY <1>1, <1>3, <1>4, TrafficLimitedKept, TrafficWithinKept
<1>14. TrafficTyped'
  <2>1. threads' \in [Worker -> TrafficJob]
    BY <1>1, <1>3, <1>4, TrafficThreadMoves
  <2> QED
    BY <1>1, <1>3, <1>8, <2>1 DEF TrafficTyped
<1> QED
  BY <1>7, <1>11, <1>12, <1>13, <1>14 DEF TrafficInv

\* What threads have still to write, or to spend, can only get less.
LEMMA TrafficLess ==
    ASSUME TrafficBase, NEW J \in [Worker -> TrafficJob], NEW J2 \in [Worker -> TrafficJob],
           \A th \in Worker : J2[th] \in {J[th], traffic!Idle},
           NEW K \in TrafficKeys, TrafficAhead(K, J),
           NEW b \in [traffic!Key -> [count : Nat, until : Nat]], NEW r \in Nat, TrafficSpent(b, J, r)
    PROVE  TrafficAhead(K, J2) /\ TrafficSpent(b, J2, r)
<1>1. IsFiniteSet(Worker)
  BY DEF TrafficBase
<1>2. ASSUME NEW t \in Metered, NEW m \in 0 .. MaxSeconds
      PROVE  /\ K[t]["c4"][m] + K[t]["c5"][m] + Sum([th \in Worker |-> TrafficErrors(J2[th], t, m)], Worker)
                  <= K[t]["n"][m]
             /\ K[t]["tt"][m] + Sum([th \in Worker |-> TrafficRefusals(J2[th], t, m)], Worker) <= K[t]["c4"][m]
  <2> DEFINE e == [th \in Worker |-> TrafficErrors(J[th], t, m)]
             e2 == [th \in Worker |-> TrafficErrors(J2[th], t, m)]
             x == [th \in Worker |-> TrafficRefusals(J[th], t, m)]
             x2 == [th \in Worker |-> TrafficRefusals(J2[th], t, m)]
  <2>1. /\ K[t]["c4"][m] + K[t]["c5"][m] + Sum(e, Worker) <= K[t]["n"][m]
        /\ K[t]["tt"][m] + Sum(x, Worker) <= K[t]["c4"][m]
    BY Zenon DEF TrafficAhead
  <2>2. ASSUME NEW th \in Worker
        PROVE  /\ TrafficErrors(J[th], t, m) \in Nat /\ TrafficErrors(J2[th], t, m) \in Nat
               /\ TrafficRefusals(J[th], t, m) \in Nat /\ TrafficRefusals(J2[th], t, m) \in Nat
               /\ TrafficErrors(J2[th], t, m) <= TrafficErrors(J[th], t, m)
               /\ TrafficRefusals(J2[th], t, m) <= TrafficRefusals(J[th], t, m)
    <3>1. /\ TrafficErrors(J[th], t, m) \in Nat /\ TrafficErrors(J2[th], t, m) \in Nat
          /\ TrafficRefusals(J[th], t, m) \in Nat /\ TrafficRefusals(J2[th], t, m) \in Nat
      BY TrafficPending
    <3>2. CASE J2[th] = J[th]
      BY <3>1, <3>2
    <3>3. CASE J2[th] = traffic!Idle
      <4>1. TrafficErrors(J2[th], t, m) = 0 /\ TrafficRefusals(J2[th], t, m) = 0
        BY <3>3, TrafficIdle
      <4> QED
        BY <3>1, <4>1
    <3> QED
      BY <3>2, <3>3
  <2>3. \A th \in Worker : /\ e[th] \in Nat /\ e2[th] \in Nat /\ e2[th] <= e[th]
                           /\ x[th] \in Nat /\ x2[th] \in Nat /\ x2[th] <= x[th]
    BY <2>2
  <2> HIDE DEF e, e2, x, x2
  <2>4. /\ Sum(e2, Worker) <= Sum(e, Worker)
    <3>1. \A th \in Worker : e2[th] \in Int /\ e[th] \in Int /\ e2[th] <= e[th]
      BY <2>3
    <3> QED
      BY <1>1, <3>1, SumAtMost
  <2>5. Sum(x2, Worker) <= Sum(x, Worker)
    <3>1. \A th \in Worker : x2[th] \in Int /\ x[th] \in Int /\ x2[th] <= x[th]
      BY <2>3
    <3> QED
      BY <1>1, <3>1, SumAtMost
  <2>6. Sum(e, Worker) \in Nat /\ Sum(x, Worker) \in Nat
    BY <1>1, <2>3, SumNat
  <2>7. Sum(e2, Worker) \in Nat /\ Sum(x2, Worker) \in Nat
    BY <1>1, <2>3, SumNat
  <2>8. /\ K[t]["n"][m] \in Nat /\ K[t]["c4"][m] \in Nat /\ K[t]["c5"][m] \in Nat /\ K[t]["tt"][m] \in Nat
    BY TrafficKey DEF traffic!Kind
  <2>9. /\ K[t]["c4"][m] + K[t]["c5"][m] + Sum(e2, Worker) <= K[t]["n"][m]
        /\ K[t]["tt"][m] + Sum(x2, Worker) <= K[t]["c4"][m]
    BY <2>1, <2>4, <2>5, <2>6, <2>7, <2>8
  <2> QED
    BY <2>9 DEF e2, x2
<1>3. ASSUME NEW key \in traffic!Key
      PROVE  b[key].count + TrafficWanting(J2, key) <= r
  <2> DEFINE x == [th \in Worker |-> TrafficWants(J[th], key)]
             x2 == [th \in Worker |-> TrafficWants(J2[th], key)]
  <2>1. b[key].count + Sum(x, Worker) <= r
    BY Zenon DEF TrafficSpent, TrafficWanting
  <2>2. ASSUME NEW th \in Worker
        PROVE  /\ TrafficWants(J[th], key) \in {0, 1} /\ TrafficWants(J2[th], key) \in {0, 1}
               /\ TrafficWants(J2[th], key) <= TrafficWants(J[th], key)
    <3>1. TrafficWants(J[th], key) \in {0, 1} /\ TrafficWants(J2[th], key) \in {0, 1}
      BY TrafficWantsIs
    <3>2. CASE J2[th] = J[th]
      BY <3>1, <3>2
    <3>3. CASE J2[th] = traffic!Idle
      <4>1. TrafficWants(J2[th], key) = 0
        BY <3>3, TrafficIdle, TrafficWantsIs
      <4> QED
        BY <3>1, <4>1
    <3> QED
      BY <3>2, <3>3
  <2>3. \A th \in Worker : x[th] \in Nat /\ x2[th] \in Nat /\ x2[th] <= x[th]
    BY <2>2
  <2> HIDE DEF x, x2
  <2>4. Sum(x2, Worker) <= Sum(x, Worker)
    <3>1. \A th \in Worker : x2[th] \in Int /\ x[th] \in Int /\ x2[th] <= x[th]
      BY <2>3
    <3> QED
      BY <1>1, <3>1, SumAtMost
  <2>5. Sum(x, Worker) \in Nat /\ Sum(x2, Worker) \in Nat
    BY <1>1, <2>3, SumNat
  <2>6. b[key].count \in Nat
    OBVIOUS
  <2>7. b[key].count + Sum(x2, Worker) <= r
    BY <2>1, <2>4, <2>5, <2>6
  <2> QED
    BY <2>7, Zenon DEF x2, TrafficWanting
<1> QED
  BY <1>2, <1>3, Zenon DEF TrafficAhead, TrafficSpent

LEMMA TrafficCrashes ==
    ASSUME TrafficBase, TrafficInv, NEW p \in Process, traffic!Crash(p)
    PROVE  TrafficInv'
<1> DEFINE J2 == threads'
           B2 == buffers'
<1>1. /\ TrafficTyped /\ threads \in [Worker -> TrafficJob] /\ buffers \in [Process -> TrafficBuffer]
      /\ keys \in TrafficKeys /\ TrafficAhead(keys, threads)
      /\ recorded \in [Metered -> Nat] /\ lost \in [Metered -> Nat]
      /\ crashes < MaxCrashes /\ crashes' = crashes + 1
      /\ UNCHANGED <<now, policy, budget, keys, requests, passed, lapsed, recorded>>
  BY DEF TrafficInv, TrafficTyped, traffic!Crash
<1>2. /\ threads' = [th \in Worker |-> IF ProcessOf[th] = p THEN traffic!Idle ELSE threads[th]]
      /\ buffers' = [buffers EXCEPT ![p] = [second |-> 0, slots |-> traffic!NoSlots]]
      /\ lost' = [t \in Metered |-> lost[t] + traffic!InMemory(p, t)]
  BY DEF traffic!Crash
<1> DEFINE new == [second |-> 0, slots |-> traffic!NoSlots]
<1>3. new \in TrafficBuffer /\ new.second = 0 /\ new.slots = traffic!NoSlots
  BY TrafficNoSlots DEF TrafficBuffer, TrafficBase
<1> HIDE DEF new
<1>4. /\ B2 \in [Process -> TrafficBuffer] /\ B2[p] = new /\ \A q \in Process \ {p} : B2[q] = buffers[q]
  BY <1>1, <1>2, <1>3 DEF new
<1>5. /\ J2 \in [Worker -> TrafficJob]
      /\ \A th \in Worker : J2[th] = IF ProcessOf[th] = p THEN traffic!Idle ELSE threads[th]
  BY <1>1, <1>2, TrafficIdle
<1>6. TrafficAhead(keys, J2) /\ TrafficSpent(budget, J2, requests)
  <2>1. /\ budget \in [traffic!Key -> [count : Nat, until : Nat]] /\ requests \in Nat
        /\ TrafficSpent(budget, threads, requests)
    BY DEF TrafficInv, TrafficTyped, TrafficBase
  <2>2. \A th \in Worker : J2[th] \in {threads[th], traffic!Idle}
    BY <1>5
  <2> HIDE DEF J2
  <2> QED
    BY <1>1, <1>5, <2>1, <2>2, TrafficLess
<1>7. TrafficAhead(keys, threads)' /\ TrafficSpent(budget, threads, requests)'
  BY <1>1, <1>6 DEF TrafficAhead, TrafficSpent
<1>8. ASSUME NEW t \in Metered
      PROVE  /\ lost'[t] = lost[t] + TrafficMemory(buffers, threads, p, t)
             /\ TrafficMemory(buffers, threads, p, t) \in Nat
             /\ TrafficAll(buffers, threads, t) \in Nat
             /\ TrafficAll(B2, J2, t) = TrafficAll(buffers, threads, t) - TrafficMemory(buffers, threads, p, t)
  <2>1. traffic!InMemory(p, t) = TrafficMemory(buffers, threads, p, t)
    BY TrafficInMemory
  <2>2. lost'[t] = lost[t] + TrafficMemory(buffers, threads, p, t)
    BY <1>2, <2>1
  <2>3. B2[p].slots[t].n = 0
    BY <1>3, <1>4, TrafficNoSlots
  <2>4. TrafficMemory(buffers, threads, p, t) \in Nat
    BY <1>1, TrafficMemoryIs
  <2> HIDE DEF B2, J2
  <2>5. /\ TrafficAll(buffers, threads, t) \in Nat
        /\ TrafficAll(B2, J2, t) = TrafficAll(buffers, threads, t) - TrafficMemory(buffers, threads, p, t)
    BY <1>1, <1>4, <1>5, <2>3, TrafficDies
  <2> QED
    BY <2>2, <2>4, <2>5
<1>9. lost' \in [Metered -> Nat]
  <2>1. \A t \in Metered : lost'[t] \in Nat
    BY <1>1, <1>8
  <2> QED
    BY <1>2, <2>1
<1>10. TrafficCounted'
  <2> SUFFICES ASSUME NEW t \in Metered
               PROVE  recorded[t] = lost'[t] + Sum(keys[t]["n"], 0 .. MaxSeconds) + TrafficAll(B2, J2, t)
    BY <1>1 DEF TrafficCounted
  <2> DEFINE counters == Sum(keys[t]["n"], 0 .. MaxSeconds)
             memory == TrafficAll(buffers, threads, t)
             gone == TrafficMemory(buffers, threads, p, t)
             memory2 == TrafficAll(B2, J2, t)
  <2>1. recorded[t] = lost[t] + counters + memory
    BY Zenon DEF TrafficInv, TrafficCounted
  <2>2. lost'[t] = lost[t] + gone /\ gone \in Nat /\ memory \in Nat /\ memory2 = memory - gone
    BY <1>8
  <2>3. counters \in Nat
    <3>1. \A m \in 0 .. MaxSeconds : keys[t]["n"][m] \in Nat
      BY <1>1, TrafficKey DEF traffic!Kind
    <3>2. 0 \in Int /\ MaxSeconds \in Int
      BY DEF TrafficBase
    <3>3. IsFiniteSet(0 .. MaxSeconds)
      BY <3>2, FS_Interval, Zenon
    <3> QED
      BY <3>1, <3>3, SumNat
  <2>4. lost[t] \in Nat
    BY <1>1
  <2> HIDE DEF counters, memory, gone, memory2
  <2>5. recorded[t] = lost'[t] + counters + memory2
    BY <2>1, <2>2, <2>3, <2>4
  <2> QED
    BY <2>5 DEF counters, memory2
<1>11. TrafficLimited'
  <2> SUFFICES ASSUME NEW th \in Worker, threads'[th].step \in {"add", "incr"}
               PROVE  threads'[th].i \in {i \in 1 .. Len(traffic!Windows) :
                          policy'[threads'[th].tenant].limit[traffic!Windows[i]] # Unlimited}
    BY DEF TrafficLimited, traffic!Limited
  <2>1. threads'[th] = threads[th]
    BY <1>5, TrafficIdle
  <2> QED
    BY <1>1, <2>1 DEF TrafficInv, TrafficLimited, traffic!Limited
<1>12. TrafficWithin'
  BY <1>1, TrafficWithinKept
<1>13. TrafficTyped'
  <2>1. \A q \in Process : buffers'[q].second <= now
    BY <1>1, <1>3, <1>4 DEF TrafficTyped
  <2>2. crashes' \in 0 .. MaxCrashes
    BY <1>1 DEF TrafficTyped, TrafficBase
  <2> QED
    BY <1>1, <1>4, <1>5, <1>9, <2>1, <2>2 DEF TrafficTyped
<1> QED
  BY <1>7, <1>10, <1>11, <1>12, <1>13 DEF TrafficInv

\* Nothing happens but time.
LEMMA TrafficTicks ==
    ASSUME TrafficBase, TrafficInv,
           \/ now < MaxSeconds /\ now' = now + 1
           \/ now' = now,
           UNCHANGED <<policy, budget, threads, buffers, keys, requests, crashes, passed, lapsed, recorded, lost>>
    PROVE  TrafficInv'
<1>1. TrafficTyped
  BY DEF TrafficInv
<1>2. now' \in 0 .. MaxSeconds /\ now' >= now /\ now \in Nat
  BY <1>1 DEF TrafficTyped, TrafficBase
<1>3. \A p \in Process : buffers'[p].second <= now'
  <2> SUFFICES ASSUME NEW p \in Process PROVE buffers[p].second <= now'
    OBVIOUS
  <2>1. buffers[p].second <= now /\ buffers[p] \in TrafficBuffer
    BY <1>1 DEF TrafficTyped
  <2>2. buffers[p].second \in Nat
    BY <2>1 DEF TrafficBuffer
  <2> QED
    BY <1>2, <2>1, <2>2
<1>4. TrafficTyped'
  BY <1>1, <1>2, <1>3 DEF TrafficTyped
<1>5. TrafficCounted' /\ TrafficAhead(keys, threads)' /\ TrafficSpent(budget, threads, requests)'
  BY DEF TrafficInv, TrafficCounted, TrafficAhead, TrafficSpent
<1>6. TrafficWithin' /\ TrafficLimited'
  BY DEF TrafficInv, TrafficWithin, TrafficLimited, traffic!Ceiling, traffic!Limited
<1> QED
  BY <1>4, <1>5, <1>6 DEF TrafficInv

LEMMA TrafficStarts ==
    ASSUME TrafficBase, traffic!Init
    PROVE  TrafficInv
<1>1. /\ now = 0 /\ policy \in [Metered -> Limits]
      /\ budget = [key \in traffic!Key |-> traffic!Expired]
      /\ threads = [th \in Worker |-> traffic!Idle]
      /\ buffers = [p \in Process |-> [second |-> 0, slots |-> traffic!NoSlots]]
      /\ keys = [t \in Metered |-> [kind \in traffic!Kind |-> [bucket \in 0 .. MaxSeconds |-> 0]]]
      /\ requests = 0 /\ crashes = 0
      /\ passed = [key \in traffic!Key |-> 0] /\ lapsed = {}
      /\ recorded = [t \in Metered |-> 0] /\ lost = [t \in Metered |-> 0]
  BY DEF traffic!Init
<1>2. /\ IsFiniteSet(Worker) /\ IsFiniteSet(Process) /\ 0 \in Int /\ MaxSeconds \in Int
      /\ MaxSeconds \in Nat /\ MaxHits \in Nat /\ MaxCrashes \in Nat
  BY DEF TrafficBase
<1>3. IsFiniteSet(0 .. MaxSeconds)
  BY <1>2, FS_Interval, Zenon
<1>4. [second |-> 0, slots |-> traffic!NoSlots] \in TrafficBuffer
  BY <1>2, TrafficNoSlots DEF TrafficBuffer
<1>5. TrafficTyped
  <2>1. budget \in [traffic!Key -> [count : Nat, until : Nat]]
    BY <1>1 DEF traffic!Expired
  <2>2. threads \in [Worker -> TrafficJob]
    BY <1>1, TrafficIdle
  <2>3. buffers \in [Process -> TrafficBuffer] /\ \A p \in Process : buffers[p].second <= now
    <3> DEFINE new == [second |-> 0, slots |-> traffic!NoSlots]
    <3>1. new.second = 0
      OBVIOUS
    <3>2. buffers = [p \in Process |-> new]
      BY <1>1
    <3>3. new \in TrafficBuffer
      BY <1>4
    <3> HIDE DEF new
    <3> QED
      BY <1>1, <3>1, <3>2, <3>3
  <2>4. keys \in TrafficKeys
    BY <1>1 DEF TrafficKeys
  <2>5. now \in 0 .. MaxSeconds /\ requests \in 0 .. MaxHits /\ crashes \in 0 .. MaxCrashes
    BY <1>1, <1>2
  <2>6. /\ passed \in [traffic!Key -> Nat] /\ lapsed \subseteq traffic!Key
        /\ recorded \in [Metered -> Nat] /\ lost \in [Metered -> Nat]
    BY <1>1
  <2> QED
    BY <1>1, <2>1, <2>2, <2>3, <2>4, <2>5, <2>6 DEF TrafficTyped
<1>6. TrafficCounted
  <2> SUFFICES ASSUME NEW t \in Metered
               PROVE  recorded[t] = lost[t] + Sum(keys[t]["n"], 0 .. MaxSeconds)
                                      + TrafficAll(buffers, threads, t)
    BY DEF TrafficCounted
  <2>1. Sum(keys[t]["n"], 0 .. MaxSeconds) = 0
    <3>1. \A m \in 0 .. MaxSeconds : keys[t]["n"][m] = 0
      BY <1>1 DEF traffic!Kind
    <3> QED
      BY <1>3, <3>1, SumZero
  <2>2. TrafficAll(buffers, threads, t) = 0
    <3>1. ASSUME NEW p \in Process
          PROVE  TrafficMemory(buffers, threads, p, t) = 0
      <4> DEFINE f == [th \in Worker |-> TrafficHeld(threads[th], t)]
      <4>1. \A th \in TrafficThreads(p) : f[th] = 0
        BY <1>1, TrafficIdle DEF TrafficThreads
      <4>2. IsFiniteSet(TrafficThreads(p))
        BY <1>5, TrafficMemoryIs DEF TrafficTyped
      <4> HIDE DEF f
      <4>3. Sum(f, TrafficThreads(p)) = 0
        BY <4>1, <4>2, SumZero
      <4>4. buffers[p].slots[t].n = 0
        <5>1. buffers[p].slots = traffic!NoSlots
          BY <1>1
        <5> QED
          BY <5>1, TrafficNoSlots
      <4>5. TrafficMemory(buffers, threads, p, t) = buffers[p].slots[t].n + Sum(f, TrafficThreads(p))
        BY Zenon DEF TrafficMemory, f
      <4> QED
        BY <4>3, <4>4, <4>5
    <3> DEFINE g == [p \in Process |-> TrafficMemory(buffers, threads, p, t)]
    <3>2. \A p \in Process : g[p] = 0
      BY <3>1
    <3> HIDE DEF g
    <3>3. Sum(g, Process) = 0
      BY <1>2, <3>2, SumZero
    <3> QED
      BY <3>3, Zenon DEF TrafficAll, g
  <2> QED
    BY <1>1, <2>1, <2>2
<1>7. TrafficAhead(keys, threads)
  <2> SUFFICES ASSUME NEW t \in Metered, NEW m \in 0 .. MaxSeconds
               PROVE  /\ keys[t]["c4"][m] + keys[t]["c5"][m]
                           + Sum([th \in Worker |-> TrafficErrors(threads[th], t, m)], Worker) <= keys[t]["n"][m]
                      /\ keys[t]["tt"][m]
                           + Sum([th \in Worker |-> TrafficRefusals(threads[th], t, m)], Worker) <= keys[t]["c4"][m]
    BY Zenon DEF TrafficAhead
  <2> DEFINE e == [th \in Worker |-> TrafficErrors(threads[th], t, m)]
             r == [th \in Worker |-> TrafficRefusals(threads[th], t, m)]
  <2>1. \A th \in Worker : e[th] = 0 /\ r[th] = 0
    BY <1>1, TrafficIdle
  <2> HIDE DEF e, r
  <2>2. Sum(e, Worker) = 0
    BY <1>2, <2>1, SumZero
  <2>3. Sum(r, Worker) = 0
    BY <1>2, <2>1, SumZero
  <2>4. /\ keys[t]["n"][m] = 0 /\ keys[t]["c4"][m] = 0 /\ keys[t]["c5"][m] = 0 /\ keys[t]["tt"][m] = 0
    BY <1>1 DEF traffic!Kind
  <2>5. /\ keys[t]["c4"][m] + keys[t]["c5"][m] + Sum(e, Worker) <= keys[t]["n"][m]
        /\ keys[t]["tt"][m] + Sum(r, Worker) <= keys[t]["c4"][m]
    BY <2>2, <2>3, <2>4
  <2> QED
    BY <2>5 DEF e, r
<1>8. TrafficSpent(budget, threads, requests)
  <2> SUFFICES ASSUME NEW key \in traffic!Key
               PROVE  budget[key].count + TrafficWanting(threads, key) <= requests
    BY Zenon DEF TrafficSpent
  <2> DEFINE x == [th \in Worker |-> TrafficWants(threads[th], key)]
  <2>1. \A th \in Worker : x[th] = 0
    BY <1>1, TrafficIdle, TrafficWantsIs
  <2> HIDE DEF x
  <2>2. Sum(x, Worker) = 0
    BY <1>2, <2>1, SumZero
  <2>3. budget[key].count = 0
    BY <1>1 DEF traffic!Expired
  <2>4. TrafficWanting(threads, key) = 0
    BY <2>2, Zenon DEF TrafficWanting, x
  <2> QED
    BY <1>1, <2>3, <2>4
<1>9. TrafficWithin /\ TrafficLimited
  BY <1>1, TrafficIdle DEF TrafficWithin, TrafficLimited, traffic!Expired
<1> QED
  BY <1>5, <1>6, <1>7, <1>8, <1>9 DEF TrafficInv

LEMMA TrafficSteps ==
    ASSUME traffic!TrafficAssumption, TrafficInv, [traffic!Next]_traffic!vars
    PROVE  TrafficInv'
<1>1. TrafficBase
  BY TrafficBased
<1>2. ASSUME NEW th \in Worker, NEW t \in Metered, traffic!Arrive(th, t) \/ traffic!WriteKey(th, t)
      PROVE  TrafficInv'
  BY <1>1, <1>2, TrafficArrives, TrafficWrites
<1>3. ASSUME NEW th \in Worker, traffic!Add(th) \/ traffic!Incr(th) \/ traffic!Record(th) \/ traffic!Flush(th)
      PROVE  TrafficInv'
  BY <1>1, <1>3, TrafficAdds, TrafficIncrs, TrafficRecords, TrafficFlushes
<1>4. ASSUME NEW th \in Worker, NEW status \in {"ok", "c5"}, traffic!View(th, status)
      PROVE  TrafficInv'
  BY <1>1, <1>4, TrafficViews
<1>5. ASSUME NEW p \in Process, traffic!Crash(p)
      PROVE  TrafficInv'
  BY <1>1, <1>5, TrafficCrashes
<1>6. CASE traffic!Tick
  BY <1>1, <1>6, TrafficTicks DEF traffic!Tick, traffic!history
<1>7. CASE UNCHANGED traffic!vars
  BY <1>1, <1>7, TrafficTicks DEF traffic!vars, traffic!history
<1> QED
  BY <1>2, <1>3, <1>4, <1>5, <1>6, <1>7 DEF traffic!Next

-----------------------------------------------------------------------------
(* What is counted *)

LEMMA TrafficInCounters ==
    ASSUME TrafficBase, NEW t \in Metered
    PROVE  traffic!MapThenSumSet(LAMBDA minute : keys[t]["n"][minute], 0 .. MaxSeconds)
             = Sum(keys[t]["n"], 0 .. MaxSeconds)
<1> DEFINE S == 0 .. MaxSeconds
           f == keys[t]["n"]
           body(it) == [s \in SUBSET S |-> IF s = {} THEN 0 ELSE keys[t]["n"][Choice(s)] + it[s \ {Choice(s)}]]
           it == CHOOSE it : it = body(it)
<1>1. traffic!MapThenSumSet(LAMBDA minute : keys[t]["n"][minute], S) = it[S]
  BY Zenon DEF traffic!MapThenSumSet, traffic!MapThenFoldSet, Choice
<1>2. IsFiniteSet(S)
  <2>1. 0 \in Int /\ MaxSeconds \in Int
    BY DEF TrafficBase
  <2> QED
    BY <2>1, FS_Interval, Zenon
<1>3. \A h : IsSum(h, f, S) <=> h = body(h)
  BY Zenon DEF IsSum
<1> HIDE DEF S, f, body
<1>4. \E h : IsSum(h, f, S)
  BY <1>2, SumExists, Zenon
<1>5. it = body(it)
  BY <1>3, <1>4, Zenon
<1> HIDE DEF it
<1>6. it[S] = Sum(f, S)
  BY <1>2, <1>3, <1>5, SumUnfolds
<1> QED
  BY <1>1, <1>6, Zenon DEF f, S

LEMMA TrafficInProcesses ==
    ASSUME TrafficBase, NEW t \in Metered
    PROVE  traffic!MapThenSumSet(LAMBDA p : traffic!InMemory(p, t), Process) = TrafficAll(buffers, threads, t)
<1> DEFINE f == [p \in Process |-> TrafficMemory(buffers, threads, p, t)]
           body(it) == [s \in SUBSET Process |-> IF s = {} THEN 0
                           ELSE traffic!InMemory(Choice(s), t) + it[s \ {Choice(s)}]]
           it == CHOOSE it : it = body(it)
<1>1. traffic!MapThenSumSet(LAMBDA p : traffic!InMemory(p, t), Process) = it[Process]
  BY Zenon DEF traffic!MapThenSumSet, traffic!MapThenFoldSet, Choice
<1>2. IsFiniteSet(Process)
  BY DEF TrafficBase
<1>3. \A h : IsSum(h, f, Process) <=> h = body(h)
  <2>1. \A p \in Process : f[p] = traffic!InMemory(p, t)
    BY TrafficInMemory
  <2>2. \A s \in SUBSET Process : s # {} => f[Choice(s)] = traffic!InMemory(Choice(s), t)
    BY <2>1, Chosen
  <2> HIDE DEF f
  <2>3. \A h : body(h) = [s \in SUBSET Process |-> IF s = {} THEN 0 ELSE f[Choice(s)] + h[s \ {Choice(s)}]]
    BY <2>2
  <2> HIDE DEF body
  <2> QED
    BY <2>3, Zenon DEF IsSum
<1>4. \E h : IsSum(h, f, Process)
  BY <1>2, SumExists, Zenon
<1> HIDE DEF f, body
<1>5. it = body(it)
  BY <1>3, <1>4, Zenon
<1> HIDE DEF it
<1>6. it[Process] = Sum(f, Process)
  BY <1>2, <1>3, <1>5, SumUnfolds
<1> QED
  BY <1>1, <1>6, Zenon DEF TrafficAll, f

LEMMA TrafficCountedOnce ==
    ASSUME TrafficBase, TrafficInv
    PROVE  traffic!CountedOnce
<1> SUFFICES ASSUME NEW t \in Metered
             PROVE  recorded[t] = lost[t]
                      + traffic!MapThenSumSet(LAMBDA minute : keys[t]["n"][minute], 0 .. MaxSeconds)
                      + traffic!MapThenSumSet(LAMBDA p : traffic!InMemory(p, t), Process)
  BY Zenon DEF traffic!CountedOnce
<1>1. recorded[t] = lost[t] + Sum(keys[t]["n"], 0 .. MaxSeconds) + TrafficAll(buffers, threads, t)
  BY Zenon DEF TrafficInv, TrafficCounted
<1>2. traffic!MapThenSumSet(LAMBDA minute : keys[t]["n"][minute], 0 .. MaxSeconds)
        = Sum(keys[t]["n"], 0 .. MaxSeconds)
  BY TrafficInCounters
<1>3. traffic!MapThenSumSet(LAMBDA p : traffic!InMemory(p, t), Process) = TrafficAll(buffers, threads, t)
  BY TrafficInProcesses
<1> QED
  BY <1>1, <1>2, <1>3, Zenon

LEMMA TrafficBudgets ==
    ASSUME TrafficInv
    PROVE  traffic!BudgetKept
  BY DEF TrafficInv, TrafficWithin, traffic!BudgetKept, traffic!Ceiling

LEMMA TrafficTypes ==
    ASSUME TrafficBase, TrafficInv
    PROVE  traffic!TypeOK
<1>1. TrafficTyped /\ TrafficSpent(budget, threads, requests)
  BY DEF TrafficInv
<1>2. ASSUME NEW key \in traffic!Key
      PROVE  budget[key].count \in 0 .. MaxHits
  <2> DEFINE x == [th \in Worker |-> TrafficWants(threads[th], key)]
  <2>1. budget[key].count + Sum(x, Worker) <= requests
    BY <1>1, Zenon DEF TrafficSpent, TrafficWanting
  <2>2. \A th \in Worker : x[th] \in Nat
    <3>1. \A th \in Worker : TrafficWants(threads[th], key) \in {0, 1}
      BY <1>1, TrafficWantsIs DEF TrafficTyped
    <3> QED
      BY <3>1
  <2>3. budget[key].count \in Nat /\ requests \in Nat /\ requests <= MaxHits /\ MaxHits \in Nat
    BY <1>1 DEF TrafficTyped, TrafficBase
  <2>4. IsFiniteSet(Worker)
    BY DEF TrafficBase
  <2> HIDE DEF x
  <2>5. Sum(x, Worker) \in Nat
    BY <2>2, <2>4, SumNat
  <2> QED
    BY <2>1, <2>3, <2>5
<1>3. ASSUME NEW p \in Process
      PROVE  buffers[p].second \in 0 .. now /\ buffers[p].slots \in [Metered -> traffic!Slot]
  <2>1. buffers[p] \in TrafficBuffer /\ buffers[p].second <= now /\ now \in 0 .. MaxSeconds
    BY <1>1 DEF TrafficTyped
  <2>2. buffers[p].second \in 0 .. MaxSeconds /\ buffers[p].slots \in TrafficSlots
    BY <2>1 DEF TrafficBuffer
  <2>3. buffers[p].slots \in [Metered -> traffic!Slot]
    BY <2>2 DEF TrafficSlots, TrafficSlot
  <2> QED
    BY <2>1, <2>2, <2>3 DEF TrafficBase
<1> QED
  BY <1>1, <1>2, <1>3 DEF TrafficTyped, traffic!TypeOK

-----------------------------------------------------------------------------
(* The chart and the table *)

TrafficNow == now \div Minute

TrafficPeriod == (TrafficNow - Span + 1) .. TrafficNow

LEMMA TrafficValues ==
    ASSUME TrafficBase, TrafficInv, NEW t \in Metered, NEW m \in Int, m <= TrafficNow
    PROVE  /\ TrafficNow \in Nat
           /\ traffic!Value(t, "n", m) \in Nat /\ traffic!Value(t, "c4", m) \in Nat
           /\ traffic!Value(t, "c5", m) \in Nat /\ traffic!Value(t, "tt", m) \in Nat
           /\ traffic!Value(t, "c4", m) + traffic!Value(t, "c5", m) <= traffic!Value(t, "n", m)
           /\ traffic!Value(t, "tt", m) <= traffic!Value(t, "c4", m)
<1>1. TrafficTyped /\ keys \in TrafficKeys /\ threads \in [Worker -> TrafficJob] /\ IsFiniteSet(Worker)
  BY DEF TrafficInv, TrafficTyped, TrafficBase
<1>2. now \in Nat /\ now <= MaxSeconds /\ MaxSeconds \in Nat /\ Minute \in Nat \ {0}
  BY <1>1 DEF TrafficTyped, TrafficBase
<1>3. TrafficNow \in Nat /\ TrafficNow <= now
  BY <1>2, Quotients DEF TrafficNow
<1>4. CASE m < 0
  <2>1. /\ traffic!Value(t, "n", m) = 0 /\ traffic!Value(t, "c4", m) = 0
        /\ traffic!Value(t, "c5", m) = 0 /\ traffic!Value(t, "tt", m) = 0
    BY <1>4 DEF traffic!Value
  <2> QED
    BY <1>3, <2>1
<1>5. CASE ~(m < 0)
  <2>1. m \in 0 .. MaxSeconds
    BY <1>2, <1>3, <1>5
  <2>2. /\ traffic!Value(t, "n", m) = keys[t]["n"][m] /\ traffic!Value(t, "c4", m) = keys[t]["c4"][m]
        /\ traffic!Value(t, "c5", m) = keys[t]["c5"][m] /\ traffic!Value(t, "tt", m) = keys[t]["tt"][m]
    BY <1>5 DEF traffic!Value
  <2>3. /\ keys[t]["n"][m] \in Nat /\ keys[t]["c4"][m] \in Nat /\ keys[t]["c5"][m] \in Nat
        /\ keys[t]["tt"][m] \in Nat
    BY <1>1, <2>1, TrafficKey DEF traffic!Kind
  <2> DEFINE e == [th \in Worker |-> TrafficErrors(threads[th], t, m)]
             r == [th \in Worker |-> TrafficRefusals(threads[th], t, m)]
  <2>4. /\ keys[t]["c4"][m] + keys[t]["c5"][m] + Sum(e, Worker) <= keys[t]["n"][m]
        /\ keys[t]["tt"][m] + Sum(r, Worker) <= keys[t]["c4"][m]
    BY <2>1, Zenon DEF TrafficInv, TrafficAhead
  <2>5. \A th \in Worker : e[th] \in Nat /\ r[th] \in Nat
    <3>1. \A th \in Worker : TrafficErrors(threads[th], t, m) \in Nat /\ TrafficRefusals(threads[th], t, m) \in Nat
      BY <1>1, TrafficPending
    <3> QED
      BY <3>1
  <2> HIDE DEF e, r
  <2>6. Sum(e, Worker) \in Nat /\ Sum(r, Worker) \in Nat
    BY <1>1, <2>5, SumNat
  <2>7. keys[t]["c4"][m] + keys[t]["c5"][m] <= keys[t]["n"][m] /\ keys[t]["tt"][m] <= keys[t]["c4"][m]
    BY <2>3, <2>4, <2>6
  <2> QED
    BY <1>3, <2>2, <2>3, <2>7
<1> QED
  BY <1>4, <1>5

TrafficOffsets(t, kind) == [offset \in 0 .. Span - 1 |-> traffic!Value(t, kind, TrafficNow - offset)]

TrafficMinutes(t, kind) == [minute \in TrafficPeriod |-> traffic!Value(t, kind, minute)]

LEMMA TrafficOver ==
    ASSUME TrafficBase, NEW t, NEW kind
    PROVE  traffic!Over(t, kind, Span) = Sum(TrafficOffsets(t, kind), 0 .. Span - 1)
<1> DEFINE S == 0 .. Span - 1
           f == TrafficOffsets(t, kind)
           body(it) == [s \in SUBSET S |-> IF s = {} THEN 0
                           ELSE traffic!Value(t, kind, now \div Minute - Choice(s)) + it[s \ {Choice(s)}]]
           it == CHOOSE it : it = body(it)
<1>1. traffic!Over(t, kind, Span) = it[S]
  BY Zenon DEF traffic!Over, traffic!MapThenSumSet, traffic!MapThenFoldSet, Choice
<1>2. IsFiniteSet(S)
  <2>1. 0 \in Int /\ Span - 1 \in Int
    BY DEF TrafficBase
  <2> QED
    BY <2>1, FS_Interval, Zenon
<1> HIDE DEF S
<1>3. \A h : IsSum(h, f, S) <=> h = body(h)
  <2>1. \A x \in S : f[x] = traffic!Value(t, kind, now \div Minute - x)
    BY Zenon DEF TrafficOffsets, TrafficNow, S
  <2>2. \A s \in SUBSET S : s # {} => f[Choice(s)] = traffic!Value(t, kind, now \div Minute - Choice(s))
    <3> TAKE s \in SUBSET S
    <3>1. s # {} => Choice(s) \in S
      BY Chosen
    <3> QED
      BY <2>1, <3>1, Zenon
  <2> HIDE DEF f
  <2>3. \A h : body(h) = [s \in SUBSET S |-> IF s = {} THEN 0 ELSE f[Choice(s)] + h[s \ {Choice(s)}]]
    BY <2>2
  <2> HIDE DEF body
  <2> QED
    BY <2>3, Zenon DEF IsSum
<1>4. \E h : IsSum(h, f, S)
  BY <1>2, SumExists, Zenon
<1> HIDE DEF f, body
<1>5. it = body(it)
  BY <1>3, <1>4, Zenon
<1> HIDE DEF it
<1>6. it[S] = Sum(f, S)
  BY <1>2, <1>3, <1>5, SumUnfolds
<1> QED
  BY <1>1, <1>6, Zenon DEF f, S

\* The totals of the table are of the last minutes.
LEMMA TrafficTotals ==
    ASSUME TrafficBase, TrafficInv, NEW t \in Metered, NEW kind \in {"n", "c4", "c5", "tt"}
    PROVE  /\ IsFiniteSet(TrafficPeriod)
           /\ \A m \in TrafficPeriod : m \in Int /\ m <= TrafficNow /\ TrafficMinutes(t, kind)[m] \in Nat
           /\ traffic!Over(t, kind, Span) = Sum(TrafficMinutes(t, kind), TrafficPeriod)
           /\ traffic!Over(t, kind, Span) \in Nat
<1> DEFINE S == 0 .. Span - 1
           T == TrafficPeriod
           f == TrafficOffsets(t, kind)
           g == TrafficMinutes(t, kind)
           b == [offset \in S |-> TrafficNow - offset]
<1>1. Span \in Nat \ {0} /\ TrafficNow \in Nat
  <2>1. now \in Nat /\ Minute \in Nat \ {0} /\ Span \in Nat \ {0}
    BY DEF TrafficInv, TrafficTyped, TrafficBase
  <2> QED
    BY <2>1, Quotients DEF TrafficNow
<1>2. IsFiniteSet(S) /\ IsFiniteSet(T)
  <2>1. 0 \in Int /\ Span - 1 \in Int /\ TrafficNow - Span + 1 \in Int /\ TrafficNow \in Int
    BY <1>1
  <2> QED
    BY <2>1, FS_Interval, Zenon DEF TrafficPeriod
<1>3. \A m \in T : m \in Int /\ m <= TrafficNow
  BY <1>1 DEF TrafficPeriod
<1>4. \A m \in T : g[m] \in Nat /\ g[m] = traffic!Value(t, kind, m)
  <2> SUFFICES ASSUME NEW m \in T PROVE traffic!Value(t, kind, m) \in Nat
    BY DEF TrafficMinutes
  <2> QED
    BY <1>3, TrafficValues
<1>5. /\ b \in [S -> T]
      /\ \A x, y \in S : b[x] = b[y] => x = y
      /\ \A y \in T : \E x \in S : b[x] = y
  <2>1. \A x \in S : b[x] \in T /\ b[x] = TrafficNow - x /\ x \in Int
    BY <1>1 DEF TrafficPeriod
  <2>2. \A y \in T : TrafficNow - y \in S /\ TrafficNow - (TrafficNow - y) = y
    BY <1>1 DEF TrafficPeriod
  <2>3. b \in [S -> T]
    BY <2>1
  <2> HIDE DEF S, T, b
  <2>4. \A x, y \in S : b[x] = b[y] => x = y
    BY <1>1, <2>1
  <2>5. \A y \in T : \E x \in S : b[x] = y
    BY <2>1, <2>2
  <2> QED
    BY <2>3, <2>4, <2>5
<1>6. \A x \in S : f[x] = g[b[x]] /\ f[x] \in Int
  <2> SUFFICES ASSUME NEW x \in S PROVE f[x] = g[b[x]] /\ f[x] \in Int
    OBVIOUS
  <2>1. b[x] = TrafficNow - x /\ b[x] \in T
    BY <1>5
  <2>2. f[x] = traffic!Value(t, kind, TrafficNow - x)
    BY DEF TrafficOffsets
  <2>3. g[b[x]] \in Nat /\ g[b[x]] = traffic!Value(t, kind, b[x])
    BY <1>4, <2>1
  <2> HIDE DEF b
  <2> QED
    BY <2>1, <2>2, <2>3
<1>7. traffic!Over(t, kind, Span) = Sum(f, S)
  BY TrafficOver
<1> HIDE DEF S, T, f, g, b
<1>8. Sum(f, S) = Sum(g, T)
  BY <1>2, <1>5, <1>6, SumOver
<1>9. Sum(g, T) \in Nat
  BY <1>2, <1>4, SumNat
<1> QED
  BY <1>2, <1>3, <1>4, <1>7, <1>8, <1>9 DEF T, g

\* One minute of the chart: what it shows of each client.
TrafficOk(m) ==
    [t \in Metered |->
        traffic!Natural(traffic!Point(t, m).total - traffic!Point(t, m).c4 - traffic!Point(t, m).c5)]

TrafficBad(m) == [t \in Metered |-> traffic!Point(t, m).c4 + traffic!Point(t, m).c5]

TrafficDrawn(visible, m) == Sum(TrafficOk(m), visible) + Sum(TrafficBad(m), visible)

TrafficTotal(kind) == [t \in Metered |-> traffic!Over(t, kind, Span)]

TrafficFailed == [t \in Metered |-> traffic!Over(t, "c4", Span) + traffic!Over(t, "c5", Span)]

LEMMA TrafficTimelineOk ==
    ASSUME TrafficBase, NEW visible \in SUBSET Metered, NEW m
    PROVE  traffic!MapThenSumSet(LAMBDA t : LET point == traffic!Point(t, m)
                                           IN  traffic!Natural(point.total - point.c4 - point.c5), visible)
             = Sum(TrafficOk(m), visible)
<1> DEFINE f == TrafficOk(m)
           of(t) == traffic!Natural(traffic!Point(t, m).total - traffic!Point(t, m).c4 - traffic!Point(t, m).c5)
           body(it) == [s \in SUBSET visible |-> IF s = {} THEN 0 ELSE of(Choice(s)) + it[s \ {Choice(s)}]]
           it == CHOOSE it : it = body(it)
<1>1. traffic!MapThenSumSet(LAMBDA t : LET point == traffic!Point(t, m)
                                      IN  traffic!Natural(point.total - point.c4 - point.c5), visible) = it[visible]
  BY Zenon DEF traffic!MapThenSumSet, traffic!MapThenFoldSet, Choice
<1>2. IsFiniteSet(visible)
  BY FS_Subset DEF TrafficBase
<1>3. \A h : IsSum(h, f, visible) <=> h = body(h)
  <2>1. \A t \in visible : f[t] = of(t)
    BY Zenon DEF TrafficOk
  <2> HIDE DEF f, of
  <2>2. \A s \in SUBSET visible : s # {} => f[Choice(s)] = of(Choice(s))
    BY <2>1, Chosen
  <2>3. \A h : body(h) = [s \in SUBSET visible |-> IF s = {} THEN 0 ELSE f[Choice(s)] + h[s \ {Choice(s)}]]
    BY <2>2
  <2> HIDE DEF body
  <2> QED
    BY <2>3, Zenon DEF IsSum
<1> HIDE DEF of
<1>4. \E h : IsSum(h, f, visible)
  BY <1>2, SumExists, Zenon
<1> HIDE DEF f, body
<1>5. it = body(it)
  BY <1>3, <1>4, Zenon
<1> HIDE DEF it
<1>6. it[visible] = Sum(f, visible)
  BY <1>2, <1>3, <1>5, SumUnfolds
<1> QED
  BY <1>1, <1>6, Zenon DEF f

LEMMA TrafficTimelineBad ==
    ASSUME TrafficBase, NEW visible \in SUBSET Metered, NEW m
    PROVE  traffic!MapThenSumSet(LAMBDA t : LET point == traffic!Point(t, m)
                                           IN  point.c4 + point.c5, visible)
             = Sum(TrafficBad(m), visible)
<1> DEFINE f == TrafficBad(m)
           of(t) == traffic!Point(t, m).c4 + traffic!Point(t, m).c5
           body(it) == [s \in SUBSET visible |-> IF s = {} THEN 0 ELSE of(Choice(s)) + it[s \ {Choice(s)}]]
           it == CHOOSE it : it = body(it)
<1>1. traffic!MapThenSumSet(LAMBDA t : LET point == traffic!Point(t, m)
                                      IN  point.c4 + point.c5, visible) = it[visible]
  BY Zenon DEF traffic!MapThenSumSet, traffic!MapThenFoldSet, Choice
<1>2. IsFiniteSet(visible)
  BY FS_Subset DEF TrafficBase
<1>3. \A h : IsSum(h, f, visible) <=> h = body(h)
  <2>1. \A t \in visible : f[t] = of(t)
    BY Zenon DEF TrafficBad
  <2> HIDE DEF f, of
  <2>2. \A s \in SUBSET visible : s # {} => f[Choice(s)] = of(Choice(s))
    BY <2>1, Chosen
  <2>3. \A h : body(h) = [s \in SUBSET visible |-> IF s = {} THEN 0 ELSE f[Choice(s)] + h[s \ {Choice(s)}]]
    BY <2>2
  <2> HIDE DEF body
  <2> QED
    BY <2>3, Zenon DEF IsSum
<1> HIDE DEF of
<1>4. \E h : IsSum(h, f, visible)
  BY <1>2, SumExists, Zenon
<1> HIDE DEF f, body
<1>5. it = body(it)
  BY <1>3, <1>4, Zenon
<1> HIDE DEF it
<1>6. it[visible] = Sum(f, visible)
  BY <1>2, <1>3, <1>5, SumUnfolds
<1> QED
  BY <1>1, <1>6, Zenon DEF f

LEMMA TrafficRequests ==
    ASSUME TrafficBase, NEW visible \in SUBSET Metered
    PROVE  traffic!Overview(visible).requests = Sum(TrafficTotal("n"), visible)
<1> DEFINE f == TrafficTotal("n")
           of(t) == traffic!Snapshot(t).period_total
           body(it) == [s \in SUBSET visible |-> IF s = {} THEN 0 ELSE of(Choice(s)) + it[s \ {Choice(s)}]]
           it == CHOOSE it : it = body(it)
<1>1. traffic!Overview(visible).requests = it[visible]
  <2>1. traffic!Overview(visible).requests
          = traffic!MapThenSumSet(LAMBDA t : traffic!Snapshot(t).period_total, visible)
    BY Zenon DEF traffic!Overview
  <2> QED
    BY <2>1, Zenon DEF traffic!MapThenSumSet, traffic!MapThenFoldSet, Choice
<1>2. IsFiniteSet(visible)
  BY FS_Subset DEF TrafficBase
<1>3. \A h : IsSum(h, f, visible) <=> h = body(h)
  <2>1. \A t \in visible : f[t] = of(t)
    BY Zenon DEF TrafficTotal, traffic!Snapshot
  <2> HIDE DEF f, of
  <2>2. \A s \in SUBSET visible : s # {} => f[Choice(s)] = of(Choice(s))
    BY <2>1, Chosen
  <2>3. \A h : body(h) = [s \in SUBSET visible |-> IF s = {} THEN 0 ELSE f[Choice(s)] + h[s \ {Choice(s)}]]
    BY <2>2
  <2> HIDE DEF body
  <2> QED
    BY <2>3, Zenon DEF IsSum
<1> HIDE DEF of
<1>4. \E h : IsSum(h, f, visible)
  BY <1>2, SumExists, Zenon
<1> HIDE DEF f, body
<1>5. it = body(it)
  BY <1>3, <1>4, Zenon
<1> HIDE DEF it
<1>6. it[visible] = Sum(f, visible)
  BY <1>2, <1>3, <1>5, SumUnfolds
<1> QED
  BY <1>1, <1>6, Zenon DEF f

LEMMA TrafficAllErrors ==
    ASSUME TrafficBase, NEW visible \in SUBSET Metered
    PROVE  traffic!Overview(visible).errors = Sum(TrafficFailed, visible)
<1> DEFINE f == TrafficFailed
           of(t) == traffic!Snapshot(t).errors_4xx + traffic!Snapshot(t).errors_5xx
           body(it) == [s \in SUBSET visible |-> IF s = {} THEN 0 ELSE of(Choice(s)) + it[s \ {Choice(s)}]]
           it == CHOOSE it : it = body(it)
<1>1. traffic!Overview(visible).errors = it[visible]
  <2>1. traffic!Overview(visible).errors
          = traffic!MapThenSumSet(LAMBDA t : traffic!Snapshot(t).errors_4xx + traffic!Snapshot(t).errors_5xx, visible)
    BY Zenon DEF traffic!Overview
  <2> QED
    BY <2>1, Zenon DEF traffic!MapThenSumSet, traffic!MapThenFoldSet, Choice
<1>2. IsFiniteSet(visible)
  BY FS_Subset DEF TrafficBase
<1>3. \A h : IsSum(h, f, visible) <=> h = body(h)
  <2>1. \A t \in visible : f[t] = of(t)
    BY Zenon DEF TrafficFailed, traffic!Snapshot
  <2> HIDE DEF f, of
  <2>2. \A s \in SUBSET visible : s # {} => f[Choice(s)] = of(Choice(s))
    BY <2>1, Chosen
  <2>3. \A h : body(h) = [s \in SUBSET visible |-> IF s = {} THEN 0 ELSE f[Choice(s)] + h[s \ {Choice(s)}]]
    BY <2>2
  <2> HIDE DEF body
  <2> QED
    BY <2>3, Zenon DEF IsSum
<1> HIDE DEF of
<1>4. \E h : IsSum(h, f, visible)
  BY <1>2, SumExists, Zenon
<1> HIDE DEF f, body
<1>5. it = body(it)
  BY <1>3, <1>4, Zenon
<1> HIDE DEF it
<1>6. it[visible] = Sum(f, visible)
  BY <1>2, <1>3, <1>5, SumUnfolds
<1> QED
  BY <1>1, <1>6, Zenon DEF f

LEMMA TrafficAllThrottled ==
    ASSUME TrafficBase, NEW visible \in SUBSET Metered
    PROVE  traffic!Overview(visible).throttled = Sum(TrafficTotal("tt"), visible)
<1> DEFINE f == TrafficTotal("tt")
           of(t) == traffic!Snapshot(t).throttled
           body(it) == [s \in SUBSET visible |-> IF s = {} THEN 0 ELSE of(Choice(s)) + it[s \ {Choice(s)}]]
           it == CHOOSE it : it = body(it)
<1>1. traffic!Overview(visible).throttled = it[visible]
  <2>1. traffic!Overview(visible).throttled
          = traffic!MapThenSumSet(LAMBDA t : traffic!Snapshot(t).throttled, visible)
    BY Zenon DEF traffic!Overview
  <2> QED
    BY <2>1, Zenon DEF traffic!MapThenSumSet, traffic!MapThenFoldSet, Choice
<1>2. IsFiniteSet(visible)
  BY FS_Subset DEF TrafficBase
<1>3. \A h : IsSum(h, f, visible) <=> h = body(h)
  <2>1. \A t \in visible : f[t] = of(t)
    BY Zenon DEF TrafficTotal, traffic!Snapshot
  <2> HIDE DEF f, of
  <2>2. \A s \in SUBSET visible : s # {} => f[Choice(s)] = of(Choice(s))
    BY <2>1, Chosen
  <2>3. \A h : body(h) = [s \in SUBSET visible |-> IF s = {} THEN 0 ELSE f[Choice(s)] + h[s \ {Choice(s)}]]
    BY <2>2
  <2> HIDE DEF body
  <2> QED
    BY <2>3, Zenon DEF IsSum
<1> HIDE DEF of
<1>4. \E h : IsSum(h, f, visible)
  BY <1>2, SumExists, Zenon
<1> HIDE DEF f, body
<1>5. it = body(it)
  BY <1>3, <1>4, Zenon
<1> HIDE DEF it
<1>6. it[visible] = Sum(f, visible)
  BY <1>2, <1>3, <1>5, SumUnfolds
<1> QED
  BY <1>1, <1>6, Zenon DEF f

LEMMA TrafficPages ==
    ASSUME TrafficBase, TrafficInv, NEW visible \in SUBSET Metered, NEW m \in TrafficPeriod
    PROVE  traffic!Overview(visible).timeline[m].ok + traffic!Overview(visible).timeline[m].errors
             = TrafficDrawn(visible, m)
<1>1. m \in (now \div Minute - History + 1) .. (now \div Minute)
  <2>1. now \in Nat /\ Minute \in Nat \ {0} /\ Span \in Nat /\ History \in Nat /\ Span <= History
    BY DEF TrafficInv, TrafficTyped, TrafficBase
  <2>2. now \div Minute \in Nat
    BY <2>1, Quotients
  <2> QED
    BY <2>1, <2>2 DEF TrafficPeriod, TrafficNow
<1>2. traffic!Overview(visible).timeline[m]
        = [ok |-> traffic!MapThenSumSet(LAMBDA t : LET point == traffic!Point(t, m)
                                           IN  traffic!Natural(point.total - point.c4 - point.c5), visible),
           errors |-> traffic!MapThenSumSet(LAMBDA t : LET point == traffic!Point(t, m)
                                           IN  point.c4 + point.c5, visible)]
  BY <1>1, Zenon DEF traffic!Overview, traffic!Timeline
<1>3. traffic!Overview(visible).timeline[m] = [ok |-> Sum(TrafficOk(m), visible), errors |-> Sum(TrafficBad(m), visible)]
  BY <1>2, TrafficTimelineOk, TrafficTimelineBad, Zenon
<1> QED
  BY <1>3 DEF TrafficDrawn

LEMMA TrafficCharted ==
    ASSUME TrafficBase, TrafficInv, NEW visible \in SUBSET Metered
    PROVE  traffic!MapThenSumSet(LAMBDA minute : traffic!Overview(visible).timeline[minute].ok
                                                   + traffic!Overview(visible).timeline[minute].errors,
                                 (now \div Minute - Span + 1) .. (now \div Minute))
             = Sum([m \in TrafficPeriod |-> TrafficDrawn(visible, m)], TrafficPeriod)
<1> DEFINE S == TrafficPeriod
           f == [m \in TrafficPeriod |-> TrafficDrawn(visible, m)]
           of(m) == traffic!Overview(visible).timeline[m].ok + traffic!Overview(visible).timeline[m].errors
           body(it) == [s \in SUBSET S |-> IF s = {} THEN 0 ELSE of(Choice(s)) + it[s \ {Choice(s)}]]
           it == CHOOSE it : it = body(it)
<1>1. traffic!MapThenSumSet(LAMBDA minute : traffic!Overview(visible).timeline[minute].ok
                                              + traffic!Overview(visible).timeline[minute].errors,
                            (now \div Minute - Span + 1) .. (now \div Minute)) = it[S]
  BY Zenon DEF traffic!MapThenSumSet, traffic!MapThenFoldSet, Choice, TrafficPeriod, TrafficNow
<1>2. IsFiniteSet(S)
  <2>1. now \in Nat /\ Minute \in Nat \ {0} /\ Span \in Nat
    BY DEF TrafficInv, TrafficTyped, TrafficBase
  <2>2. now \div Minute \in Nat
    BY <2>1, Quotients
  <2>3. now \div Minute - Span + 1 \in Int /\ now \div Minute \in Int
    BY <2>1, <2>2
  <2> QED
    BY <2>3, FS_Interval, Zenon DEF TrafficPeriod, TrafficNow
<1>3. \A h : IsSum(h, f, S) <=> h = body(h)
  <2>1. \A m \in S : f[m] = of(m)
    BY TrafficPages
  <2> HIDE DEF f, of, S
  <2>2. \A s \in SUBSET S : s # {} => f[Choice(s)] = of(Choice(s))
    BY <2>1, Chosen
  <2>3. \A h : body(h) = [s \in SUBSET S |-> IF s = {} THEN 0 ELSE f[Choice(s)] + h[s \ {Choice(s)}]]
    BY <2>2
  <2> HIDE DEF body
  <2> QED
    BY <2>3, Zenon DEF IsSum
<1> HIDE DEF of, S
<1>4. \E h : IsSum(h, f, S)
  BY <1>2, SumExists, Zenon
<1> HIDE DEF f, body
<1>5. it = body(it)
  BY <1>3, <1>4, Zenon
<1> HIDE DEF it
<1>6. it[S] = Sum(f, S)
  BY <1>2, <1>3, <1>5, SumUnfolds
<1> QED
  BY <1>1, <1>6, Zenon DEF f, S

\* The sum of the chart and the sum of the table are the same sum in another
\* order.
LEMMA TrafficAcross ==
    ASSUME TrafficBase, TrafficInv, NEW visible \in SUBSET Metered
    PROVE  Sum([m \in TrafficPeriod |-> TrafficDrawn(visible, m)], TrafficPeriod)
             = Sum(TrafficTotal("n"), visible)
<1> DEFINE T == TrafficPeriod
           F == [t \in visible |-> TrafficMinutes(t, "n")]
           down(m) == [t \in visible |-> F[t][m]]
<1>1. IsFiniteSet(visible)
  BY FS_Subset DEF TrafficBase
<1>2. /\ \A t \in visible : traffic!Over(t, "n", Span) = Sum(F[t], T)
      /\ \A t \in visible : \A m \in T : F[t][m] \in Int /\ F[t][m] = traffic!Value(t, "n", m)
  <2> SUFFICES ASSUME NEW t \in visible
               PROVE  /\ traffic!Over(t, "n", Span) = Sum(F[t], T)
                      /\ \A m \in T : F[t][m] \in Int /\ F[t][m] = traffic!Value(t, "n", m)
    OBVIOUS
  <2>1. F[t] = TrafficMinutes(t, "n")
    OBVIOUS
  <2>2. \A m \in T : F[t][m] = traffic!Value(t, "n", m)
    BY DEF TrafficMinutes
  <2> HIDE DEF F
  <2>3. /\ traffic!Over(t, "n", Span) = Sum(TrafficMinutes(t, "n"), TrafficPeriod)
        /\ \A m \in TrafficPeriod : TrafficMinutes(t, "n")[m] \in Nat
    BY TrafficTotals
  <2> QED
    BY <2>1, <2>2, <2>3
<1>3. T = {} \/ IsFiniteSet(T)
  <2>1. now \in Nat /\ Minute \in Nat \ {0} /\ Span \in Nat
    BY DEF TrafficInv, TrafficTyped, TrafficBase
  <2>2. now \div Minute \in Nat
    BY <2>1, Quotients
  <2>3. now \div Minute - Span + 1 \in Int /\ now \div Minute \in Int
    BY <2>1, <2>2
  <2> QED
    BY <2>3, FS_Interval, Zenon DEF TrafficPeriod, TrafficNow
<1>4. IsFiniteSet(T)
  BY <1>3, FS_EmptySet
<1> HIDE DEF F
<1>5. Sum([t \in visible |-> Sum(F[t], T)], visible) = Sum([m \in T |-> Sum(down(m), visible)], T)
  <2> HIDE DEF T
  <2> QED
    BY <1>1, <1>2, <1>4, SumSwap
<1>6. Sum([t \in visible |-> Sum(F[t], T)], visible) = Sum(TrafficTotal("n"), visible)
  <2> DEFINE f == [t \in visible |-> Sum(F[t], T)]
  <2>1. \A t \in visible : f[t] = TrafficTotal("n")[t]
    BY <1>2 DEF TrafficTotal
  <2> HIDE DEF f
  <2>2. Sum(f, visible) = Sum(TrafficTotal("n"), visible)
    BY <1>1, <2>1, SumSame
  <2> QED
    BY <2>2 DEF f
<1>7. ASSUME NEW m \in T
      PROVE  TrafficDrawn(visible, m) = Sum(down(m), visible)
  <2>1. \A t \in visible : /\ TrafficOk(m)[t] \in Int /\ TrafficBad(m)[t] \in Int
                           /\ down(m)[t] = TrafficOk(m)[t] + TrafficBad(m)[t]
    <3> SUFFICES ASSUME NEW t \in visible
                 PROVE  /\ TrafficOk(m)[t] \in Int /\ TrafficBad(m)[t] \in Int
                        /\ down(m)[t] = TrafficOk(m)[t] + TrafficBad(m)[t]
      OBVIOUS
    <3> DEFINE n == traffic!Value(t, "n", m)
               c4 == traffic!Value(t, "c4", m)
               c5 == traffic!Value(t, "c5", m)
    <3>1. t \in Metered /\ m \in Int /\ m <= TrafficNow
      <4>1. now \in Nat /\ Minute \in Nat \ {0} /\ Span \in Nat
        BY DEF TrafficInv, TrafficTyped, TrafficBase
      <4>2. TrafficNow \in Nat
        BY <4>1, Quotients DEF TrafficNow
      <4> QED
        BY <4>1, <4>2 DEF TrafficPeriod
    <3>2. n \in Nat /\ c4 \in Nat /\ c5 \in Nat /\ c4 + c5 <= n
      BY <3>1, TrafficValues
    <3>3. traffic!Point(t, m).total = n /\ traffic!Point(t, m).c4 = c4 /\ traffic!Point(t, m).c5 = c5
      BY DEF traffic!Point
    <3>4. down(m)[t] = n
      BY <1>2
    <3>5. TrafficBad(m)[t] = c4 + c5
      BY <3>1, <3>3 DEF TrafficBad
    <3>6. TrafficOk(m)[t] = traffic!Natural(n - c4 - c5)
      BY <3>1, <3>3 DEF TrafficOk
    <3> HIDE DEF n, c4, c5, down
    <3>7. traffic!Natural(n - c4 - c5) = n - c4 - c5
      BY <3>2 DEF traffic!Natural
    <3> QED
      BY <3>2, <3>4, <3>5, <3>6, <3>7
  <2> DEFINE d == down(m)
  <2>2. \A t \in visible : /\ TrafficOk(m)[t] \in Int /\ TrafficBad(m)[t] \in Int
                           /\ d[t] = TrafficOk(m)[t] + TrafficBad(m)[t]
    BY <2>1
  <2> HIDE DEF d
  <2>3. Sum(d, visible) = Sum(TrafficOk(m), visible) + Sum(TrafficBad(m), visible)
    BY <1>1, <2>2, SumAdd
  <2> QED
    BY <2>3 DEF d, TrafficDrawn
<1>8. Sum([m \in T |-> TrafficDrawn(visible, m)], T) = Sum([m \in T |-> Sum(down(m), visible)], T)
  <2> DEFINE f == [m \in T |-> TrafficDrawn(visible, m)]
             g == [m \in T |-> Sum(down(m), visible)]
  <2>1. \A m \in T : f[m] = g[m]
    BY <1>7
  <2> HIDE DEF f, g, T
  <2>2. Sum(f, T) = Sum(g, T)
    BY <1>4, <2>1, SumSame
  <2> QED
    BY <2>2 DEF f, g
<1> QED
  BY <1>5, <1>6, <1>8

LEMMA TrafficOrder ==
    ASSUME TrafficBase, TrafficInv, NEW t \in Metered
    PROVE  /\ traffic!Over(t, "n", Span) \in Int /\ traffic!Over(t, "c4", Span) \in Int
           /\ traffic!Over(t, "c5", Span) \in Int /\ traffic!Over(t, "tt", Span) \in Int
           /\ traffic!Over(t, "tt", Span) <= traffic!Over(t, "c4", Span) + traffic!Over(t, "c5", Span)
           /\ traffic!Over(t, "c4", Span) + traffic!Over(t, "c5", Span) <= traffic!Over(t, "n", Span)
<1> DEFINE T == TrafficPeriod
           n == TrafficMinutes(t, "n")
           c4 == TrafficMinutes(t, "c4")
           c5 == TrafficMinutes(t, "c5")
           tt == TrafficMinutes(t, "tt")
           c == [m \in T |-> c4[m] + c5[m]]
<1>1. /\ IsFiniteSet(T) /\ \A m \in T : m \in Int /\ m <= TrafficNow
      /\ traffic!Over(t, "n", Span) = Sum(n, T) /\ traffic!Over(t, "n", Span) \in Nat
  BY TrafficTotals
<1>2. traffic!Over(t, "c4", Span) = Sum(c4, T) /\ traffic!Over(t, "c4", Span) \in Nat
  BY TrafficTotals
<1>3. traffic!Over(t, "c5", Span) = Sum(c5, T) /\ traffic!Over(t, "c5", Span) \in Nat
  BY TrafficTotals
<1>4. traffic!Over(t, "tt", Span) = Sum(tt, T) /\ traffic!Over(t, "tt", Span) \in Nat
  BY TrafficTotals
<1>5. \A m \in T : /\ n[m] \in Int /\ c4[m] \in Int /\ c5[m] \in Int /\ tt[m] \in Int
                   /\ c[m] \in Int /\ c[m] = c4[m] + c5[m] /\ c[m] <= n[m] /\ tt[m] <= c4[m]
  <2> SUFFICES ASSUME NEW m \in T
               PROVE  /\ n[m] \in Int /\ c4[m] \in Int /\ c5[m] \in Int /\ tt[m] \in Int
                      /\ c[m] \in Int /\ c[m] = c4[m] + c5[m] /\ c[m] <= n[m] /\ tt[m] <= c4[m]
    OBVIOUS
  <2>1. /\ traffic!Value(t, "n", m) \in Nat /\ traffic!Value(t, "c4", m) \in Nat
        /\ traffic!Value(t, "c5", m) \in Nat /\ traffic!Value(t, "tt", m) \in Nat
        /\ traffic!Value(t, "c4", m) + traffic!Value(t, "c5", m) <= traffic!Value(t, "n", m)
        /\ traffic!Value(t, "tt", m) <= traffic!Value(t, "c4", m)
    BY <1>1, TrafficValues
  <2>2. /\ n[m] = traffic!Value(t, "n", m) /\ c4[m] = traffic!Value(t, "c4", m)
        /\ c5[m] = traffic!Value(t, "c5", m) /\ tt[m] = traffic!Value(t, "tt", m)
    BY DEF TrafficMinutes
  <2>3. c[m] = c4[m] + c5[m]
    OBVIOUS
  <2> HIDE DEF n, c4, c5, tt, c
  <2> QED
    BY <2>1, <2>2, <2>3
<1> HIDE DEF T, n, c4, c5, tt, c
<1>6. Sum(c, T) = Sum(c4, T) + Sum(c5, T)
  BY <1>1, <1>5, SumAdd
<1>7. Sum(c, T) <= Sum(n, T)
  BY <1>1, <1>5, SumAtMost
<1>8. Sum(tt, T) <= Sum(c4, T)
  BY <1>1, <1>5, SumAtMost
<1> QED
  BY <1>1, <1>2, <1>3, <1>4, <1>6, <1>7, <1>8

LEMMA TrafficChartMatches ==
    ASSUME TrafficBase, TrafficInv
    PROVE  traffic!ChartMatchesTable
<1> SUFFICES ASSUME NEW visible \in SUBSET Metered
             PROVE  /\ traffic!MapThenSumSet(LAMBDA minute : traffic!Overview(visible).timeline[minute].ok
                                                              + traffic!Overview(visible).timeline[minute].errors,
                           (now \div Minute - Span + 1) .. (now \div Minute))
                         = traffic!Overview(visible).requests
                    /\ traffic!Overview(visible).throttled <= traffic!Overview(visible).errors
                    /\ traffic!Overview(visible).errors <= traffic!Overview(visible).requests
  BY Zenon DEF traffic!ChartMatchesTable
<1>1. traffic!MapThenSumSet(LAMBDA minute : traffic!Overview(visible).timeline[minute].ok
                                              + traffic!Overview(visible).timeline[minute].errors,
                            (now \div Minute - Span + 1) .. (now \div Minute))
        = traffic!Overview(visible).requests
  <2>1. traffic!MapThenSumSet(LAMBDA minute : traffic!Overview(visible).timeline[minute].ok
                                                + traffic!Overview(visible).timeline[minute].errors,
                              (now \div Minute - Span + 1) .. (now \div Minute))
          = Sum([m \in TrafficPeriod |-> TrafficDrawn(visible, m)], TrafficPeriod)
    BY TrafficCharted, Zenon
  <2>2. Sum([m \in TrafficPeriod |-> TrafficDrawn(visible, m)], TrafficPeriod) = Sum(TrafficTotal("n"), visible)
    BY TrafficAcross, Zenon
  <2>3. traffic!Overview(visible).requests = Sum(TrafficTotal("n"), visible)
    BY TrafficRequests, Zenon
  <2> QED
    BY <2>1, <2>2, <2>3, Zenon
<1>2. IsFiniteSet(visible)
  BY FS_Subset DEF TrafficBase
<1> DEFINE n == TrafficTotal("n")
           e == TrafficFailed
           tt == TrafficTotal("tt")
<1>3. \A t \in visible : /\ n[t] \in Int /\ e[t] \in Int /\ tt[t] \in Int
                         /\ tt[t] <= e[t] /\ e[t] <= n[t]
  <2> SUFFICES ASSUME NEW t \in visible
               PROVE  /\ n[t] \in Int /\ e[t] \in Int /\ tt[t] \in Int
                      /\ tt[t] <= e[t] /\ e[t] <= n[t]
    OBVIOUS
  <2>1. /\ n[t] = traffic!Over(t, "n", Span) /\ tt[t] = traffic!Over(t, "tt", Span)
        /\ e[t] = traffic!Over(t, "c4", Span) + traffic!Over(t, "c5", Span)
    BY DEF TrafficTotal, TrafficFailed
  <2> HIDE DEF n, e, tt
  <2> QED
    BY <2>1, TrafficOrder
<1>4. traffic!Overview(visible).throttled = Sum(tt, visible)
  BY TrafficAllThrottled, Zenon
<1>5. traffic!Overview(visible).errors = Sum(e, visible)
  BY TrafficAllErrors, Zenon
<1>6. traffic!Overview(visible).requests = Sum(n, visible)
  BY TrafficRequests, Zenon
<1> HIDE DEF n, e, tt
<1>7. Sum(tt, visible) <= Sum(e, visible) /\ Sum(e, visible) <= Sum(n, visible)
  BY <1>2, <1>3, SumAtMost
<1> QED
  BY <1>1, <1>4, <1>5, <1>6, <1>7

\* Traffic metering (gate, record, flush and traffic_overview): in every
\* reachable state no more requests pass a window than its ceiling unless one
\* came to it after its counter had expired, every request recorded is
\* counted once, lost with a worker or still in memory, and the chart adds up
\* to the table for every choice of clients, without errors that are not
\* requests or refusals that are not errors.
THEOREM Metering == ASSUME traffic!TrafficAssumption PROVE traffic!Spec => []traffic!TrafficHolds
<1>1. traffic!Init => TrafficInv
  BY TrafficBased, TrafficStarts
<1>2. TrafficInv /\ [traffic!Next]_traffic!vars => TrafficInv'
  BY TrafficSteps
<1>3. TrafficInv => traffic!TrafficHolds
  BY TrafficBased, TrafficTypes, TrafficBudgets, TrafficCountedOnce, TrafficChartMatches DEF traffic!TrafficHolds
<1> QED
  BY <1>1, <1>2, <1>3, PTL DEF traffic!Spec

-----------------------------------------------------------------------------
(* More about sums *)

\* Of the summands those count that are not zero.
LEMMA SumWithin ==
    ASSUME NEW S, IsFiniteSet(S), NEW R \in SUBSET S, NEW f, NEW g,
           \A x \in S : f[x] \in Int, \A x \in S : g[x] = IF x \in R THEN f[x] ELSE 0
    PROVE  Sum(g, S) = Sum(f, R)
<1> DEFINE bad == {s \in SUBSET S : Sum(g, s) # Sum(f, s \cap R)}
<1>1. ASSUME NEW s \in SUBSET S, \A r \in SUBSET s : r # s => r \notin bad
      PROVE  s \notin bad
  <2>1. IsFiniteSet(s) /\ IsFiniteSet(s \cap R)
    BY FS_Subset
  <2>2. CASE s = {}
    <3>1. s \cap R = {}
      BY <2>2
    <3> QED
      BY <2>2, <3>1, SumEmpty
  <2>3. CASE s # {}
    <3> DEFINE c == Choice(s)
               q == s \ {c}
    <3>1. c \in s /\ q \in SUBSET S /\ q \notin bad
      BY <1>1, <2>3, Chosen
    <3>2. Sum(g, s) = g[c] + Sum(g, q)
      BY <2>1, <2>3, SumIs
    <3> HIDE DEF c
    <3>3. Sum(g, q) = Sum(f, q \cap R)
      BY <3>1
    <3>4. CASE c \in R
      <4>1. (s \cap R) \ {c} = q \cap R /\ c \in s \cap R /\ \A x \in s \cap R : f[x] \in Int
        BY <3>1, <3>4
      <4>2. Sum(f, s \cap R) = f[c] + Sum(f, q \cap R)
        BY <2>1, <4>1, SumTakeOut
      <4>3. g[c] = f[c]
        BY <3>1, <3>4
      <4> QED
        BY <3>2, <3>3, <4>2, <4>3
    <3>5. CASE c \notin R
      <4>1. s \cap R = q \cap R
        BY <3>5
      <4>2. g[c] = 0
        BY <3>1, <3>5
      <4>3. Sum(f, q \cap R) \in Int
        <5>1. IsFiniteSet(q \cap R) /\ \A x \in q \cap R : f[x] \in Int
          BY <2>1, <4>1
        <5> QED
          BY <5>1, SumType
      <4> QED
        <5>1. Sum(g, s) = Sum(f, q \cap R)
          BY <3>2, <3>3, <4>2, <4>3
        <5> QED
          BY <4>1, <5>1
    <3> QED
      BY <3>4, <3>5
  <2> QED
    BY <2>2, <2>3
<1>2. bad \subseteq SUBSET S /\ S \cap R = R
  OBVIOUS
<1> HIDE DEF bad
<1>3. bad = {}
  BY <1>1, <1>2, NoneIsBad
<1>4. Sum(g, S) = Sum(f, S \cap R)
  BY <1>3 DEF bad
<1> QED
  BY <1>2, <1>4

LEMMA SumSplit ==
    ASSUME NEW S, IsFiniteSet(S), NEW R \in SUBSET S, NEW f, \A x \in S : f[x] \in Int
    PROVE  Sum(f, S) = Sum(f, R) + Sum(f, S \ R)
<1> DEFINE g == [x \in S |-> IF x \in R THEN f[x] ELSE 0]
           h == [x \in S |-> IF x \in S \ R THEN f[x] ELSE 0]
<1>1. \A x \in S : /\ g[x] = IF x \in R THEN f[x] ELSE 0
                   /\ h[x] = IF x \in S \ R THEN f[x] ELSE 0
                   /\ g[x] \in Int /\ h[x] \in Int /\ f[x] = g[x] + h[x]
  OBVIOUS
<1> HIDE DEF g, h
<1>2. Sum(f, S) = Sum(g, S) + Sum(h, S)
  BY <1>1, SumAdd
<1>3. Sum(g, S) = Sum(f, R)
  BY <1>1, SumWithin
<1>4. Sum(h, S) = Sum(f, S \ R)
  <2>1. S \ R \in SUBSET S
    OBVIOUS
  <2> QED
    BY <1>1, <2>1, SumWithin
<1> QED
  BY <1>2, <1>3, <1>4

LEMMA SumMinus ==
    ASSUME NEW S, IsFiniteSet(S), NEW f, NEW g, NEW h,
           \A x \in S : f[x] \in Int /\ g[x] \in Int /\ h[x] = f[x] - g[x]
    PROVE  Sum(h, S) = Sum(f, S) - Sum(g, S) /\ Sum(f, S) \in Int /\ Sum(g, S) \in Int
<1>1. \A x \in S : h[x] \in Int /\ f[x] = h[x] + g[x]
  OBVIOUS
<1>2. Sum(f, S) = Sum(h, S) + Sum(g, S)
  BY <1>1, SumAdd
<1>3. Sum(f, S) \in Int /\ Sum(g, S) \in Int
  BY SumType
<1>4. Sum(h, S) \in Int
  BY <1>1, SumType
<1> QED
  BY <1>2, <1>3, <1>4

Part(S, b, y) == {x \in S : b[x] = y}

\* The sums of the parts add up to the sum of the whole.
LEMMA SumParts ==
    ASSUME NEW S, IsFiniteSet(S), NEW T, IsFiniteSet(T), NEW b, NEW f, NEW g,
           \A x \in S : b[x] \in T /\ f[x] \in Int,
           \A y \in T : g[y] = Sum(f, Part(S, b, y))
    PROVE  Sum(g, T) = Sum(f, S)
<1> DEFINE F == [y \in T |-> [x \in S |-> IF b[x] = y THEN f[x] ELSE 0]]
           row_(x) == [y \in T |-> F[y][x]]
           all == [y \in T |-> Sum(F[y], S)]
           each == [x \in S |-> Sum(row_(x), T)]
<1>1. \A y \in T : \A x \in S : F[y][x] = (IF b[x] = y THEN f[x] ELSE 0) /\ F[y][x] \in Int
  OBVIOUS
<1> HIDE DEF F
<1>2. Sum(all, T) = Sum(each, S)
  BY <1>1, SumSwap
<1>3. \A y \in T : all[y] = g[y]
  <2> SUFFICES ASSUME NEW y \in T PROVE Sum(F[y], S) = g[y]
    OBVIOUS
  <2> DEFINE R == Part(S, b, y)
             h == F[y]
  <2>1. R \in SUBSET S /\ \A x \in S : h[x] = IF x \in R THEN f[x] ELSE 0
    BY <1>1 DEF Part
  <2>2. g[y] = Sum(f, R) /\ \A x \in S : f[x] \in Int
    OBVIOUS
  <2> HIDE DEF R, h
  <2>3. Sum(h, S) = Sum(f, R)
    BY <2>1, <2>2, SumWithin
  <2> QED
    BY <2>2, <2>3 DEF h
<1>4. \A x \in S : each[x] = f[x]
  <2> SUFFICES ASSUME NEW x \in S PROVE Sum(row_(x), T) = f[x]
    OBVIOUS
  <2> DEFINE r == row_(x)
  <2>1. b[x] \in T /\ f[x] \in Int /\ \A y \in T : r[y] = IF b[x] = y THEN f[x] ELSE 0
    BY <1>1
  <2> HIDE DEF r
  <2>2. \A y \in T : r[y] \in Int
    BY <2>1
  <2>3. Sum(r, T) = r[b[x]] + Sum(r, T \ {b[x]})
    BY <2>1, <2>2, SumTakeOut
  <2>4. Sum(r, T \ {b[x]}) = 0
    <3>1. IsFiniteSet(T \ {b[x]}) /\ \A y \in T \ {b[x]} : r[y] = 0
      BY <2>1, FS_RemoveElement
    <3> QED
      BY <3>1, SumZero
  <2>5. Sum(r, T) = f[x]
    BY <2>1, <2>3, <2>4
  <2> QED
    BY <2>5 DEF r
<1> HIDE DEF all, each
<1>5. Sum(all, T) = Sum(g, T)
  BY <1>3, SumSame
<1>6. Sum(each, S) = Sum(f, S)
  BY <1>4, SumSame
<1> QED
  BY <1>2, <1>5, <1>6

LEMMA SumOnes ==
    ASSUME NEW S, IsFiniteSet(S), NEW f, \A x \in S : f[x] = 1
    PROVE  Sum(f, S) = Cardinality(S)
<1> DEFINE bad == {s \in SUBSET S : Sum(f, s) # Cardinality(s)}
<1>1. ASSUME NEW s \in SUBSET S, \A r \in SUBSET s : r # s => r \notin bad
      PROVE  s \notin bad
  <2>1. IsFiniteSet(s)
    BY FS_Subset
  <2>2. CASE s = {}
    BY <2>2, SumEmpty, FS_EmptySet
  <2>3. CASE s # {}
    <3> DEFINE c == Choice(s)
               q == s \ {c}
    <3>1. c \in s /\ q \in SUBSET S /\ q \notin bad
      BY <1>1, <2>3, Chosen
    <3>2. Sum(f, s) = f[c] + Sum(f, q)
      BY <2>1, <2>3, SumIs
    <3> HIDE DEF c
    <3>3. Cardinality(q) = Cardinality(s) - 1 /\ Cardinality(s) \in Nat
      BY <2>1, <3>1, FS_RemoveElement, FS_CardinalityType
    <3>4. f[c] = 1 /\ Sum(f, q) = Cardinality(q)
      BY <3>1
    <3> QED
      BY <3>2, <3>3, <3>4
  <2> QED
    BY <2>2, <2>3
<1>2. bad \subseteq SUBSET S
  OBVIOUS
<1> HIDE DEF bad
<1>3. bad = {}
  BY <1>1, <1>2, NoneIsBad
<1> QED
  BY <1>3 DEF bad

\* What is counted by parts is counted as a whole.
LEMMA CountParts ==
    ASSUME NEW S, IsFiniteSet(S), NEW T, IsFiniteSet(T), NEW b, NEW g,
           \A x \in S : b[x] \in T, \A y \in T : g[y] = Cardinality(Part(S, b, y))
    PROVE  Sum(g, T) = Cardinality(S)
<1> DEFINE f == [x \in S |-> 1]
<1>1. \A x \in S : f[x] = 1 /\ f[x] \in Int
  OBVIOUS
<1> HIDE DEF f
<1>2. \A y \in T : g[y] = Sum(f, Part(S, b, y))
  <2> SUFFICES ASSUME NEW y \in T PROVE g[y] = Sum(f, Part(S, b, y))
    OBVIOUS
  <2>1. Part(S, b, y) \in SUBSET S /\ g[y] = Cardinality(Part(S, b, y))
    BY DEF Part
  <2>2. IsFiniteSet(Part(S, b, y)) /\ \A x \in Part(S, b, y) : f[x] = 1
    BY <1>1, <2>1, FS_Subset
  <2> QED
    BY <2>1, <2>2, SumOnes
<1>3. Sum(g, T) = Sum(f, S)
  BY <1>1, <1>2, SumParts
<1>4. Sum(f, S) = Cardinality(S)
  BY <1>1, SumOnes
<1> QED
  BY <1>3, <1>4

LEMMA Counted ==
    ASSUME NEW S, IsFiniteSet(S), NEW R \in SUBSET S
    PROVE  /\ Cardinality(S) = Cardinality(R) + Cardinality(S \ R)
           /\ Cardinality(R) \in Nat /\ Cardinality(S \ R) \in Nat /\ Cardinality(S) \in Nat
           /\ IsFiniteSet(R) /\ IsFiniteSet(S \ R)
<1> DEFINE Q == S \ R
<1>1. Q \in SUBSET S /\ R \cup Q = S /\ R \cap Q = {}
  OBVIOUS
<1> HIDE DEF Q
<1>2. IsFiniteSet(R) /\ IsFiniteSet(Q)
  BY <1>1, FS_Subset
<1>3. Cardinality(R \cup Q) = Cardinality(R) + Cardinality(Q) - Cardinality(R \cap Q)
  BY <1>2, FS_Union
<1>4. Cardinality(R) \in Nat /\ Cardinality(Q) \in Nat /\ Cardinality(S) \in Nat
  BY <1>2, FS_CardinalityType
<1>5. Cardinality({}) = 0
  BY FS_EmptySet
<1>6. Cardinality(S) = Cardinality(R) + Cardinality(Q) - Cardinality({})
  BY <1>1, <1>3, Zenon
<1>7. Cardinality(S) = Cardinality(R) + Cardinality(Q)
  BY <1>4, <1>5, <1>6
<1> QED
  BY <1>2, <1>4, <1>7 DEF Q

LEMMA Images ==
    ASSUME NEW S, IsFiniteSet(S), NEW b, NEW T, \A x \in S : b[x] \in T, \A y \in T : \E x \in S : b[x] = y
    PROVE  IsFiniteSet(T)
<1> DEFINE f == [x \in S |-> b[x]]
<1>1. f \in Surjection(S, T)
  BY DEF Surjection
<1> HIDE DEF f
<1> QED
  BY <1>1, FS_Surjection

-----------------------------------------------------------------------------
(* Reports *)

ReportsBase ==
    /\ IsFiniteSet(Lesson) /\ IsFiniteSet(Attendee) /\ IsFiniteSet(Bill)
    /\ \A c \in Bill : ChargeOf[c].group \in reports!Group
    /\ DayOf \in [Lesson -> Int] /\ Due \subseteq Nat
    /\ Today \in Nat \ {0} /\ Recent \in Nat /\ NoFilter \notin Int

LEMMA ReportsBased ==
    ASSUME reports!ReportsAssumption
    PROVE  ReportsBase
<1>1. \A S : reports!IsFiniteSet(S) => IsFiniteSet(S)
  BY Zenon DEF IsFiniteSet, reports!IsFiniteSet
<1>2. IsFiniteSet(Lesson) /\ IsFiniteSet(Attendee) /\ IsFiniteSet(Bill)
  BY <1>1, Zenon DEF reports!ReportsAssumption
<1>3. /\ \A c \in Bill : ChargeOf[c].group \in reports!Group
      /\ DayOf \in [Lesson -> Int] /\ Due \subseteq Nat
    /\ Today \in Nat \ {0} /\ Recent \in Nat /\ NoFilter \notin Int
  BY DEF reports!ReportsAssumption
<1> QED
  BY <1>2, <1>3 DEF ReportsBase

LEMMA ReportsCounts == \A S : reports!Cardinality(S) = Cardinality(S)
  BY Zenon DEF Cardinality, reports!Cardinality

ReportsStatus == {"UNPAID", "PARTIALLY_PAID", "PAID", "OVERPAID", "WAIVED", "CANCELLED"}

ReportsCharge ==
    {c \in [due : Nat, discount : Nat, paid : Nat, status : ReportsStatus] : c.discount <= c.due}

ReportsEntry ==
    [charge : Bill, kind : {"PAYMENT", "REFUND"}, amount : Nat, cashier : Cashier, method : Method,
     day : {Today - 1, Today}]

\* The row of a student nobody corrected by hand.
ReportsOrdinary(r) ==
    \/ r.state = "ABSENT" /\ r.status = "ABSENT"
    \/ r.state \in {"CHECKED_IN", "CHECKED_OUT"} /\ r.status \in {"PRESENT", "PARTIAL", "LATE"}
    \/ r.state = "CANCELLED" /\ r.status = "CANCELLED"

ReportsRows(R, A) ==
    /\ DOMAIN R \subseteq Lesson \X Attendee
    /\ \A k \in DOMAIN R : R[k] \in reports!Row
    /\ A \subseteq DOMAIN R
    /\ \A k \in DOMAIN R \ A : ReportsOrdinary(R[k])

ReportsSigned(b) ==
    [i \in DOMAIN b |-> IF b[i].kind = "REFUND" THEN -b[i].amount ELSE b[i].amount]

ReportsPaid(ch) == [c \in Bill |-> ch[c].paid]

\* What the ledger holds is what the charges have been paid.
ReportsBalanced(ch, b) ==
    /\ ch \in [Bill -> ReportsCharge] /\ b \in Seq(ReportsEntry)
    /\ Sum(ReportsSigned(b), DOMAIN b) = Sum(ReportsPaid(ch), Bill)

ReportsInv ==
    /\ lessons \in [Lesson -> {"SCHEDULED", "OPEN", "COMPLETED", "CANCELLED"}]
    /\ ReportsRows(rows, adjusted)
    /\ ReportsBalanced(charges, ledger)

LEMMA ReportsPuts ==
    ASSUME NEW R, NEW A, ReportsRows(R, A), NEW k \in Lesson \X Attendee, NEW r \in reports!Row,
           NEW R2, R2 = [key \in DOMAIN R \cup {k} |-> IF key = k THEN r ELSE R[key]],
           NEW A2, A2 \subseteq DOMAIN R \cup {k}, A \ {k} \subseteq A2,
           k \in A2 \/ ReportsOrdinary(r)
    PROVE  ReportsRows(R2, A2)
<1>1. /\ DOMAIN R2 = DOMAIN R \cup {k} /\ R2[k] = r
      /\ \A key \in DOMAIN R2 : key # k => key \in DOMAIN R /\ R2[key] = R[key]
  OBVIOUS
<1>2. DOMAIN R2 \subseteq Lesson \X Attendee /\ \A key \in DOMAIN R2 : R2[key] \in reports!Row
  BY <1>1, Zenon DEF ReportsRows
<1>3. \A key \in DOMAIN R2 \ A2 : ReportsOrdinary(R2[key])
  <2> TAKE key \in DOMAIN R2 \ A2
  <2>1. CASE key = k
    BY <1>1, <2>1, Zenon
  <2>2. CASE key # k
    <3>1. key \in DOMAIN R \ A /\ R2[key] = R[key]
      BY <1>1, <2>2
    <3> QED
      BY <3>1, Zenon DEF ReportsRows
  <2> QED
    BY <2>1, <2>2
<1> QED
  BY <1>1, <1>2, <1>3, Zenon DEF ReportsRows

LEMMA ReportsScans ==
    ASSUME ReportsInv, NEW l \in Lesson, NEW s \in Attendee, reports!Scan(l, s)
    PROVE  ReportsRows(rows', adjusted')
<1> DEFINE k == <<l, s>>
<1>1. k \in Lesson \X Attendee /\ ReportsRows(rows, adjusted)
  BY DEF ReportsInv
<1>2. adjusted' = adjusted \ (IF k \in DOMAIN rows /\ rows[k].state = "ABSENT" THEN {k} ELSE {})
  BY DEF reports!Scan
<1>3. ASSUME k \in DOMAIN rows => rows[k].state = "ABSENT",
             NEW status \in {"PRESENT", "LATE"}, NEW type \in {"NORMAL", "ALTERNATIVE_GROUP"},
             reports!Put(k, [state |-> "CHECKED_IN", status |-> status, type |-> type])
      PROVE  ReportsRows(rows', adjusted')
  <2> DEFINE r == [state |-> "CHECKED_IN", status |-> status, type |-> type]
  <2>1. r \in reports!Row /\ ReportsOrdinary(r)
    BY DEF reports!Row, ReportsOrdinary
  <2>2. rows' = [key \in DOMAIN rows \cup {k} |-> IF key = k THEN r ELSE rows[key]]
    BY <1>3 DEF reports!Put
  <2>3. adjusted' \subseteq DOMAIN rows \cup {k} /\ adjusted \ {k} \subseteq adjusted'
    BY <1>1, <1>2 DEF ReportsRows
  <2> HIDE DEF k, r
  <2> QED
    BY <1>1, <2>1, <2>2, <2>3, ReportsPuts
<1>4. ASSUME k \in DOMAIN rows, rows[k].state = "CHECKED_IN", NEW status \in {rows[k].status, "PARTIAL"},
             reports!Put(k, [rows[k] EXCEPT !.state = "CHECKED_OUT", !.status = status])
      PROVE  ReportsRows(rows', adjusted')
  <2> PICK c \in reports!Row : c = rows[k]
    BY <1>1, <1>4 DEF ReportsRows
  <2> DEFINE r == [c EXCEPT !.state = "CHECKED_OUT", !.status = status]
  <2>1. r.state = "CHECKED_OUT" /\ r.status = status /\ r \in reports!Row
    BY <1>4 DEF reports!Row
  <2>2. rows' = [key \in DOMAIN rows \cup {k} |-> IF key = k THEN r ELSE rows[key]]
    BY <1>4 DEF reports!Put
  <2>3. adjusted' \subseteq DOMAIN rows \cup {k} /\ adjusted \ {k} \subseteq adjusted'
    BY <1>1, <1>2 DEF ReportsRows
  <2>4. k \in adjusted' \/ ReportsOrdinary(r)
    <3>1. k \in adjusted \/ ReportsOrdinary(c)
      BY <1>1, <1>4 DEF ReportsRows
    <3>2. k \in adjusted => k \in adjusted'
      BY <1>2, <1>4
    <3>3. ReportsOrdinary(c) => ReportsOrdinary(r)
      <4> HIDE DEF r
      <4> QED
        BY <1>4, <2>1 DEF ReportsOrdinary
    <3> QED
      BY <3>1, <3>2, <3>3
  <2> HIDE DEF k, r
  <2> QED
    BY <1>1, <2>1, <2>2, <2>3, <2>4, ReportsPuts
<1>5. \/ /\ k \in DOMAIN rows => rows[k].state = "ABSENT"
         /\ \E status \in {"PRESENT", "LATE"} :
               reports!Put(k, [state |-> "CHECKED_IN", status |-> status,
                               type |-> IF HomeOf[s] = GroupOf[l] THEN "NORMAL" ELSE "ALTERNATIVE_GROUP"])
      \/ /\ k \in DOMAIN rows
         /\ rows[k].state = "CHECKED_IN"
         /\ \E status \in {rows[k].status, "PARTIAL"} :
               reports!Put(k, [rows[k] EXCEPT !.state = "CHECKED_OUT", !.status = status])
  BY DEF reports!Scan
<1>6. (IF HomeOf[s] = GroupOf[l] THEN "NORMAL" ELSE "ALTERNATIVE_GROUP") \in {"NORMAL", "ALTERNATIVE_GROUP"}
  OBVIOUS
<1> HIDE DEF k
<1> QED
  BY <1>3, <1>4, <1>5, <1>6, Zenon

LEMMA ReportsCreates ==
    ASSUME ReportsInv, NEW l \in Lesson, NEW s \in Attendee, reports!ManualCreate(l, s)
    PROVE  ReportsRows(rows', adjusted')
<1> DEFINE k == <<l, s>>
<1>1. k \in Lesson \X Attendee /\ ReportsRows(rows, adjusted)
  BY DEF ReportsInv
<1>2. PICK status \in {"PRESENT", "LATE"} :
         reports!Put(k, [state |-> "CHECKED_IN", status |-> status, type |-> "MANUAL"])
  BY DEF reports!ManualCreate
<1>3. adjusted' = adjusted
  BY DEF reports!ManualCreate
<1> DEFINE r == [state |-> "CHECKED_IN", status |-> status, type |-> "MANUAL"]
<1>4. r \in reports!Row /\ ReportsOrdinary(r)
  BY DEF reports!Row, ReportsOrdinary
<1>5. rows' = [key \in DOMAIN rows \cup {k} |-> IF key = k THEN r ELSE rows[key]]
  BY <1>2 DEF reports!Put
<1>6. adjusted' \subseteq DOMAIN rows \cup {k} /\ adjusted \ {k} \subseteq adjusted'
  BY <1>1, <1>3 DEF ReportsRows
<1> HIDE DEF k, r
<1> QED
  BY <1>1, <1>4, <1>5, <1>6, ReportsPuts

LEMMA ReportsAdjusts ==
    ASSUME ReportsInv, NEW l \in Lesson, NEW s \in Attendee, reports!ManualAdjust(l, s)
    PROVE  ReportsRows(rows', adjusted')
<1> DEFINE k == <<l, s>>
<1>1. k \in Lesson \X Attendee /\ ReportsRows(rows, adjusted)
  BY DEF ReportsInv
<1>2. PICK c \in reports!Corrections, timed \in BOOLEAN :
         /\ reports!Put(k, [state |-> IF timed /\ rows[k].state = "ABSENT" THEN "CHECKED_IN" ELSE rows[k].state,
                            status |-> c.status, type |-> c.type])
         /\ adjusted' = adjusted \cup {k}
  BY DEF reports!ManualAdjust
<1>3. k \in DOMAIN rows
  BY DEF reports!ManualAdjust
<1> DEFINE state == IF timed /\ rows[k].state = "ABSENT" THEN "CHECKED_IN" ELSE rows[k].state
           r == [state |-> state, status |-> c.status, type |-> c.type]
<1>4. r \in reports!Row
  <2>1. rows[k] \in reports!Row
    BY <1>1, <1>3 DEF ReportsRows
  <2>2. rows[k].state \in {"ABSENT", "CHECKED_IN", "CHECKED_OUT", "CANCELLED"}
    BY <2>1 DEF reports!Row
  <2>3. state \in {"ABSENT", "CHECKED_IN", "CHECKED_OUT", "CANCELLED"}
    BY <2>2
  <2>4. /\ c.status \in {"PRESENT", "LATE", "ABSENT", "PARTIAL", "CANCELLED"}
        /\ c.type \in {"NORMAL", "ALTERNATIVE_GROUP", "MANUAL"}
    BY DEF reports!Corrections
  <2> HIDE DEF state
  <2> QED
    BY <2>3, <2>4 DEF reports!Row
<1>5. rows' = [key \in DOMAIN rows \cup {k} |-> IF key = k THEN r ELSE rows[key]]
  BY <1>2 DEF reports!Put
<1>6. adjusted' \subseteq DOMAIN rows \cup {k} /\ adjusted \ {k} \subseteq adjusted' /\ k \in adjusted'
  BY <1>1, <1>2 DEF ReportsRows
<1> HIDE DEF k, r, state
<1> QED
  BY <1>1, <1>4, <1>5, <1>6, ReportsPuts

LEMMA ReportsCancels ==
    ASSUME ReportsInv, NEW l \in Lesson, NEW s \in Attendee, reports!CancelAttendance(l, s)
    PROVE  ReportsRows(rows', adjusted')
<1> DEFINE k == <<l, s>>
<1>1. k \in Lesson \X Attendee /\ ReportsRows(rows, adjusted)
  BY DEF ReportsInv
<1>2. /\ reports!Put(k, [rows[k] EXCEPT !.state = "CANCELLED", !.status = "CANCELLED"])
      /\ adjusted' = adjusted \ {k} /\ k \in DOMAIN rows
  BY DEF reports!CancelAttendance
<1> PICK c \in reports!Row : c = rows[k]
  BY <1>1, <1>2 DEF ReportsRows
<1> DEFINE r == [c EXCEPT !.state = "CANCELLED", !.status = "CANCELLED"]
<1>3. r.state = "CANCELLED" /\ r.status = "CANCELLED" /\ r \in reports!Row
  BY DEF reports!Row
<1>4. rows' = [key \in DOMAIN rows \cup {k} |-> IF key = k THEN r ELSE rows[key]]
  BY <1>2 DEF reports!Put
<1>5. adjusted' \subseteq DOMAIN rows \cup {k} /\ adjusted \ {k} \subseteq adjusted'
  BY <1>1, <1>2 DEF ReportsRows
<1> HIDE DEF k, r
<1>6. ReportsOrdinary(r)
  BY <1>3 DEF ReportsOrdinary
<1> QED
  BY <1>1, <1>3, <1>4, <1>5, <1>6, ReportsPuts

LEMMA ReportsCompletes ==
    ASSUME ReportsInv, NEW l \in Lesson, reports!Complete(l)
    PROVE  ReportsRows(rows', adjusted')
<1> DEFINE inside == {k \in DOMAIN rows : k[1] = l /\ rows[k].state = "CHECKED_IN"}
           missing == {<<l, s>> : s \in {s \in Attendee : HomeOf[s] = GroupOf[l]}} \ DOMAIN rows
           gone == [state |-> "ABSENT", status |-> "ABSENT", type |-> "NORMAL"]
<1>1. ReportsRows(rows, adjusted)
  BY DEF ReportsInv
<1>2. PICK short \in SUBSET inside :
         /\ rows' = [k \in DOMAIN rows \cup missing |->
               CASE k \in missing -> gone
                 [] k \in short -> [rows[k] EXCEPT !.state = "CHECKED_OUT", !.status = "PARTIAL"]
                 [] k \in inside \ short -> [rows[k] EXCEPT !.state = "CHECKED_OUT"]
                 [] OTHER -> rows[k]]
         /\ adjusted' = adjusted \ short
  BY DEF reports!Complete
<1>3. missing \subseteq Lesson \X Attendee /\ missing \cap DOMAIN rows = {} /\ inside \subseteq DOMAIN rows
  OBVIOUS
<1>4. gone \in reports!Row /\ ReportsOrdinary(gone)
  BY DEF reports!Row, ReportsOrdinary
<1>5. \A k \in inside : rows[k].state = "CHECKED_IN"
  OBVIOUS
<1> HIDE DEF inside, missing, gone
<1>6. DOMAIN rows' = DOMAIN rows \cup missing
  BY <1>2
<1>7. ASSUME NEW k \in DOMAIN rows'
      PROVE  rows'[k] \in reports!Row /\ (k \notin adjusted' => ReportsOrdinary(rows'[k]))
  <2>1. CASE k \in missing
    <3>1. k \notin short /\ k \notin inside
      BY <1>2, <1>3, <2>1
    <3>2. rows'[k] = gone
      BY <1>2, <1>6, <2>1, <3>1
    <3> QED
      BY <1>4, <3>2
  <2>2. CASE k \notin missing
    <3>1. k \in DOMAIN rows
      BY <1>6, <2>2
    <3> PICK c \in reports!Row : c = rows[k]
      BY <1>1, <3>1 DEF ReportsRows
    <3>2. k \notin adjusted => ReportsOrdinary(c)
      BY <1>1, <3>1 DEF ReportsRows
    <3>3. CASE k \in short
      <4>1. rows'[k] = [c EXCEPT !.state = "CHECKED_OUT", !.status = "PARTIAL"]
        BY <1>2, <1>6, <2>2, <3>3
      <4> QED
        BY <4>1 DEF reports!Row, ReportsOrdinary
    <3>4. CASE k \in inside \ short
      <4>1. rows'[k] = [c EXCEPT !.state = "CHECKED_OUT"]
        BY <1>2, <1>6, <2>2, <3>4
      <4>2. c.state = "CHECKED_IN" /\ (k \notin adjusted' => k \notin adjusted)
        BY <1>2, <1>5, <3>4
      <4>3. rows'[k] \in reports!Row /\ rows'[k].state = "CHECKED_OUT" /\ rows'[k].status = c.status
        BY <4>1 DEF reports!Row
      <4>4. ReportsOrdinary(c) => ReportsOrdinary(rows'[k])
        BY <4>2, <4>3 DEF ReportsOrdinary
      <4> QED
        BY <3>2, <4>2, <4>3, <4>4
    <3>5. CASE k \notin inside
      <4>1. rows'[k] = c /\ (k \notin adjusted' => k \notin adjusted)
        BY <1>2, <1>6, <2>2, <3>5
      <4> QED
        BY <3>2, <4>1
    <3> QED
      BY <3>3, <3>4, <3>5
  <2> QED
    BY <2>1, <2>2
<1>8. adjusted' \subseteq DOMAIN rows' /\ DOMAIN rows' \subseteq Lesson \X Attendee
  BY <1>1, <1>2, <1>3, <1>6 DEF ReportsRows
<1> QED
  BY <1>7, <1>8 DEF ReportsRows

\* What it keeps of a charge to find its status anew.
LEMMA ReportsDerives ==
    ASSUME NEW d \in Nat, NEW discount \in Nat, NEW paid \in Nat, NEW status \in ReportsStatus, discount <= d,
           NEW c, c = [due |-> d, discount |-> discount, paid |-> paid, status |-> status]
    PROVE  reports!Derived(c) \in ReportsCharge /\ reports!Derived(c).paid = paid
<1> DEFINE of == CASE c.status \in reports!Sticky -> c.status
                   [] c.paid = 0 -> "UNPAID"
                   [] c.paid > 0 /\ c.paid < reports!Net(c) -> "PARTIALLY_PAID"
                   [] c.paid > 0 /\ c.paid = reports!Net(c) -> "PAID"
                   [] OTHER -> "OVERPAID"
<1>1. of \in ReportsStatus
  BY DEF ReportsStatus, reports!Sticky, reports!Net
<1>2. reports!Derived(c) = [c EXCEPT !.status = of]
  BY DEF reports!Derived
<1> HIDE DEF of
<1>3. reports!Derived(c) = [due |-> d, discount |-> discount, paid |-> paid, status |-> of]
  BY <1>2
<1> QED
  BY <1>1, <1>3 DEF ReportsCharge

LEMMA ReportsCharged ==
    ASSUME ReportsInv, NEW c \in Bill
    PROVE  /\ charges[c] = [due |-> charges[c].due, discount |-> charges[c].discount,
                            paid |-> charges[c].paid, status |-> charges[c].status]
           /\ charges[c].due \in Nat /\ charges[c].discount \in Nat /\ charges[c].paid \in Nat
           /\ charges[c].status \in ReportsStatus /\ charges[c].discount <= charges[c].due
<1>1. charges[c] \in ReportsCharge
  BY DEF ReportsInv, ReportsBalanced
<1> QED
  BY <1>1 DEF ReportsCharge

\* A step that leaves what was paid.
LEMMA ReportsRecharges ==
    ASSUME ReportsBase, ReportsInv, NEW c \in Bill, NEW r \in ReportsCharge, r.paid = charges[c].paid,
           charges' = [charges EXCEPT ![c] = r], UNCHANGED ledger
    PROVE  ReportsBalanced(charges', ledger')
<1>1. /\ charges \in [Bill -> ReportsCharge] /\ ledger \in Seq(ReportsEntry)
      /\ Sum(ReportsSigned(ledger), DOMAIN ledger) = Sum(ReportsPaid(charges), Bill)
  BY DEF ReportsInv, ReportsBalanced
<1>2. charges' \in [Bill -> ReportsCharge] /\ \A b \in Bill : charges'[b].paid = charges[b].paid
  BY <1>1
<1>3. ReportsPaid(charges') = ReportsPaid(charges)
  BY <1>2 DEF ReportsPaid
<1> QED
  BY <1>1, <1>2, <1>3, Zenon DEF ReportsBalanced

LEMMA ReportsUpdates ==
    ASSUME ReportsBase, ReportsInv, NEW c \in Bill, reports!UpdateCharge(c)
    PROVE  ReportsBalanced(charges', ledger')
<1> PICK d \in Due : \E discount \in 0 .. d :
        charges' = [charges EXCEPT ![c] = reports!Derived([charges[c] EXCEPT !.due = d, !.discount = discount])]
  BY DEF reports!UpdateCharge
<1> PICK discount \in 0 .. d :
        charges' = [charges EXCEPT ![c] = reports!Derived([charges[c] EXCEPT !.due = d, !.discount = discount])]
  OBVIOUS
<1> DEFINE r == [charges[c] EXCEPT !.due = d, !.discount = discount]
<1>1. d \in Nat /\ discount \in Nat /\ discount <= d
  BY DEF ReportsBase
<1>2. /\ r = [due |-> d, discount |-> discount, paid |-> charges[c].paid, status |-> charges[c].status]
      /\ charges[c].paid \in Nat /\ charges[c].status \in ReportsStatus
  <2> PICK x \in ReportsCharge : x = charges[c]
    BY DEF ReportsInv, ReportsBalanced
  <2>1. x \in [due : Nat, discount : Nat, paid : Nat, status : ReportsStatus]
    BY DEF ReportsCharge
  <2> DEFINE y == [x EXCEPT !.due = d, !.discount = discount]
  <2>2. /\ y \in [due : Nat, discount : Nat, paid : Nat, status : ReportsStatus]
        /\ y.due = d /\ y.discount = discount /\ y.paid = x.paid /\ y.status = x.status
    BY <1>1, <2>1
  <2>3. r = y
    OBVIOUS
  <2> HIDE DEF r, y
  <2>4. y = [due |-> d, discount |-> discount, paid |-> x.paid, status |-> x.status]
    BY <2>2
  <2> QED
    BY <2>3, <2>4, ReportsCharged
<1>3. charges' = [charges EXCEPT ![c] = reports!Derived(r)]
  OBVIOUS
<1> HIDE DEF r
<1>4. reports!Derived(r) \in ReportsCharge /\ reports!Derived(r).paid = charges[c].paid
  BY <1>1, <1>2, ReportsDerives
<1>5. UNCHANGED ledger
  BY DEF reports!UpdateCharge
<1> QED
  BY <1>3, <1>4, <1>5, ReportsRecharges

LEMMA ReportsMarks ==
    ASSUME ReportsBase, ReportsInv, NEW c \in Bill, reports!Waive(c) \/ reports!CancelCharge(c)
    PROVE  ReportsBalanced(charges', ledger')
<1> PICK status \in {"WAIVED", "CANCELLED"} : charges' = [charges EXCEPT ![c].status = status] /\ UNCHANGED ledger
  BY DEF reports!Waive, reports!CancelCharge
<1> DEFINE r == [charges[c] EXCEPT !.status = status]
<1>1. r \in ReportsCharge /\ r.paid = charges[c].paid
  <2>1. charges[c] \in ReportsCharge
    BY DEF ReportsInv, ReportsBalanced
  <2> QED
    BY <2>1 DEF ReportsCharge, ReportsStatus
<1>2. charges' = [charges EXCEPT ![c] = r]
  OBVIOUS
<1> HIDE DEF r
<1> QED
  BY <1>1, <1>2, ReportsRecharges

\* An entry moves the ledger and its charge by the same amount.
LEMMA ReportsPosts ==
    ASSUME ReportsBase, ReportsInv, NEW c \in Bill, NEW kind \in {"PAYMENT", "REFUND"}, NEW amount \in Nat,
           kind = "REFUND" => amount <= charges[c].paid,
           NEW cashier \in Cashier, NEW method \in Method, NEW day \in {Today - 1, Today},
           reports!Posted(c, kind, amount, cashier, method, day)
    PROVE  ReportsBalanced(charges', ledger')
<1> DEFINE change == IF kind = "REFUND" THEN -amount ELSE amount
           e == [charge |-> c, kind |-> kind, amount |-> amount, cashier |-> cashier, method |-> method, day |-> day]
           paid == charges[c].paid + change
           r == [due |-> charges[c].due, discount |-> charges[c].discount, paid |-> paid,
                 status |-> charges[c].status]
<1>1. /\ charges \in [Bill -> ReportsCharge] /\ ledger \in Seq(ReportsEntry)
      /\ Sum(ReportsSigned(ledger), DOMAIN ledger) = Sum(ReportsPaid(charges), Bill)
  BY DEF ReportsInv, ReportsBalanced
<1>2. ledger' = Append(ledger, e) /\ e \in ReportsEntry
  BY DEF reports!Posted, ReportsEntry
<1>3. charges' = [charges EXCEPT ![c] = reports!Derived(r)]
  <2>1. charges' = [charges EXCEPT ![c] = reports!Derived([charges[c] EXCEPT !.paid =
                      charges[c].paid + (IF kind = "PAYMENT" THEN amount ELSE -amount)])]
    BY Zenon DEF reports!Posted
  <2>2. charges[c].paid \in Nat
    BY ReportsCharged
  <2>3. paid = charges[c].paid + (IF kind = "PAYMENT" THEN amount ELSE -amount)
    BY <2>2
  <2> HIDE DEF paid
  <2>4. [charges[c] EXCEPT !.paid = paid] = r
    <3> PICK x \in ReportsCharge : x = charges[c]
      BY <1>1
    <3>1. [x EXCEPT !.paid = paid] = [due |-> x.due, discount |-> x.discount, paid |-> paid, status |-> x.status]
      BY DEF ReportsCharge
    <3> QED
      BY <3>1
  <2> HIDE DEF r
  <2> QED
    BY <2>1, <2>3, <2>4
<1>4. paid \in Nat /\ change \in Int
  <2>1. charges[c].paid \in Nat
    BY ReportsCharged
  <2> QED
    BY <2>1
<1>5. paid = charges[c].paid + change /\ charges[c].paid \in Nat
  BY ReportsCharged
<1>6. e.kind = kind /\ e.amount = amount
  OBVIOUS
<1> HIDE DEF e, paid
<1>7. reports!Derived(r) \in ReportsCharge /\ reports!Derived(r).paid = paid
  <2>1. /\ charges[c].due \in Nat /\ charges[c].discount \in Nat /\ paid \in Nat
        /\ charges[c].status \in ReportsStatus /\ charges[c].discount <= charges[c].due
    BY <1>4, ReportsCharged
  <2>2. r = [due |-> charges[c].due, discount |-> charges[c].discount, paid |-> paid, status |-> charges[c].status]
    OBVIOUS
  <2> HIDE DEF r
  <2> QED
    BY <2>1, <2>2, ReportsDerives
<1> HIDE DEF r
<1>8. charges' \in [Bill -> ReportsCharge]
  BY <1>1, <1>3, <1>7
<1> DEFINE n == Len(ledger)
           f == ReportsSigned(ledger)
           g == ReportsSigned(ledger')
<1>9. /\ n \in Nat /\ DOMAIN ledger = 1 .. n /\ DOMAIN ledger' = 1 .. n + 1
      /\ ledger'[n + 1] = e /\ \A i \in 1 .. n : ledger'[i] = ledger[i]
      /\ ledger' \in Seq(ReportsEntry)
  BY <1>1, <1>2
<1>10. g[n + 1] = change /\ \A i \in 1 .. n : g[i] = f[i] /\ f[i] \in Int
  <2>1. g[n + 1] = change
    <3>1. n + 1 \in DOMAIN ledger'
      BY <1>9
    <3> HIDE DEF n
    <3> QED
      BY <1>6, <1>9, <3>1 DEF ReportsSigned
  <2>2. ASSUME NEW i \in 1 .. n
        PROVE  g[i] = f[i] /\ f[i] \in Int
    <3>1. i \in DOMAIN ledger /\ i \in DOMAIN ledger' /\ ledger'[i] = ledger[i]
      BY <1>9
    <3>2. ledger[i] \in ReportsEntry
      BY <1>1, <3>1
    <3>3. ledger[i].amount \in Nat
      BY <3>2 DEF ReportsEntry
    <3> QED
      BY <3>1, <3>3 DEF ReportsSigned
  <2> QED
    BY <2>1, <2>2
<1> HIDE DEF n, f, g
<1>11. Sum(g, 1 .. n + 1) = change + Sum(f, 1 .. n)
  <2>1. IsFiniteSet(1 .. n + 1) /\ IsFiniteSet(1 .. n)
    <3>1. 1 \in Int /\ n \in Int /\ n + 1 \in Int
      BY <1>9
    <3> QED
      BY <3>1, FS_Interval, Zenon
  <2>2. n + 1 \in 1 .. n + 1 /\ (1 .. n + 1) \ {n + 1} = 1 .. n
    BY <1>9
  <2>3. \A i \in 1 .. n + 1 : g[i] \in Int
    <3> TAKE i \in 1 .. n + 1
    <3>1. i = n + 1 \/ i \in 1 .. n
      BY <1>9
    <3> QED
      BY <1>4, <1>10, <3>1
  <2> HIDE DEF change
  <2>4. Sum(g, 1 .. n + 1) = g[n + 1] + Sum(g, (1 .. n + 1) \ {n + 1})
    BY <2>1, <2>2, <2>3, SumTakeOut
  <2>5. Sum(g, 1 .. n) = Sum(f, 1 .. n)
    BY <1>10, <2>1, SumSame
  <2> QED
    BY <1>10, <2>2, <2>4, <2>5
<1>12. Sum(ReportsPaid(charges'), Bill) = Sum(ReportsPaid(charges), Bill) + change
  <2> DEFINE h == ReportsPaid(charges)
             k == ReportsPaid(charges')
  <2>1. h[c] = charges[c].paid /\ k[c] = paid
    BY <1>1, <1>3, <1>7 DEF ReportsPaid
  <2>2. \A b \in Bill : h[b] \in Int
    <3>1. \A b \in Bill : charges[b].paid \in Nat
      BY ReportsCharged
    <3> QED
      BY <3>1 DEF ReportsPaid
  <2>3. \A b \in Bill \ {c} : k[b] = h[b]
    BY <1>1, <1>3 DEF ReportsPaid
  <2>4. IsFiniteSet(Bill)
    BY DEF ReportsBase
  <2> HIDE DEF h, k
  <2>5. Sum(k, Bill) = Sum(h, Bill) - h[c] + k[c]
    <3>1. k[c] \in Int
      BY <1>4, <2>1
    <3> QED
      BY <2>2, <2>3, <2>4, <3>1, SumUpdate
  <2>6. Sum(h, Bill) \in Int
    BY <2>2, <2>4, SumType
  <2>7. Sum(k, Bill) = Sum(h, Bill) + change
    <3> HIDE DEF change
    <3> QED
      BY <1>4, <1>5, <2>1, <2>5, <2>6
  <2> QED
    BY <2>7 DEF h, k
<1>13. Sum(f, 1 .. n) \in Int
  <2>1. 1 \in Int /\ n \in Int
    BY <1>9
  <2>2. IsFiniteSet(1 .. n)
    BY <2>1, FS_Interval, Zenon
  <2> QED
    BY <1>10, <2>2, SumType
<1> HIDE DEF change
<1>14. Sum(g, DOMAIN ledger') = Sum(ReportsPaid(charges'), Bill)
  <2>1. Sum(f, 1 .. n) = Sum(ReportsPaid(charges), Bill)
    BY <1>1, <1>9 DEF f
  <2> QED
    BY <1>4, <1>9, <1>11, <1>12, <1>13, <2>1
<1> QED
  BY <1>8, <1>9, <1>14 DEF ReportsBalanced, g

LEMMA ReportsPays ==
    ASSUME ReportsBase, ReportsInv, NEW c \in Bill, reports!RecordPayment(c)
    PROVE  ReportsBalanced(charges', ledger')
<1>1. PICK amount \in Due \ {0}, cashier \in Cashier, method \in Method, day \in {Today - 1, Today} :
         reports!Posted(c, "PAYMENT", amount, cashier, method, day)
  BY DEF reports!RecordPayment
<1>2. amount \in Nat
  BY DEF ReportsBase
<1> QED
  BY <1>1, <1>2, ReportsPosts

LEMMA ReportsRefunds ==
    ASSUME ReportsBase, ReportsInv, NEW i \in DOMAIN ledger, reports!RefundPayment(i)
    PROVE  ReportsBalanced(charges', ledger')
<1>1. ledger[i] \in ReportsEntry
  BY DEF ReportsInv, ReportsBalanced
<1>2. ledger[i].charge \in Bill /\ ledger[i].method \in Method
  BY <1>1 DEF ReportsEntry
<1>3. charges[ledger[i].charge].paid \in Nat
  BY <1>2 DEF ReportsInv, ReportsBalanced, ReportsCharge
<1>4. PICK amount \in 1 .. charges[ledger[i].charge].paid, cashier \in Cashier :
         reports!Posted(ledger[i].charge, "REFUND", amount, cashier, ledger[i].method, Today)
  BY Zenon DEF reports!RefundPayment
<1>5. amount \in Nat /\ amount <= charges[ledger[i].charge].paid
  BY <1>3
<1> QED
  BY <1>2, <1>4, <1>5, ReportsPosts

LEMMA ReportsStarts ==
    ASSUME ReportsBase, reports!Init
    PROVE  ReportsInv
<1>1. lessons \in [Lesson -> {"SCHEDULED", "OPEN", "COMPLETED", "CANCELLED"}]
  BY DEF reports!Init
<1>2. ReportsRows(rows, adjusted)
  BY DEF reports!Init, ReportsRows
<1>3. charges \in [Bill -> ReportsCharge] /\ \A c \in Bill : charges[c].paid = 0
  <2>1. charges \in [Bill -> {[due |-> d, discount |-> 0, paid |-> 0, status |-> "UNPAID"] : d \in Due}]
    BY DEF reports!Init
  <2>2. \A d \in Due : [due |-> d, discount |-> 0, paid |-> 0, status |-> "UNPAID"] \in ReportsCharge
    BY DEF ReportsBase, ReportsCharge, ReportsStatus
  <2> QED
    BY <2>1, <2>2
<1>4. ledger = << >> /\ ledger \in Seq(ReportsEntry) /\ DOMAIN ledger = {}
  BY DEF reports!Init
<1>5. Sum(ReportsPaid(charges), Bill) = 0
  <2> DEFINE f == ReportsPaid(charges)
  <2>1. IsFiniteSet(Bill) /\ \A c \in Bill : f[c] = 0
    BY <1>3 DEF ReportsPaid, ReportsBase
  <2> HIDE DEF f
  <2>2. Sum(f, Bill) = 0
    BY <2>1, SumZero
  <2> QED
    BY <2>2 DEF f
<1>6. Sum(ReportsSigned(ledger), DOMAIN ledger) = 0
  BY <1>4, SumEmpty
<1> QED
  BY <1>1, <1>2, <1>3, <1>4, <1>5, <1>6 DEF ReportsInv, ReportsBalanced

LEMMA ReportsSteps ==
    ASSUME ReportsBase, ReportsInv, [reports!Next]_reports!vars
    PROVE  ReportsInv'
<1> DEFINE Statuses == {"SCHEDULED", "OPEN", "COMPLETED", "CANCELLED"}
<1>1. /\ lessons \in [Lesson -> Statuses] /\ ReportsRows(rows, adjusted)
      /\ ReportsBalanced(charges, ledger)
  BY DEF ReportsInv
<1>2. ASSUME NEW l \in Lesson, reports!Open(l) \/ reports!Complete(l) \/ reports!CancelLesson(l)
      PROVE  ReportsInv'
  <2>1. lessons' \in [Lesson -> Statuses]
    BY <1>1, <1>2 DEF reports!Open, reports!Complete, reports!CancelLesson
  <2>2. UNCHANGED <<charges, ledger>>
    BY <1>2 DEF reports!Open, reports!Complete, reports!CancelLesson, reports!Attends
  <2>3. ReportsRows(rows', adjusted')
    <3>1. CASE reports!Complete(l)
      BY <3>1, ReportsCompletes
    <3>2. CASE reports!Open(l) \/ reports!CancelLesson(l)
      BY <1>1, <3>2 DEF reports!Open, reports!CancelLesson
    <3> QED
      BY <1>2, <3>1, <3>2
  <2>4. ReportsBalanced(charges', ledger')
    BY <1>1, <2>2
  <2> QED
    BY <2>1, <2>3, <2>4 DEF ReportsInv
<1>3. ASSUME NEW l \in Lesson, NEW s \in Attendee,
             \/ reports!Scan(l, s) \/ reports!ManualCreate(l, s) \/ reports!ManualAdjust(l, s)
             \/ reports!CancelAttendance(l, s)
      PROVE  ReportsInv'
  <2>1. UNCHANGED <<lessons, charges, ledger>>
    BY <1>3 DEF reports!Scan, reports!ManualCreate, reports!ManualAdjust, reports!CancelAttendance,
                reports!Attends
  <2>2. ReportsRows(rows', adjusted')
    BY <1>3, ReportsScans, ReportsCreates, ReportsAdjusts, ReportsCancels
  <2>3. lessons' \in [Lesson -> Statuses] /\ ReportsBalanced(charges', ledger')
    BY <1>1, <2>1
  <2> QED
    BY <2>2, <2>3 DEF ReportsInv
<1>4. ASSUME NEW c \in Bill,
             \/ reports!RecordPayment(c) \/ reports!UpdateCharge(c) \/ reports!Waive(c) \/ reports!CancelCharge(c)
      PROVE  ReportsInv'
  <2>1. UNCHANGED <<lessons, rows, adjusted>>
    BY <1>4 DEF reports!RecordPayment, reports!UpdateCharge, reports!Waive, reports!CancelCharge, reports!Pays
  <2>2. ReportsBalanced(charges', ledger')
    BY <1>4, ReportsPays, ReportsUpdates, ReportsMarks
  <2>3. lessons' \in [Lesson -> Statuses] /\ ReportsRows(rows', adjusted')
    BY <1>1, <2>1
  <2> QED
    BY <2>2, <2>3 DEF ReportsInv
<1>5. ASSUME NEW i \in DOMAIN ledger, reports!RefundPayment(i)
      PROVE  ReportsInv'
  <2>1. UNCHANGED <<lessons, rows, adjusted>>
    BY <1>5 DEF reports!RefundPayment, reports!Pays
  <2>2. ReportsBalanced(charges', ledger')
    BY <1>5, ReportsRefunds
  <2>3. lessons' \in [Lesson -> Statuses] /\ ReportsRows(rows', adjusted')
    BY <1>1, <2>1
  <2> QED
    BY <2>2, <2>3 DEF ReportsInv
<1>6. CASE UNCHANGED reports!vars
  <2>1. UNCHANGED <<lessons, rows, charges, ledger, adjusted>>
    BY <1>6 DEF reports!vars
  <2> QED
    BY <1>1, <2>1 DEF ReportsInv
<1> QED
  BY <1>2, <1>3, <1>4, <1>5, <1>6 DEF reports!Next

-----------------------------------------------------------------------------
(* Rows that are counted *)

LEMMA ReportsTypes ==
    ASSUME ReportsInv
    PROVE  reports!TypeOK
<1>1. ASSUME NEW c \in Bill
      PROVE  charges[c].paid >= 0 /\ charges[c].discount <= charges[c].due
  <2>1. charges[c].paid \in Nat /\ charges[c].discount <= charges[c].due
    BY ReportsCharged
  <2> QED
    BY <2>1
<1> QED
  BY <1>1 DEF ReportsInv, ReportsRows, reports!TypeOK

LEMMA ReportsRowsOnce ==
    ASSUME ReportsInv
    PROVE  reports!EveryRowCountsOnce
<1> SUFFICES ASSUME NEW k \in DOMAIN rows \ adjusted, rows[k].state # "CANCELLED"
             PROVE  reports!Cardinality({i \in 1 .. 3 :
                      <<reports!IsPresent(rows[k]), reports!IsLate(rows[k]), reports!IsAbsent(rows[k])>>[i]}) = 1
  BY Zenon DEF reports!EveryRowCountsOnce
<1> DEFINE r == rows[k]
           S == {i \in 1 .. 3 : <<reports!IsPresent(r), reports!IsLate(r), reports!IsAbsent(r)>>[i]}
<1>1. ReportsOrdinary(r)
  BY DEF ReportsInv, ReportsRows
<1>2. S = {i \in {1} : reports!IsPresent(r)} \cup {i \in {2} : reports!IsLate(r)} \cup {i \in {3} : reports!IsAbsent(r)}
  <2>1. 1 .. 3 = {1, 2, 3}
    OBVIOUS
  <2> HIDE DEF r
  <2> QED
    BY <2>1
<1> HIDE DEF r, S
<1>3. \E x : S = {x}
  <2>1. CASE r.state = "ABSENT"
    <3>1. ~reports!IsPresent(r) /\ ~reports!IsLate(r) /\ reports!IsAbsent(r)
      BY <1>1, <2>1 DEF ReportsOrdinary, reports!IsPresent, reports!IsLate, reports!IsAbsent
    <3>2. S = {3}
      BY <1>2, <3>1
    <3> QED
      BY <3>2
  <2>2. CASE r.state # "ABSENT" /\ r.status = "LATE"
    <3>1. ~reports!IsPresent(r) /\ reports!IsLate(r) /\ ~reports!IsAbsent(r)
      BY <1>1, <2>2 DEF ReportsOrdinary, reports!IsPresent, reports!IsLate, reports!IsAbsent
    <3>2. S = {2}
      BY <1>2, <3>1
    <3> QED
      BY <3>2
  <2>3. CASE r.state # "ABSENT" /\ r.status # "LATE"
    <3>1. reports!IsPresent(r) /\ ~reports!IsLate(r) /\ ~reports!IsAbsent(r)
      BY <1>1, <2>3 DEF ReportsOrdinary, reports!IsPresent, reports!IsLate, reports!IsAbsent, r
    <3>2. S = {1}
      BY <1>2, <3>1
    <3> QED
      BY <3>2
  <2> QED
    BY <2>1, <2>2, <2>3
<1>4. Cardinality(S) = 1
  BY <1>3, FS_Singleton
<1> QED
  BY <1>4, ReportsCounts, Zenon DEF S, r

\* The rows among S that a column counts.
ReportsPresent(S) == {k \in S : reports!IsPresent(rows[k])}

ReportsLate(S) == {k \in S : reports!IsLate(rows[k])}

ReportsAbsent(S) == {k \in S : reports!IsAbsent(rows[k])}

ReportsElsewhere(S) == {k \in S : reports!IsAlternative(rows[k])}

ReportsTally(S) ==
    [present |-> Cardinality(ReportsPresent(S)), late |-> Cardinality(ReportsLate(S)),
     absent |-> Cardinality(ReportsAbsent(S)), alternative |-> Cardinality(ReportsElsewhere(S))]

LEMMA ReportsAggregate ==
    ASSUME NEW S
    PROVE  /\ reports!Aggregates(S).present = Cardinality(ReportsPresent(S))
           /\ reports!Aggregates(S).late = Cardinality(ReportsLate(S))
           /\ reports!Aggregates(S).absent = Cardinality(ReportsAbsent(S))
           /\ reports!Aggregates(S).alternative = Cardinality(ReportsElsewhere(S))
<1>1. reports!Aggregates(S) =
        [lessons |-> reports!Cardinality({k[1] : k \in S}),
         present |-> reports!Cardinality({k \in S : reports!IsPresent(rows[k])}),
         late |-> reports!Cardinality({k \in S : reports!IsLate(rows[k])}),
         absent |-> reports!Cardinality({k \in S : reports!IsAbsent(rows[k])}),
         alternative |-> reports!Cardinality({k \in S : reports!IsAlternative(rows[k])})]
  BY Zenon DEF reports!Aggregates, reports!Count
<1>2. reports!Aggregates(S) =
        [lessons |-> Cardinality({k[1] : k \in S}), present |-> Cardinality(ReportsPresent(S)),
         late |-> Cardinality(ReportsLate(S)), absent |-> Cardinality(ReportsAbsent(S)),
         alternative |-> Cardinality(ReportsElsewhere(S))]
  BY <1>1, ReportsCounts, Zenon DEF ReportsPresent, ReportsLate, ReportsAbsent, ReportsElsewhere
<1> QED
  BY <1>2

\* The totals of a report are the sums of its columns.
LEMMA ReportsTotals ==
    ASSUME NEW R, IsFiniteSet(DOMAIN R)
    PROVE  reports!Totals(R) =
             [present |-> Sum([v \in DOMAIN R |-> R[v].present], DOMAIN R),
              late |-> Sum([v \in DOMAIN R |-> R[v].late], DOMAIN R),
              absent |-> Sum([v \in DOMAIN R |-> R[v].absent], DOMAIN R),
              alternative |-> Sum([v \in DOMAIN R |-> R[v].alternative], DOMAIN R)]
<1> DEFINE D == DOMAIN R
           p == [v \in DOMAIN R |-> R[v].present]
           l == [v \in DOMAIN R |-> R[v].late]
           a == [v \in DOMAIN R |-> R[v].absent]
           o == [v \in DOMAIN R |-> R[v].alternative]
           of(s) == [present |-> Sum(p, s), late |-> Sum(l, s), absent |-> Sum(a, s), alternative |-> Sum(o, s)]
           good == [s \in SUBSET D |-> of(s)]
           body(it) == [s \in SUBSET D |-> IF s = {} THEN reports!Nothing
                                            ELSE reports!Added(R[Choice(s)], it[s \ {Choice(s)}])]
           it == CHOOSE it : it = body(it)
<1>1. reports!Totals(R) = it[D]
  BY Zenon DEF reports!Totals, reports!MapThenFoldSet, Choice
<1>2. \A v \in D : p[v] = R[v].present /\ l[v] = R[v].late /\ a[v] = R[v].absent /\ o[v] = R[v].alternative
  OBVIOUS
<1> HIDE DEF D, p, l, a, o
<1>3. ASSUME NEW s \in SUBSET D, s # {}
      PROVE  /\ Choice(s) \in s /\ s \ {Choice(s)} \in SUBSET D
             /\ of(s) = reports!Added(R[Choice(s)], of(s \ {Choice(s)}))
  <2> DEFINE c == Choice(s)
             q == s \ {c}
  <2>1. c \in s /\ c \in D /\ q \in SUBSET D
    BY <1>3, Chosen
  <2>2. IsFiniteSet(s)
    BY FS_Subset DEF D
  <2>3. /\ Sum(p, s) = p[c] + Sum(p, q) /\ Sum(l, s) = l[c] + Sum(l, q)
        /\ Sum(a, s) = a[c] + Sum(a, q) /\ Sum(o, s) = o[c] + Sum(o, q)
    BY <1>3, <2>2, SumIs
  <2> HIDE DEF c, q
  <2>4. p[c] = R[c].present /\ l[c] = R[c].late /\ a[c] = R[c].absent /\ o[c] = R[c].alternative
    BY <1>2, <2>1
  <2>5. of(s) = reports!Added(R[c], of(q))
    BY <2>3, <2>4 DEF reports!Added
  <2> QED
    BY <2>1, <2>5 DEF c, q
<1>4. of({}) = reports!Nothing
  BY SumEmpty DEF reports!Nothing
<1> HIDE DEF of
<1>5. good = body(good)
  <2>1. \A s \in SUBSET D : good[s] = of(s)
    OBVIOUS
  <2>2. \A s \in SUBSET D : of(s) = IF s = {} THEN reports!Nothing
                                    ELSE reports!Added(R[Choice(s)], good[s \ {Choice(s)}])
    <3> TAKE s \in SUBSET D
    <3>1. CASE s = {}
      BY <1>4, <3>1
    <3>2. CASE s # {}
      BY <1>3, <2>1, <3>2
    <3> QED
      BY <3>1, <3>2
  <2> QED
    BY <2>2
<1> HIDE DEF good
<1>6. it = body(it)
  BY <1>5, Zenon
<1> HIDE DEF it
<1> DEFINE bad == {s \in SUBSET D : it[s] # of(s)}
<1>7. ASSUME NEW s \in SUBSET D, \A r \in SUBSET s : r # s => r \notin bad
      PROVE  s \notin bad
  <2>1. it[s] = IF s = {} THEN reports!Nothing ELSE reports!Added(R[Choice(s)], it[s \ {Choice(s)}])
    BY <1>6, Zenon
  <2>2. CASE s = {}
    BY <1>4, <2>1, <2>2
  <2>3. CASE s # {}
    <3>1. /\ s \ {Choice(s)} \in SUBSET D
          /\ of(s) = reports!Added(R[Choice(s)], of(s \ {Choice(s)}))
          /\ s \ {Choice(s)} \in SUBSET s /\ s \ {Choice(s)} # s
      BY <1>3, <2>3, Chosen
    <3>2. it[s \ {Choice(s)}] = of(s \ {Choice(s)})
      BY <1>7, <3>1
    <3>3. it[s] = of(s)
      BY <2>1, <2>3, <3>1, <3>2
    <3> QED
      BY <3>3
  <2> QED
    BY <2>2, <2>3
<1>8. bad \subseteq SUBSET D /\ IsFiniteSet(D)
  BY DEF D
<1> HIDE DEF bad
<1>9. bad = {}
  BY <1>7, <1>8, NoneIsBad
<1>10. it[D] = of(D)
  BY <1>9 DEF bad
<1> QED
  BY <1>1, <1>10, Zenon DEF of, D, p, l, a, o

\* A report of any key counts the rows it is made of.
LEMMA ReportsCovered ==
    ASSUME NEW S, IsFiniteSet(S), NEW T, IsFiniteSet(T), NEW b, \A k \in S : b[k] \in T,
           NEW R, R = [v \in T |-> reports!Aggregates(Part(S, b, v))]
    PROVE  reports!Totals(R) = ReportsTally(S)
<1>1. DOMAIN R = T /\ \A v \in T : R[v] = reports!Aggregates(Part(S, b, v))
  OBVIOUS
<1> DEFINE p == [v \in DOMAIN R |-> R[v].present]
           l == [v \in DOMAIN R |-> R[v].late]
           a == [v \in DOMAIN R |-> R[v].absent]
           o == [v \in DOMAIN R |-> R[v].alternative]
<1>2. reports!Totals(R) = [present |-> Sum(p, T), late |-> Sum(l, T), absent |-> Sum(a, T), alternative |-> Sum(o, T)]
  <2>1. reports!Totals(R) = [present |-> Sum(p, DOMAIN R), late |-> Sum(l, DOMAIN R),
                             absent |-> Sum(a, DOMAIN R), alternative |-> Sum(o, DOMAIN R)]
    <3>1. IsFiniteSet(DOMAIN R)
      BY <1>1
    <3> QED
      BY <3>1, ReportsTotals, Zenon
  <2> QED
    BY <1>1, <2>1, Zenon
<1>3. \A v \in T : p[v] = R[v].present /\ l[v] = R[v].late /\ a[v] = R[v].absent /\ o[v] = R[v].alternative
  BY <1>1
<1> HIDE DEF p, l, a, o
<1>4. ASSUME NEW v \in T
      PROVE  /\ p[v] = Cardinality(Part(ReportsPresent(S), b, v))
             /\ l[v] = Cardinality(Part(ReportsLate(S), b, v))
             /\ a[v] = Cardinality(Part(ReportsAbsent(S), b, v))
             /\ o[v] = Cardinality(Part(ReportsElsewhere(S), b, v))
  <2> DEFINE Q == Part(S, b, v)
  <2>1. /\ ReportsPresent(Q) = Part(ReportsPresent(S), b, v)
        /\ ReportsLate(Q) = Part(ReportsLate(S), b, v)
        /\ ReportsAbsent(Q) = Part(ReportsAbsent(S), b, v)
        /\ ReportsElsewhere(Q) = Part(ReportsElsewhere(S), b, v)
    BY DEF Part, ReportsPresent, ReportsLate, ReportsAbsent, ReportsElsewhere
  <2>2. R[v] = reports!Aggregates(Q)
    BY <1>1
  <2> HIDE DEF Q
  <2>3. /\ R[v].present = Cardinality(ReportsPresent(Q)) /\ R[v].late = Cardinality(ReportsLate(Q))
        /\ R[v].absent = Cardinality(ReportsAbsent(Q)) /\ R[v].alternative = Cardinality(ReportsElsewhere(Q))
    BY <2>2, ReportsAggregate
  <2> QED
    BY <1>3, <2>1, <2>3
<1>5. ASSUME NEW g, NEW P \in SUBSET S, \A v \in T : g[v] = Cardinality(Part(P, b, v))
      PROVE  Sum(g, T) = Cardinality(P)
  <2>1. IsFiniteSet(P) /\ \A k \in P : b[k] \in T
    BY FS_Subset
  <2> QED
    BY <1>5, <2>1, CountParts
<1>6. /\ ReportsPresent(S) \in SUBSET S /\ ReportsLate(S) \in SUBSET S
      /\ ReportsAbsent(S) \in SUBSET S /\ ReportsElsewhere(S) \in SUBSET S
  BY DEF ReportsPresent, ReportsLate, ReportsAbsent, ReportsElsewhere
<1>7. /\ Sum(p, T) = Cardinality(ReportsPresent(S)) /\ Sum(l, T) = Cardinality(ReportsLate(S))
      /\ Sum(a, T) = Cardinality(ReportsAbsent(S)) /\ Sum(o, T) = Cardinality(ReportsElsewhere(S))
  BY <1>4, <1>5, <1>6
<1> QED
  BY <1>2, <1>7, Zenon DEF ReportsTally

LEMMA ReportsGrouped ==
    ASSUME NEW S, IsFiniteSet(S), NEW b
    PROVE  reports!Totals(reports!GroupedBy(b, S)) = ReportsTally(S)
<1> DEFINE T == {b[k] : k \in S}
           R == reports!GroupedBy(b, S)
<1>1. IsFiniteSet(T)
  <2>1. \A k \in S : b[k] \in T
    OBVIOUS
  <2>2. \A v \in T : \E k \in S : b[k] = v
    OBVIOUS
  <2> HIDE DEF T
  <2> QED
    BY <2>1, <2>2, Images
<1>2. R = [v \in T |-> reports!Aggregates(Part(S, b, v))]
  BY Zenon DEF reports!GroupedBy, Part
<1>3. \A k \in S : b[k] \in T
  OBVIOUS
<1> HIDE DEF T, R
<1>4. reports!Totals(R) = ReportsTally(S)
  BY <1>1, <1>2, <1>3, ReportsCovered
<1> QED
  BY <1>4 DEF R

LEMMA ReportsFinite ==
    ASSUME ReportsBase, ReportsInv
    PROVE  /\ IsFiniteSet(DOMAIN rows)
           /\ \A k \in DOMAIN rows : k[1] \in Lesson
<1>1. DOMAIN rows \in SUBSET (Lesson \X Attendee)
  BY DEF ReportsInv, ReportsRows
<1>2. IsFiniteSet(Lesson \X Attendee)
  BY FS_Product DEF ReportsBase
<1>3. IsFiniteSet(DOMAIN rows)
  BY <1>1, <1>2, FS_Subset
<1> QED
  BY <1>1, <1>3

\* The rows of the lessons that by_lesson lists, those of them that are
\* cancelled, and the rows that are not and whose lesson is.
ReportsListed(f) == {k \in DOMAIN rows : k[1] \in reports!LessonQs(f)}

ReportsVoid(f) == {k \in DOMAIN rows : k[1] \in reports!LessonQs(f) /\ rows[k].state = "CANCELLED"}

ReportsCalledOff(f) == {k \in reports!AttendanceQs(f) : lessons[k[1]] = "CANCELLED"}

LEMMA ReportsByLesson ==
    ASSUME ReportsBase, ReportsInv, NEW f
    PROVE  reports!Totals(reports!AttendanceByLesson(f)) = ReportsTally(ReportsListed(f))
<1> DEFINE S == ReportsListed(f)
           T == reports!LessonQs(f)
           b == [k \in DOMAIN rows |-> k[1]]
           R == reports!AttendanceByLesson(f)
<1>1. IsFiniteSet(S) /\ IsFiniteSet(T)
  <2>1. S \in SUBSET DOMAIN rows /\ T \in SUBSET Lesson
    BY DEF ReportsListed, reports!LessonQs
  <2> QED
    BY <2>1, ReportsFinite, FS_Subset DEF ReportsBase
<1>2. \A k \in S : b[k] \in T
  BY DEF ReportsListed
<1>3. R = [v \in T |-> reports!Aggregates(Part(S, b, v))]
  <2>1. \A v \in T : {k \in DOMAIN rows : k[1] = v} = Part(S, b, v)
    BY DEF ReportsListed, Part
  <2>2. R = [v \in T |-> reports!Aggregates({k \in DOMAIN rows : k[1] = v})]
    BY DEF reports!AttendanceByLesson
  <2> HIDE DEF R, S, T, b
  <2> QED
    BY <2>1, <2>2
<1> HIDE DEF S, T, b, R
<1>4. reports!Totals(R) = ReportsTally(S)
  BY <1>1, <1>2, <1>3, ReportsCovered
<1> QED
  BY <1>4 DEF R, S

\* A column of by_lesson and of daily, by the rows that only one of them
\* has.
LEMMA ReportsDiffer ==
    ASSUME NEW A, NEW B, IsFiniteSet(A), IsFiniteSet(B), NEW C, NEW V, C \subseteq B, V \subseteq A,
           \A k \in A : k \notin V => k \in B /\ k \notin C,
           \A k \in B : k \notin C => k \in A /\ k \notin V
    PROVE  Cardinality(A) = Cardinality(B) - Cardinality(C) + Cardinality(V)
<1>1. A \ V = B \ C
  OBVIOUS
<1>2. Cardinality(A) = Cardinality(V) + Cardinality(A \ V) /\ Cardinality(V) \in Nat /\ Cardinality(A) \in Nat
  BY Counted
<1>3. Cardinality(B) = Cardinality(C) + Cardinality(B \ C) /\ Cardinality(C) \in Nat /\ Cardinality(B \ C) \in Nat
  BY Counted
<1>4. Cardinality(A \ V) = Cardinality(B \ C)
  BY <1>1, Zenon
<1> QED
  BY <1>2, <1>3, <1>4

LEMMA ReportsColumns ==
    ASSUME ReportsBase, ReportsInv, NEW f
    PROVE  /\ Cardinality(ReportsPresent(ReportsListed(f)))
                = Cardinality(ReportsPresent(reports!AttendanceQs(f)))
                    - Cardinality(ReportsPresent(ReportsCalledOff(f)))
           /\ Cardinality(ReportsAbsent(ReportsListed(f)))
                = Cardinality(ReportsAbsent(reports!AttendanceQs(f)))
                    - Cardinality(ReportsAbsent(ReportsCalledOff(f)))
           /\ Cardinality(ReportsLate(ReportsListed(f)))
                = Cardinality(ReportsLate(reports!AttendanceQs(f)))
                    - Cardinality(ReportsLate(ReportsCalledOff(f))) + Cardinality(ReportsLate(ReportsVoid(f)))
           /\ Cardinality(ReportsElsewhere(ReportsListed(f)))
                = Cardinality(ReportsElsewhere(reports!AttendanceQs(f)))
                    - Cardinality(ReportsElsewhere(ReportsCalledOff(f)))
                    + Cardinality(ReportsElsewhere(ReportsVoid(f)))
<1> DEFINE A == ReportsListed(f)
           B == reports!AttendanceQs(f)
           C == ReportsCalledOff(f)
           V == ReportsVoid(f)
<1>1. A \in SUBSET DOMAIN rows /\ B \in SUBSET DOMAIN rows /\ C \subseteq B /\ V \subseteq A
  BY DEF ReportsListed, ReportsCalledOff, ReportsVoid, reports!AttendanceQs
<1>2. \A k \in A : k \notin V => k \in B /\ k \notin C
  BY DEF ReportsListed, ReportsCalledOff, ReportsVoid, reports!AttendanceQs, reports!LessonQs
<1>3. \A k \in B : k \notin C => k \in A /\ k \notin V
  BY ReportsFinite DEF ReportsListed, ReportsCalledOff, ReportsVoid, reports!AttendanceQs, reports!LessonQs
<1>4. IsFiniteSet(A) /\ IsFiniteSet(B)
  BY <1>1, ReportsFinite, FS_Subset
<1>5. \A k \in V : rows[k].state = "CANCELLED"
  BY DEF ReportsVoid
<1> HIDE DEF A, B, C, V
<1>6. ReportsPresent(V) = {} /\ ReportsAbsent(V) = {}
  BY <1>5 DEF ReportsPresent, ReportsAbsent, reports!IsPresent, reports!IsAbsent
<1>7. Cardinality(ReportsPresent(A))
        = Cardinality(ReportsPresent(B)) - Cardinality(ReportsPresent(C)) + Cardinality(ReportsPresent(V))
  <2> DEFINE a == ReportsPresent(A)
             b == ReportsPresent(B)
             c == ReportsPresent(C)
             v == ReportsPresent(V)
  <2>1. /\ a \in SUBSET A /\ b \in SUBSET B /\ c \subseteq b /\ v \subseteq a
        /\ \A k \in a : k \notin v => k \in b /\ k \notin c
        /\ \A k \in b : k \notin c => k \in a /\ k \notin v
    BY <1>1, <1>2, <1>3 DEF ReportsPresent
  <2> HIDE DEF a, b, c, v
  <2>2. IsFiniteSet(a) /\ IsFiniteSet(b)
    BY <1>4, <2>1, FS_Subset
  <2>3. Cardinality(a) = Cardinality(b) - Cardinality(c) + Cardinality(v)
    BY <2>1, <2>2, ReportsDiffer
  <2> QED
    BY <2>3 DEF a, b, c, v
<1>8. Cardinality(ReportsAbsent(A))
        = Cardinality(ReportsAbsent(B)) - Cardinality(ReportsAbsent(C)) + Cardinality(ReportsAbsent(V))
  <2> DEFINE a == ReportsAbsent(A)
             b == ReportsAbsent(B)
             c == ReportsAbsent(C)
             v == ReportsAbsent(V)
  <2>1. /\ a \in SUBSET A /\ b \in SUBSET B /\ c \subseteq b /\ v \subseteq a
        /\ \A k \in a : k \notin v => k \in b /\ k \notin c
        /\ \A k \in b : k \notin c => k \in a /\ k \notin v
    BY <1>1, <1>2, <1>3 DEF ReportsAbsent
  <2> HIDE DEF a, b, c, v
  <2>2. IsFiniteSet(a) /\ IsFiniteSet(b)
    BY <1>4, <2>1, FS_Subset
  <2>3. Cardinality(a) = Cardinality(b) - Cardinality(c) + Cardinality(v)
    BY <2>1, <2>2, ReportsDiffer
  <2> QED
    BY <2>3 DEF a, b, c, v
<1>9. Cardinality(ReportsLate(A))
        = Cardinality(ReportsLate(B)) - Cardinality(ReportsLate(C)) + Cardinality(ReportsLate(V))
  <2> DEFINE a == ReportsLate(A)
             b == ReportsLate(B)
             c == ReportsLate(C)
             v == ReportsLate(V)
  <2>1. /\ a \in SUBSET A /\ b \in SUBSET B /\ c \subseteq b /\ v \subseteq a
        /\ \A k \in a : k \notin v => k \in b /\ k \notin c
        /\ \A k \in b : k \notin c => k \in a /\ k \notin v
    BY <1>1, <1>2, <1>3 DEF ReportsLate
  <2> HIDE DEF a, b, c, v
  <2>2. IsFiniteSet(a) /\ IsFiniteSet(b)
    BY <1>4, <2>1, FS_Subset
  <2>3. Cardinality(a) = Cardinality(b) - Cardinality(c) + Cardinality(v)
    BY <2>1, <2>2, ReportsDiffer
  <2> QED
    BY <2>3 DEF a, b, c, v
<1>10. Cardinality(ReportsElsewhere(A))
        = Cardinality(ReportsElsewhere(B)) - Cardinality(ReportsElsewhere(C)) + Cardinality(ReportsElsewhere(V))
  <2> DEFINE a == ReportsElsewhere(A)
             b == ReportsElsewhere(B)
             c == ReportsElsewhere(C)
             v == ReportsElsewhere(V)
  <2>1. /\ a \in SUBSET A /\ b \in SUBSET B /\ c \subseteq b /\ v \subseteq a
        /\ \A k \in a : k \notin v => k \in b /\ k \notin c
        /\ \A k \in b : k \notin c => k \in a /\ k \notin v
    BY <1>1, <1>2, <1>3 DEF ReportsElsewhere
  <2> HIDE DEF a, b, c, v
  <2>2. IsFiniteSet(a) /\ IsFiniteSet(b)
    BY <1>4, <2>1, FS_Subset
  <2>3. Cardinality(a) = Cardinality(b) - Cardinality(c) + Cardinality(v)
    BY <2>1, <2>2, ReportsDiffer
  <2> QED
    BY <2>3 DEF a, b, c, v
<1>11. /\ Cardinality(ReportsPresent(B)) - Cardinality(ReportsPresent(C)) \in Int
       /\ Cardinality(ReportsAbsent(B)) - Cardinality(ReportsAbsent(C)) \in Int
  <2>1. /\ ReportsPresent(B) \in SUBSET B /\ ReportsPresent(C) \in SUBSET B
        /\ ReportsAbsent(B) \in SUBSET B /\ ReportsAbsent(C) \in SUBSET B
    BY <1>1 DEF ReportsPresent, ReportsAbsent
  <2>2. /\ Cardinality(ReportsPresent(B)) \in Nat /\ Cardinality(ReportsPresent(C)) \in Nat
        /\ Cardinality(ReportsAbsent(B)) \in Nat /\ Cardinality(ReportsAbsent(C)) \in Nat
    BY <1>4, <2>1, Counted
  <2> QED
    BY <2>2
<1>12. Cardinality(ReportsPresent(V)) = 0 /\ Cardinality(ReportsAbsent(V)) = 0
  BY <1>6, FS_EmptySet, Zenon
<1>13. /\ Cardinality(ReportsPresent(A)) = Cardinality(ReportsPresent(B)) - Cardinality(ReportsPresent(C))
       /\ Cardinality(ReportsAbsent(A)) = Cardinality(ReportsAbsent(B)) - Cardinality(ReportsAbsent(C))
  BY <1>7, <1>8, <1>11, <1>12
<1> QED
  BY <1>9, <1>10, <1>13, Zenon DEF A, B, C, V

LEMMA ReportsAttendanceAgree ==
    ASSUME ReportsBase, ReportsInv
    PROVE  reports!AttendanceReportsAgree
<1> SUFFICES ASSUME NEW f \in reports!Period
             PROVE  LET daily == reports!Totals(reports!AttendanceDaily(f))
                        lesson == reports!Totals(reports!AttendanceByLesson(f)) IN
                    /\ reports!Totals(reports!AttendanceByStudent(f)) = daily
                    /\ reports!Totals(reports!AttendanceByGroup(f)) = daily
                    /\ reports!Totals(reports!AttendanceBySubject(f)) = daily
                    /\ reports!Cardinality(reports!LateStudents(f)) = daily.late
                    /\ reports!Cardinality(reports!AbsentStudents(f)) = daily.absent
                    /\ reports!Cardinality(DOMAIN reports!AlternativeGroups(f)) = daily.alternative
                    /\ lesson.present = daily.present - reports!Called(f, reports!IsPresent)
                    /\ lesson.absent = daily.absent - reports!Called(f, reports!IsAbsent)
                    /\ lesson.late = daily.late - reports!Called(f, reports!IsLate)
                                       + reports!Cancelled(f, reports!IsLate)
                    /\ lesson.alternative
                          = daily.alternative - reports!Called(f, reports!IsAlternative)
                              + reports!Cancelled(f, reports!IsAlternative)
  BY Zenon DEF reports!AttendanceReportsAgree
<1> DEFINE B == reports!AttendanceQs(f)
<1>1. IsFiniteSet(B)
  <2>1. B \in SUBSET DOMAIN rows
    BY DEF reports!AttendanceQs
  <2> QED
    BY <2>1, ReportsFinite, FS_Subset
<1>2. /\ reports!Totals(reports!AttendanceDaily(f)) = ReportsTally(B)
      /\ reports!Totals(reports!AttendanceByStudent(f)) = ReportsTally(B)
      /\ reports!Totals(reports!AttendanceByGroup(f)) = ReportsTally(B)
      /\ reports!Totals(reports!AttendanceBySubject(f)) = ReportsTally(B)
  <2>1. \A b : reports!Totals(reports!GroupedBy(b, B)) = ReportsTally(B)
    BY <1>1, ReportsGrouped
  <2> QED
    BY <2>1, Zenon DEF reports!AttendanceDaily, reports!AttendanceByStudent, reports!AttendanceByGroup,
                       reports!AttendanceBySubject
<1>3. reports!Totals(reports!AttendanceByLesson(f)) = ReportsTally(ReportsListed(f))
  BY ReportsByLesson
<1>4. /\ reports!Cardinality(reports!LateStudents(f)) = Cardinality(ReportsLate(B))
      /\ reports!Cardinality(reports!AbsentStudents(f)) = Cardinality(ReportsAbsent(B))
      /\ reports!Cardinality(DOMAIN reports!AlternativeGroups(f)) = Cardinality(ReportsElsewhere(B))
  <2>1. /\ reports!LateStudents(f) = ReportsLate(B) /\ reports!AbsentStudents(f) = ReportsAbsent(B)
        /\ DOMAIN reports!AlternativeGroups(f) = ReportsElsewhere(B)
    BY DEF reports!LateStudents, reports!AbsentStudents, reports!AlternativeGroups, ReportsLate, ReportsAbsent,
           ReportsElsewhere
  <2> QED
    BY <2>1, ReportsCounts, Zenon
<1>5. /\ reports!Called(f, reports!IsPresent) = Cardinality(ReportsPresent(ReportsCalledOff(f)))
      /\ reports!Called(f, reports!IsAbsent) = Cardinality(ReportsAbsent(ReportsCalledOff(f)))
      /\ reports!Called(f, reports!IsLate) = Cardinality(ReportsLate(ReportsCalledOff(f)))
      /\ reports!Called(f, reports!IsAlternative) = Cardinality(ReportsElsewhere(ReportsCalledOff(f)))
      /\ reports!Cancelled(f, reports!IsLate) = Cardinality(ReportsLate(ReportsVoid(f)))
      /\ reports!Cancelled(f, reports!IsAlternative) = Cardinality(ReportsElsewhere(ReportsVoid(f)))
  BY ReportsCounts, Zenon
  DEF reports!Called, reports!Cancelled, reports!Count, ReportsPresent, ReportsAbsent, ReportsLate,
      ReportsElsewhere, ReportsCalledOff, ReportsVoid
<1>6. \A S : /\ ReportsTally(S).present = Cardinality(ReportsPresent(S))
             /\ ReportsTally(S).late = Cardinality(ReportsLate(S))
             /\ ReportsTally(S).absent = Cardinality(ReportsAbsent(S))
             /\ ReportsTally(S).alternative = Cardinality(ReportsElsewhere(S))
  BY DEF ReportsTally
<1>7. /\ Cardinality(ReportsPresent(ReportsListed(f)))
            = Cardinality(ReportsPresent(B)) - Cardinality(ReportsPresent(ReportsCalledOff(f)))
      /\ Cardinality(ReportsAbsent(ReportsListed(f)))
            = Cardinality(ReportsAbsent(B)) - Cardinality(ReportsAbsent(ReportsCalledOff(f)))
      /\ Cardinality(ReportsLate(ReportsListed(f)))
            = Cardinality(ReportsLate(B)) - Cardinality(ReportsLate(ReportsCalledOff(f)))
                + Cardinality(ReportsLate(ReportsVoid(f)))
      /\ Cardinality(ReportsElsewhere(ReportsListed(f)))
            = Cardinality(ReportsElsewhere(B)) - Cardinality(ReportsElsewhere(ReportsCalledOff(f)))
                + Cardinality(ReportsElsewhere(ReportsVoid(f)))
  BY ReportsColumns
<1> HIDE DEF B
<1> QED
  BY <1>2, <1>3, <1>4, <1>5, <1>6, <1>7, Zenon

\* The row of a report, which is there when it has something to count.
LEMMA ReportsCell ==
    ASSUME NEW S, NEW b, NEW v
    PROVE  LET R == reports!GroupedBy(b, S) IN
           /\ (IF v \in DOMAIN R THEN R[v]["present"] ELSE 0) = Cardinality(ReportsPresent(Part(S, b, v)))
           /\ (IF v \in DOMAIN R THEN R[v]["late"] ELSE 0) = Cardinality(ReportsLate(Part(S, b, v)))
           /\ (IF v \in DOMAIN R THEN R[v]["absent"] ELSE 0) = Cardinality(ReportsAbsent(Part(S, b, v)))
           /\ (IF v \in DOMAIN R THEN R[v]["alternative"] ELSE 0) = Cardinality(ReportsElsewhere(Part(S, b, v)))
<1> DEFINE R == reports!GroupedBy(b, S)
           Q == Part(S, b, v)
<1>1. DOMAIN R = {b[k] : k \in S} /\ (v \in DOMAIN R => R[v] = reports!Aggregates(Q))
  <2>1. R = [u \in {b[k] : k \in S} |-> reports!Aggregates(Part(S, b, u))]
    BY Zenon DEF reports!GroupedBy, Part
  <2> HIDE DEF R
  <2> QED
    BY <2>1
<1>2. CASE v \in DOMAIN R
  <2>1. R[v] = reports!Aggregates(Q)
    BY <1>1, <1>2
  <2> HIDE DEF R, Q
  <2>2. /\ R[v].present = Cardinality(ReportsPresent(Q)) /\ R[v].late = Cardinality(ReportsLate(Q))
        /\ R[v].absent = Cardinality(ReportsAbsent(Q)) /\ R[v].alternative = Cardinality(ReportsElsewhere(Q))
    BY <2>1, ReportsAggregate
  <2>3. /\ R[v]["present"] = Cardinality(ReportsPresent(Q)) /\ R[v]["late"] = Cardinality(ReportsLate(Q))
        /\ R[v]["absent"] = Cardinality(ReportsAbsent(Q)) /\ R[v]["alternative"] = Cardinality(ReportsElsewhere(Q))
    BY <2>2
  <2> QED
    BY <1>2, <2>3, Zenon DEF R, Q
<1>3. CASE v \notin DOMAIN R
  <2>1. Q = {}
    BY <1>1, <1>3 DEF Part
  <2> HIDE DEF R, Q
  <2>2. ReportsPresent(Q) = {} /\ ReportsLate(Q) = {} /\ ReportsAbsent(Q) = {} /\ ReportsElsewhere(Q) = {}
    BY <2>1 DEF ReportsPresent, ReportsLate, ReportsAbsent, ReportsElsewhere
  <2>3. /\ Cardinality(ReportsPresent(Q)) = 0 /\ Cardinality(ReportsLate(Q)) = 0
        /\ Cardinality(ReportsAbsent(Q)) = 0 /\ Cardinality(ReportsElsewhere(Q)) = 0
    BY <2>2, FS_EmptySet, Zenon
  <2> QED
    BY <1>3, <2>3, Zenon DEF R, Q
<1> QED
  BY <1>2, <1>3

\* The filter of a page that sets none.
ReportsOpen == [from |-> NoFilter, to |-> NoFilter, group |-> NoFilter]

ReportsDays == [k \in DOMAIN rows |-> DayOf[k[1]]]

ReportsGroups == [k \in DOMAIN rows |-> GroupOf[k[1]]]

ReportsToday == {k \in DOMAIN rows : DayOf[k[1]] = Today}

LEMMA ReportsTodayIs ==
    ASSUME ReportsBase, ReportsInv
    PROVE  LET S == ReportsToday
               Q == Part(reports!AttendanceQs(ReportsOpen), ReportsDays, Today)
               V == {k \in S \cap adjusted : rows[k].state = "CANCELLED"}
               W == {k \in S : rows[k].state = "CANCELLED"} IN
           /\ Cardinality(ReportsPresent(S)) = Cardinality(ReportsPresent(Q))
           /\ Cardinality(ReportsAbsent(S)) = Cardinality(ReportsAbsent(Q))
           /\ Cardinality(ReportsLate(S)) = Cardinality(ReportsLate(Q)) + Cardinality(ReportsLate(V))
           /\ Cardinality(ReportsElsewhere(S)) = Cardinality(ReportsElsewhere(Q)) + Cardinality(ReportsElsewhere(W))
<1> DEFINE S == ReportsToday
           Q == Part(reports!AttendanceQs(ReportsOpen), ReportsDays, Today)
           V == {k \in S \cap adjusted : rows[k].state = "CANCELLED"}
           W == {k \in S : rows[k].state = "CANCELLED"}
<1>1. \A k \in S : rows[k].state # "CANCELLED" => k \in Q
  <2> SUFFICES ASSUME NEW k \in S, rows[k].state # "CANCELLED" PROVE k \in Q
    OBVIOUS
  <2>1. k \in DOMAIN rows /\ DayOf[k[1]] = Today
    BY DEF ReportsToday
  <2>2. reports!InRange(Today, ReportsOpen)
    BY DEF reports!InRange, ReportsOpen, ReportsBase
  <2>3. ReportsOpen.group = NoFilter
    BY DEF ReportsOpen
  <2>4. k \in reports!AttendanceQs(ReportsOpen)
    BY <2>1, <2>2, <2>3 DEF reports!AttendanceQs
  <2> QED
    BY <2>1, <2>4 DEF Part, ReportsDays
<1>2. \A k \in Q : k \in S /\ rows[k].state # "CANCELLED"
  BY DEF Part, ReportsDays, ReportsToday, reports!AttendanceQs
<1>3. \A k \in S : rows[k].state = "CANCELLED" =>
          /\ ~reports!IsPresent(rows[k]) /\ ~reports!IsAbsent(rows[k])
          /\ reports!IsLate(rows[k]) => k \in V
  <2> SUFFICES ASSUME NEW k \in S, rows[k].state = "CANCELLED"
               PROVE  /\ ~reports!IsPresent(rows[k]) /\ ~reports!IsAbsent(rows[k])
                      /\ reports!IsLate(rows[k]) => k \in V
    OBVIOUS
  <2>1. k \in DOMAIN rows /\ k \in S /\ rows[k].state = "CANCELLED"
    BY DEF ReportsToday
  <2>2. k \notin adjusted => ReportsOrdinary(rows[k])
    BY <2>1 DEF ReportsInv, ReportsRows
  <2>3. k \notin adjusted => ~reports!IsLate(rows[k])
    BY <2>1, <2>2 DEF ReportsOrdinary, reports!IsLate
  <2>4. ~reports!IsPresent(rows[k]) /\ ~reports!IsAbsent(rows[k])
    BY <2>1 DEF reports!IsPresent, reports!IsAbsent
  <2> QED
    BY <2>1, <2>3, <2>4
<1>4. IsFiniteSet(S) /\ IsFiniteSet(Q) /\ V \subseteq W
  <2>1. S \in SUBSET DOMAIN rows /\ Q \in SUBSET S /\ V \subseteq W
    BY <1>2 DEF ReportsToday
  <2>2. IsFiniteSet(S)
    BY <2>1, ReportsFinite, FS_Subset
  <2> QED
    BY <2>1, <2>2, FS_Subset
<1>5. \A k : k \in W <=> k \in S /\ rows[k].state = "CANCELLED"
  OBVIOUS
<1>6. \A k \in V : k \in S /\ rows[k].state = "CANCELLED"
  OBVIOUS
<1> HIDE DEF S, Q, V, W
<1>11. \A k : reports!IsPresent(rows[k]) => (k \in S <=> k \in Q)
  BY <1>1, <1>2, <1>3, Zenon
<1>12. \A k : reports!IsAbsent(rows[k]) => (k \in S <=> k \in Q)
  BY <1>1, <1>2, <1>3, Zenon
<1>13. \A k : reports!IsLate(rows[k]) =>
          /\ k \in V => (k \in S /\ k \notin Q)
          /\ k \in S => (k \in V \/ k \in Q)
          /\ k \in Q => k \in S
  BY <1>1, <1>2, <1>3, <1>6, Zenon
<1>7. Cardinality(ReportsPresent(S)) = Cardinality(ReportsPresent(Q))
  <2>1. ReportsPresent(S) = ReportsPresent(Q)
    BY <1>11 DEF ReportsPresent
  <2> QED
    BY <2>1, Zenon
<1>8. Cardinality(ReportsAbsent(S)) = Cardinality(ReportsAbsent(Q))
  <2>1. ReportsAbsent(S) = ReportsAbsent(Q)
    BY <1>12 DEF ReportsAbsent
  <2> QED
    BY <2>1, Zenon
<1>9. Cardinality(ReportsLate(S)) = Cardinality(ReportsLate(Q)) + Cardinality(ReportsLate(V))
  <2> DEFINE a == ReportsLate(S)
             b == ReportsLate(Q)
             v == ReportsLate(V)
  <2>1. v \in SUBSET a /\ a \ v = b
    <3>1. /\ \A k : k \in a <=> k \in S /\ reports!IsLate(rows[k])
          /\ \A k : k \in b <=> k \in Q /\ reports!IsLate(rows[k])
          /\ \A k : k \in v <=> k \in V /\ reports!IsLate(rows[k])
      BY DEF ReportsLate
    <3> HIDE DEF a, b, v
    <3>2. \A k : (k \in v => k \in a) /\ (k \in b <=> (k \in a /\ k \notin v))
      BY <1>13, <3>1, Zenon
    <3> QED
      BY <3>2
  <2>2. a \in SUBSET S
    BY DEF ReportsLate
  <2> HIDE DEF a, b, v
  <2>3. IsFiniteSet(a)
    BY <1>4, <2>2, FS_Subset
  <2>4. /\ Cardinality(a) = Cardinality(v) + Cardinality(a \ v)
        /\ Cardinality(v) \in Nat /\ Cardinality(a \ v) \in Nat
    BY <2>1, <2>3, Counted
  <2>5. Cardinality(a \ v) = Cardinality(b)
    BY <2>1, Zenon
  <2>6. Cardinality(a) = Cardinality(b) + Cardinality(v)
    BY <2>4, <2>5
  <2> QED
    BY <2>6 DEF a, b, v
<1>10. Cardinality(ReportsElsewhere(S)) = Cardinality(ReportsElsewhere(Q)) + Cardinality(ReportsElsewhere(W))
  <2> DEFINE a == ReportsElsewhere(S)
             b == ReportsElsewhere(Q)
             v == ReportsElsewhere(W)
  <2>1. v \in SUBSET a /\ a \ v = b
    BY <1>1, <1>2, <1>5 DEF ReportsElsewhere
  <2>2. a \in SUBSET S
    BY DEF ReportsElsewhere
  <2> HIDE DEF a, b, v
  <2>3. IsFiniteSet(a)
    BY <1>4, <2>2, FS_Subset
  <2>4. /\ Cardinality(a) = Cardinality(v) + Cardinality(a \ v)
        /\ Cardinality(v) \in Nat /\ Cardinality(a \ v) \in Nat
    BY <2>1, <2>3, Counted
  <2>5. Cardinality(a \ v) = Cardinality(b)
    BY <2>1, Zenon
  <2>6. Cardinality(a) = Cardinality(b) + Cardinality(v)
    BY <2>4, <2>5
  <2> QED
    BY <2>6 DEF a, b, v
<1> QED
  BY <1>7, <1>8, <1>9, <1>10, Zenon DEF S, Q, V, W

ReportsRecent(end) == [from |-> Today - Recent, to |-> end, group |-> NoFilter]

LEMMA ReportsGroupIs ==
    ASSUME ReportsBase, ReportsInv, NEW g \in reports!Group, NEW end \in Int, \A l \in Lesson : DayOf[l] <= end
    PROVE  LET S == {k \in DOMAIN rows : GroupOf[k[1]] = g /\ DayOf[k[1]] >= Today - Recent}
               Q == Part(reports!AttendanceQs(ReportsRecent(end)), ReportsGroups, g) IN
           /\ Cardinality(ReportsPresent(S)) = Cardinality(ReportsPresent(Q))
           /\ Cardinality(ReportsAbsent(S)) = Cardinality(ReportsAbsent(Q))
<1> DEFINE S == {k \in DOMAIN rows : GroupOf[k[1]] = g /\ DayOf[k[1]] >= Today - Recent}
           f == ReportsRecent(end)
           Q == Part(reports!AttendanceQs(f), ReportsGroups, g)
<1>1. \A k \in S : rows[k].state # "CANCELLED" => k \in Q
  <2> SUFFICES ASSUME NEW k \in S, rows[k].state # "CANCELLED" PROVE k \in Q
    OBVIOUS
  <2>1. k \in DOMAIN rows /\ GroupOf[k[1]] = g /\ DayOf[k[1]] >= Today - Recent /\ DayOf[k[1]] <= end
    BY ReportsFinite
  <2>2. f.from = Today - Recent /\ f.to = end /\ f.group = NoFilter
    BY DEF ReportsRecent
  <2>3. Today - Recent # NoFilter /\ end # NoFilter
    BY DEF ReportsBase
  <2>4. reports!InRange(DayOf[k[1]], f)
    BY <2>1, <2>2, <2>3 DEF reports!InRange
  <2>5. k \in reports!AttendanceQs(f)
    BY <2>1, <2>2, <2>4 DEF reports!AttendanceQs
  <2> QED
    BY <2>1, <2>5 DEF Part, ReportsGroups
<1>2. \A k \in Q : k \in S /\ rows[k].state # "CANCELLED"
  <2> SUFFICES ASSUME NEW k \in Q PROVE k \in S /\ rows[k].state # "CANCELLED"
    OBVIOUS
  <2>1. /\ k \in DOMAIN rows /\ rows[k].state # "CANCELLED" /\ GroupOf[k[1]] = g
        /\ reports!InRange(DayOf[k[1]], f)
    BY DEF Part, ReportsGroups, reports!AttendanceQs
  <2>2. f.from = Today - Recent /\ Today - Recent # NoFilter
    BY DEF ReportsRecent, ReportsBase
  <2>3. DayOf[k[1]] >= Today - Recent
    BY <2>1, <2>2 DEF reports!InRange
  <2> QED
    BY <2>1, <2>3
<1> HIDE DEF S, f, Q
<1>3. ReportsPresent(S) = ReportsPresent(Q)
  BY <1>1, <1>2 DEF ReportsPresent, reports!IsPresent
<1>4. ReportsAbsent(S) = ReportsAbsent(Q)
  BY <1>1, <1>2 DEF ReportsAbsent, reports!IsAbsent
<1> QED
  BY <1>3, <1>4, Zenon DEF S, f, Q

LEMMA ReportsDashboardsAgree ==
    ASSUME ReportsBase, ReportsInv
    PROVE  reports!DashboardsAgree
<1> DEFINE daily == reports!AttendanceDaily(ReportsOpen)
           cell(column) == IF Today \in DOMAIN daily THEN daily[Today][column] ELSE 0
           V == {k \in ReportsToday \cap adjusted : rows[k].state = "CANCELLED"}
           W == {k \in ReportsToday : rows[k].state = "CANCELLED"}
           Q == Part(reports!AttendanceQs(ReportsOpen), ReportsDays, Today)
           today == reports!DashboardAttendance
<1>1. /\ cell("present") = Cardinality(ReportsPresent(Q)) /\ cell("late") = Cardinality(ReportsLate(Q))
      /\ cell("absent") = Cardinality(ReportsAbsent(Q))
      /\ cell("alternative") = Cardinality(ReportsElsewhere(Q))
  BY ReportsCell, Zenon DEF reports!AttendanceDaily, ReportsDays
<1>2. /\ today.present = Cardinality(ReportsPresent(ReportsToday))
      /\ today.late = Cardinality(ReportsLate(ReportsToday))
      /\ today.absent = Cardinality(ReportsAbsent(ReportsToday))
      /\ today.alternative = Cardinality(ReportsElsewhere(ReportsToday))
  BY ReportsAggregate, Zenon DEF reports!DashboardAttendance, ReportsToday
<1>3. /\ reports!Count(V, reports!IsLate) = Cardinality(ReportsLate(V))
      /\ reports!Count(W, reports!IsAlternative) = Cardinality(ReportsElsewhere(W))
  BY ReportsCounts, Zenon DEF reports!Count, ReportsLate, ReportsElsewhere
<1>4. /\ Cardinality(ReportsPresent(ReportsToday)) = Cardinality(ReportsPresent(Q))
      /\ Cardinality(ReportsAbsent(ReportsToday)) = Cardinality(ReportsAbsent(Q))
      /\ Cardinality(ReportsLate(ReportsToday)) = Cardinality(ReportsLate(Q)) + Cardinality(ReportsLate(V))
      /\ Cardinality(ReportsElsewhere(ReportsToday))
            = Cardinality(ReportsElsewhere(Q)) + Cardinality(ReportsElsewhere(W))
  BY ReportsTodayIs, Zenon
<1>5. /\ today.present = cell("present") /\ today.absent = cell("absent")
      /\ today.late = cell("late") + reports!Count(V, reports!IsLate)
      /\ today.alternative = cell("alternative") + reports!Count(W, reports!IsAlternative)
  BY <1>1, <1>2, <1>3, <1>4, Zenon
<1>6. ASSUME NEW g \in reports!Group, NEW end \in {DayOf[l] : l \in Lesson}, \A l \in Lesson : DayOf[l] <= end
      PROVE  LET R == reports!AttendanceByGroup(ReportsRecent(end)) IN
             /\ reports!GroupAttendance(g).present = IF g \in DOMAIN R THEN R[g]["present"] ELSE 0
             /\ reports!GroupAttendance(g).absent = IF g \in DOMAIN R THEN R[g]["absent"] ELSE 0
  <2> DEFINE S == {k \in DOMAIN rows : GroupOf[k[1]] = g /\ DayOf[k[1]] >= Today - Recent}
             P == Part(reports!AttendanceQs(ReportsRecent(end)), ReportsGroups, g)
             R == reports!AttendanceByGroup(ReportsRecent(end))
  <2>1. end \in Int
    BY DEF ReportsBase
  <2>2. /\ Cardinality(ReportsPresent(S)) = Cardinality(ReportsPresent(P))
        /\ Cardinality(ReportsAbsent(S)) = Cardinality(ReportsAbsent(P))
    BY <1>6, <2>1, ReportsGroupIs, Zenon
  <2>3. /\ (IF g \in DOMAIN R THEN R[g]["present"] ELSE 0) = Cardinality(ReportsPresent(P))
        /\ (IF g \in DOMAIN R THEN R[g]["absent"] ELSE 0) = Cardinality(ReportsAbsent(P))
    BY ReportsCell, Zenon DEF reports!AttendanceByGroup, ReportsGroups
  <2>4. /\ reports!GroupAttendance(g).present = Cardinality(ReportsPresent(S))
        /\ reports!GroupAttendance(g).absent = Cardinality(ReportsAbsent(S))
    BY ReportsAggregate, Zenon DEF reports!GroupAttendance
  <2> QED
    BY <2>2, <2>3, <2>4, Zenon
<1>7. ASSUME NEW end
      PROVE  [ReportsOpen EXCEPT !.from = Today - Recent, !.to = end] = ReportsRecent(end)
  <2> DEFINE y == [ReportsOpen EXCEPT !.from = Today - Recent, !.to = end]
             first == Today - Recent
  <2>1. /\ y \in [from : {first, NoFilter}, to : {end, NoFilter}, group : {NoFilter}]
        /\ y.from = first /\ y.to = end /\ y.group = NoFilter
    BY DEF ReportsOpen
  <2> HIDE DEF y, first
  <2>2. y = [from |-> first, to |-> end, group |-> NoFilter]
    BY <2>1
  <2> QED
    BY <2>2 DEF y, first, ReportsRecent
<1> HIDE DEF today
<1> QED
  BY <1>5, <1>6, <1>7, Zenon DEF reports!DashboardsAgree, ReportsOpen, ReportsToday, today

-----------------------------------------------------------------------------
(* The money of the reports *)

LEMMA ReportsSumOf ==
    ASSUME NEW R, IsFiniteSet(DOMAIN R)
    PROVE  reports!MapThenSumSet(LAMBDA k : R[k], DOMAIN R) = Sum(R, DOMAIN R)
<1> DEFINE S == DOMAIN R
           body(it) == [s \in SUBSET S |-> IF s = {} THEN 0 ELSE R[Choice(s)] + it[s \ {Choice(s)}]]
           it == CHOOSE it : it = body(it)
<1>1. reports!MapThenSumSet(LAMBDA k : R[k], S) = it[S]
  BY Zenon DEF reports!MapThenSumSet, reports!MapThenFoldSet, Choice
<1>2. \A h : IsSum(h, R, S) <=> h = body(h)
  BY Zenon DEF IsSum
<1>3. IsFiniteSet(S)
  OBVIOUS
<1> HIDE DEF S, body
<1>4. \E h : IsSum(h, R, S)
  BY <1>3, SumExists, Zenon
<1>5. it = body(it)
  BY <1>2, <1>4, Zenon
<1> HIDE DEF it
<1>6. it[S] = Sum(R, S)
  BY <1>2, <1>3, <1>5, SumUnfolds
<1> QED
  BY <1>1, <1>6, Zenon DEF S

LEMMA ReportsColumn ==
    ASSUME NEW R, IsFiniteSet(DOMAIN R), NEW column
    PROVE  reports!Column(R, column) = Sum([v \in DOMAIN R |-> R[v][column]], DOMAIN R)
<1> DEFINE S == DOMAIN R
           f == [v \in DOMAIN R |-> R[v][column]]
           body(it) == [s \in SUBSET S |-> IF s = {} THEN 0 ELSE R[Choice(s)][column] + it[s \ {Choice(s)}]]
           it == CHOOSE it : it = body(it)
<1>1. reports!Column(R, column) = it[S]
  BY Zenon DEF reports!Column, reports!MapThenSumSet, reports!MapThenFoldSet, Choice
<1>2. \A h : IsSum(h, f, S) <=> h = body(h)
  <2>1. \A v \in S : f[v] = R[v][column]
    OBVIOUS
  <2> HIDE DEF S
  <2>2. \A s \in SUBSET S : s # {} => f[Choice(s)] = R[Choice(s)][column]
    BY <2>1, Chosen
  <2> HIDE DEF f
  <2>3. \A h : body(h) = [s \in SUBSET S |-> IF s = {} THEN 0 ELSE f[Choice(s)] + h[s \ {Choice(s)}]]
    BY <2>2
  <2> HIDE DEF body
  <2> QED
    BY <2>3, Zenon DEF IsSum
<1>3. IsFiniteSet(S)
  OBVIOUS
<1> HIDE DEF S, f, body
<1>4. \E h : IsSum(h, f, S)
  BY <1>3, SumExists, Zenon
<1>5. it = body(it)
  BY <1>2, <1>4, Zenon
<1> HIDE DEF it
<1>6. it[S] = Sum(f, S)
  BY <1>2, <1>3, <1>5, SumUnfolds
<1> QED
  BY <1>1, <1>6, Zenon DEF S, f

ReportsAmounts == [i \in DOMAIN ledger |-> ledger[i].amount]

ReportsNets == [c \in Bill |-> reports!Net(charges[c])]

ReportsBalances == [c \in Bill |-> reports!Balance(charges[c])]

LEMMA ReportsAmount ==
    ASSUME NEW S \in SUBSET DOMAIN ledger, IsFiniteSet(S)
    PROVE  reports!MapThenSumSet(LAMBDA i : ledger[i].amount, S) = Sum(ReportsAmounts, S)
<1> DEFINE f == ReportsAmounts
           body(it) == [s \in SUBSET S |-> IF s = {} THEN 0 ELSE ledger[Choice(s)].amount + it[s \ {Choice(s)}]]
           it == CHOOSE it : it = body(it)
<1>1. reports!MapThenSumSet(LAMBDA i : ledger[i].amount, S) = it[S]
  BY Zenon DEF reports!MapThenSumSet, reports!MapThenFoldSet, Choice
<1>2. \A h : IsSum(h, f, S) <=> h = body(h)
  <2>1. \A v \in S : f[v] = ledger[v].amount
    BY DEF ReportsAmounts
  <2>2. \A s \in SUBSET S : s # {} => f[Choice(s)] = ledger[Choice(s)].amount
    BY <2>1, Chosen
  <2> HIDE DEF f
  <2>3. \A h : body(h) = [s \in SUBSET S |-> IF s = {} THEN 0 ELSE f[Choice(s)] + h[s \ {Choice(s)}]]
    BY <2>2
  <2> HIDE DEF body
  <2> QED
    BY <2>3, Zenon DEF IsSum
<1> HIDE DEF f, body
<1>4. \E h : IsSum(h, f, S)
  BY SumExists, Zenon
<1>5. it = body(it)
  BY <1>2, <1>4, Zenon
<1> HIDE DEF it
<1>6. it[S] = Sum(f, S)
  BY <1>2, <1>5, SumUnfolds
<1> QED
  BY <1>1, <1>6, Zenon DEF f

LEMMA ReportsExpected ==
    ASSUME NEW S \in SUBSET Bill, IsFiniteSet(S)
    PROVE  reports!MapThenSumSet(LAMBDA c : reports!Net(charges[c]), S) = Sum(ReportsNets, S)
<1> DEFINE f == ReportsNets
           body(it) == [s \in SUBSET S |-> IF s = {} THEN 0
                                           ELSE reports!Net(charges[Choice(s)]) + it[s \ {Choice(s)}]]
           it == CHOOSE it : it = body(it)
<1>1. reports!MapThenSumSet(LAMBDA c : reports!Net(charges[c]), S) = it[S]
  BY Zenon DEF reports!MapThenSumSet, reports!MapThenFoldSet, Choice
<1>2. \A h : IsSum(h, f, S) <=> h = body(h)
  <2>1. \A v \in S : f[v] = reports!Net(charges[v])
    BY DEF ReportsNets
  <2>2. \A s \in SUBSET S : s # {} => f[Choice(s)] = reports!Net(charges[Choice(s)])
    BY <2>1, Chosen
  <2> HIDE DEF f
  <2>3. \A h : body(h) = [s \in SUBSET S |-> IF s = {} THEN 0 ELSE f[Choice(s)] + h[s \ {Choice(s)}]]
    BY <2>2
  <2> HIDE DEF body
  <2> QED
    BY <2>3, Zenon DEF IsSum
<1> HIDE DEF f, body
<1>4. \E h : IsSum(h, f, S)
  BY SumExists, Zenon
<1>5. it = body(it)
  BY <1>2, <1>4, Zenon
<1> HIDE DEF it
<1>6. it[S] = Sum(f, S)
  BY <1>2, <1>5, SumUnfolds
<1> QED
  BY <1>1, <1>6, Zenon DEF f

LEMMA ReportsCollected ==
    ASSUME NEW S \in SUBSET Bill, IsFiniteSet(S)
    PROVE  reports!MapThenSumSet(LAMBDA c : charges[c].paid, S) = Sum(ReportsPaid(charges), S)
<1> DEFINE f == ReportsPaid(charges)
           body(it) == [s \in SUBSET S |-> IF s = {} THEN 0 ELSE charges[Choice(s)].paid + it[s \ {Choice(s)}]]
           it == CHOOSE it : it = body(it)
<1>1. reports!MapThenSumSet(LAMBDA c : charges[c].paid, S) = it[S]
  BY Zenon DEF reports!MapThenSumSet, reports!MapThenFoldSet, Choice
<1>2. \A h : IsSum(h, f, S) <=> h = body(h)
  <2>1. \A v \in S : f[v] = charges[v].paid
    BY DEF ReportsPaid
  <2>2. \A s \in SUBSET S : s # {} => f[Choice(s)] = charges[Choice(s)].paid
    BY <2>1, Chosen
  <2> HIDE DEF f
  <2>3. \A h : body(h) = [s \in SUBSET S |-> IF s = {} THEN 0 ELSE f[Choice(s)] + h[s \ {Choice(s)}]]
    BY <2>2
  <2> HIDE DEF body
  <2> QED
    BY <2>3, Zenon DEF IsSum
<1> HIDE DEF f, body
<1>4. \E h : IsSum(h, f, S)
  BY SumExists, Zenon
<1>5. it = body(it)
  BY <1>2, <1>4, Zenon
<1> HIDE DEF it
<1>6. it[S] = Sum(f, S)
  BY <1>2, <1>5, SumUnfolds
<1> QED
  BY <1>1, <1>6, Zenon DEF f

LEMMA ReportsOwed ==
    ASSUME NEW S \in SUBSET Bill, IsFiniteSet(S)
    PROVE  reports!MapThenSumSet(LAMBDA c : reports!Balance(charges[c]), S) = Sum(ReportsBalances, S)
<1> DEFINE f == ReportsBalances
           body(it) == [s \in SUBSET S |-> IF s = {} THEN 0
                                           ELSE reports!Balance(charges[Choice(s)]) + it[s \ {Choice(s)}]]
           it == CHOOSE it : it = body(it)
<1>1. reports!MapThenSumSet(LAMBDA c : reports!Balance(charges[c]), S) = it[S]
  BY Zenon DEF reports!MapThenSumSet, reports!MapThenFoldSet, Choice
<1>2. \A h : IsSum(h, f, S) <=> h = body(h)
  <2>1. \A v \in S : f[v] = reports!Balance(charges[v])
    BY DEF ReportsBalances
  <2>2. \A s \in SUBSET S : s # {} => f[Choice(s)] = reports!Balance(charges[Choice(s)])
    BY <2>1, Chosen
  <2> HIDE DEF f
  <2>3. \A h : body(h) = [s \in SUBSET S |-> IF s = {} THEN 0 ELSE f[Choice(s)] + h[s \ {Choice(s)}]]
    BY <2>2
  <2> HIDE DEF body
  <2> QED
    BY <2>3, Zenon DEF IsSum
<1> HIDE DEF f, body
<1>4. \E h : IsSum(h, f, S)
  BY SumExists, Zenon
<1>5. it = body(it)
  BY <1>2, <1>4, Zenon
<1> HIDE DEF it
<1>6. it[S] = Sum(f, S)
  BY <1>2, <1>5, SumUnfolds
<1> QED
  BY <1>1, <1>6, Zenon DEF f

LEMMA ReportsMoneyIs ==
    ASSUME NEW S \in SUBSET Bill, IsFiniteSet(S)
    PROVE  reports!Money(S) = [expected |-> Sum(ReportsNets, S), collected |-> Sum(ReportsPaid(charges), S),
                               outstanding |-> Sum(ReportsBalances, S)]
<1>1. reports!Money(S) = [expected |-> reports!MapThenSumSet(LAMBDA c : reports!Net(charges[c]), S),
                          collected |-> reports!MapThenSumSet(LAMBDA c : charges[c].paid, S),
                          outstanding |-> reports!MapThenSumSet(LAMBDA c : reports!Balance(charges[c]), S)]
  BY Zenon DEF reports!Money
<1>2. reports!MapThenSumSet(LAMBDA c : reports!Net(charges[c]), S) = Sum(ReportsNets, S)
  BY ReportsExpected
<1>3. reports!MapThenSumSet(LAMBDA c : charges[c].paid, S) = Sum(ReportsPaid(charges), S)
  BY ReportsCollected
<1>4. reports!MapThenSumSet(LAMBDA c : reports!Balance(charges[c]), S) = Sum(ReportsBalances, S)
  BY ReportsOwed
<1> QED
  BY <1>1, <1>2, <1>3, <1>4, Zenon

LEMMA ReportsLedger ==
    ASSUME ReportsInv
    PROVE  /\ IsFiniteSet(DOMAIN ledger)
           /\ \A i \in DOMAIN ledger : /\ ledger[i].amount \in Nat
                                       /\ ledger[i].kind \in {"PAYMENT", "REFUND"}
                                       /\ ReportsAmounts[i] \in Int /\ ReportsSigned(ledger)[i] \in Int
<1>1. ledger \in Seq(ReportsEntry)
  BY DEF ReportsInv, ReportsBalanced
<1> DEFINE n == Len(ledger)
<1>2. DOMAIN ledger = 1 .. n /\ n \in Nat
  BY <1>1
<1>3. \A i \in DOMAIN ledger : ledger[i].amount \in Nat /\ ledger[i].kind \in {"PAYMENT", "REFUND"}
  <2>1. \A i \in DOMAIN ledger : ledger[i] \in ReportsEntry
    BY <1>1
  <2> QED
    BY <2>1 DEF ReportsEntry
<1>4. \A i \in DOMAIN ledger : ReportsAmounts[i] \in Int /\ ReportsSigned(ledger)[i] \in Int
  BY <1>3 DEF ReportsAmounts, ReportsSigned
<1> HIDE DEF n
<1>5. 1 \in Int /\ n \in Int
  BY <1>2
<1>6. IsFiniteSet(1 .. n)
  BY <1>5, FS_Interval, Zenon
<1>7. IsFiniteSet(DOMAIN ledger)
  BY <1>2, <1>6, Zenon
<1> QED
  BY <1>3, <1>4, <1>7

\* The net of a set of entries is the sum of what each of them adds.
LEMMA ReportsNetOf ==
    ASSUME ReportsInv, NEW S \in SUBSET DOMAIN ledger
    PROVE  reports!NetOf(S) = Sum(ReportsSigned(ledger), S)
<1> DEFINE P == {i \in S : ledger[i].kind = "PAYMENT"}
           R == {i \in S : ledger[i].kind = "REFUND"}
           f == ReportsSigned(ledger)
           a == ReportsAmounts
           none == [i \in R |-> 0]
<1>1. IsFiniteSet(S)
  BY ReportsLedger, FS_Subset
<1>2. P \in SUBSET S /\ R \in SUBSET S /\ R = S \ P
  BY ReportsLedger
<1>3. IsFiniteSet(P) /\ IsFiniteSet(R)
  BY <1>1, <1>2, FS_Subset
<1>4. reports!NetOf(S) = reports!MapThenSumSet(LAMBDA i : ledger[i].amount, P)
                           - reports!MapThenSumSet(LAMBDA i : ledger[i].amount, R)
  BY Zenon DEF reports!NetOf
<1>5. \A i \in P : f[i] = a[i]
  BY DEF ReportsSigned, ReportsAmounts
<1>6. \A i \in R : none[i] \in Int /\ a[i] \in Int /\ f[i] = none[i] - a[i]
  <2> SUFFICES ASSUME NEW i \in R PROVE none[i] \in Int /\ a[i] \in Int /\ f[i] = none[i] - a[i]
    OBVIOUS
  <2>1. none[i] = 0
    OBVIOUS
  <2>2. ledger[i].kind = "REFUND" /\ i \in DOMAIN ledger /\ ledger[i].amount \in Nat
    BY ReportsLedger
  <2>3. f[i] = -ledger[i].amount /\ a[i] = ledger[i].amount
    BY <2>2 DEF ReportsSigned, ReportsAmounts
  <2> HIDE DEF none, f, a
  <2> QED
    BY <2>1, <2>2, <2>3
<1>7. \A i \in R : none[i] = 0
  OBVIOUS
<1>8. \A i \in S : f[i] \in Int
  BY ReportsLedger
<1>9. P \in SUBSET DOMAIN ledger /\ R \in SUBSET DOMAIN ledger
  OBVIOUS
<1> HIDE DEF P, R, none
<1>10. reports!NetOf(S) = Sum(a, P) - Sum(a, R)
  <2>1. reports!MapThenSumSet(LAMBDA i : ledger[i].amount, P) = Sum(a, P)
    BY <1>3, <1>9, ReportsAmount
  <2>2. reports!MapThenSumSet(LAMBDA i : ledger[i].amount, R) = Sum(a, R)
    BY <1>3, <1>9, ReportsAmount
  <2> QED
    BY <1>4, <2>1, <2>2, Zenon
<1> HIDE DEF f, a
<1>11. Sum(f, P) = Sum(a, P)
  BY <1>3, <1>5, SumSame
<1>12. Sum(f, R) = Sum(none, R) - Sum(a, R) /\ Sum(a, R) \in Int
  BY <1>3, <1>6, SumMinus
<1>13. Sum(none, R) = 0
  BY <1>3, <1>7, SumZero
<1>14. Sum(f, S) = Sum(f, P) + Sum(f, S \ P)
  BY <1>1, <1>2, <1>8, SumSplit
<1>15. Sum(f, S \ P) = Sum(f, R)
  BY <1>2, Zenon
<1>16. Sum(f, P) \in Int
  <2>1. \A i \in P : f[i] \in Int
    BY <1>2, <1>8
  <2> QED
    BY <1>3, <2>1, SumType
<1>17. reports!NetOf(S) = Sum(f, S)
  BY <1>10, <1>11, <1>12, <1>13, <1>14, <1>15, <1>16
<1> QED
  BY <1>17 DEF f

\* A report of what each part of the entries adds, by any key.
LEMMA ReportsTill ==
    ASSUME ReportsInv, NEW S \in SUBSET DOMAIN ledger, NEW T, NEW b,
           \A i \in S : b[i] \in T, \A t \in T : \E i \in S : b[i] = t,
           NEW R, \A t \in T : R[t] = reports!NetOf(Part(S, b, t))
    PROVE  Sum(R, T) = Sum(ReportsSigned(ledger), S) /\ IsFiniteSet(T)
<1> DEFINE f == ReportsSigned(ledger)
<1>1. IsFiniteSet(S)
  BY ReportsLedger, FS_Subset
<1>2. IsFiniteSet(T)
  BY <1>1, Images
<1>4. \A t \in T : R[t] = Sum(f, Part(S, b, t))
  <2> SUFFICES ASSUME NEW t \in T PROVE R[t] = Sum(f, Part(S, b, t))
    OBVIOUS
  <2>1. R[t] = reports!NetOf(Part(S, b, t))
    OBVIOUS
  <2>2. Part(S, b, t) \in SUBSET DOMAIN ledger
    BY DEF Part
  <2>3. reports!NetOf(Part(S, b, t)) = Sum(f, Part(S, b, t))
    BY <2>2, ReportsNetOf
  <2> QED
    BY <2>1, <2>3, Zenon
<1>5. \A i \in S : b[i] \in T /\ f[i] \in Int
  BY ReportsLedger
<1> HIDE DEF f
<1>6. Sum(R, T) = Sum(f, S)
  BY <1>1, <1>2, <1>4, <1>5, SumParts
<1> QED
  BY <1>2, <1>6 DEF f

LEMMA ReportsTills ==
    ASSUME ReportsInv, NEW p
    PROVE  /\ reports!MapThenSumSet(LAMBDA k : reports!CollectionDaily(p)[k], DOMAIN reports!CollectionDaily(p))
                = Sum(ReportsSigned(ledger), reports!PaymentQs(p))
           /\ reports!MapThenSumSet(LAMBDA k : reports!CashierDaybook(p)[k], DOMAIN reports!CashierDaybook(p))
                = Sum(ReportsSigned(ledger), reports!PaymentQs(p))
           /\ reports!MapThenSumSet(LAMBDA k : reports!StudentPayments(p)[k], DOMAIN reports!StudentPayments(p))
                = Sum(ReportsSigned(ledger), reports!PaymentQs(p))
<1> DEFINE S == reports!PaymentQs(p)
           day == [i \in DOMAIN ledger |-> ledger[i].day]
           till == [i \in DOMAIN ledger |-> <<ledger[i].cashier, ledger[i].method>>]
<1>1. S \in SUBSET DOMAIN ledger
  BY DEF reports!PaymentQs
<1>2. reports!MapThenSumSet(LAMBDA k : reports!CollectionDaily(p)[k], DOMAIN reports!CollectionDaily(p))
        = Sum(ReportsSigned(ledger), S)
  <2> DEFINE R == reports!CollectionDaily(p)
             T == {ledger[i].day : i \in S}
  <2>1. \A i \in S : day[i] \in T
    BY <1>1
  <2>2. \A t \in T : \E i \in S : day[i] = t
    BY <1>1
  <2>3. R = [t \in T |-> reports!NetOf({i \in S : ledger[i].day = t})]
    BY Zenon DEF reports!CollectionDaily
  <2>4. \A t \in T : {i \in S : ledger[i].day = t} = Part(S, day, t)
    BY <1>1 DEF Part
  <2> HIDE DEF S, T, day
  <2>5. DOMAIN R = T /\ \A t \in T : R[t] = reports!NetOf(Part(S, day, t))
    BY <2>3, <2>4
  <2> HIDE DEF R
  <2>6. Sum(R, T) = Sum(ReportsSigned(ledger), S) /\ IsFiniteSet(T)
    BY <1>1, <2>1, <2>2, <2>5, ReportsTill
  <2>7. IsFiniteSet(DOMAIN R) /\ Sum(R, DOMAIN R) = Sum(ReportsSigned(ledger), S)
    BY <2>5, <2>6, Zenon
  <2>8. reports!MapThenSumSet(LAMBDA k : R[k], DOMAIN R) = Sum(R, DOMAIN R)
    BY <2>7, ReportsSumOf
  <2> QED
    BY <2>7, <2>8, Zenon DEF R
<1>3. reports!MapThenSumSet(LAMBDA k : reports!CashierDaybook(p)[k], DOMAIN reports!CashierDaybook(p))
        = Sum(ReportsSigned(ledger), S)
  <2> DEFINE R == reports!CashierDaybook(p)
             T == {<<ledger[i].cashier, ledger[i].method>> : i \in S}
  <2>1. \A i \in S : till[i] \in T
    BY <1>1
  <2>2. \A t \in T : \E i \in S : till[i] = t
    BY <1>1
  <2>3. R = [t \in T |-> reports!NetOf({i \in S : <<ledger[i].cashier, ledger[i].method>> = t})]
    BY Zenon DEF reports!CashierDaybook
  <2>4. \A t \in T : {i \in S : <<ledger[i].cashier, ledger[i].method>> = t} = Part(S, till, t)
    <3> TAKE t \in T
    <3>1. \A i \in S : till[i] = <<ledger[i].cashier, ledger[i].method>>
      BY <1>1
    <3> HIDE DEF till, S, T
    <3> QED
      BY <3>1 DEF Part
  <2> HIDE DEF S, T, till
  <2>5. DOMAIN R = T /\ \A t \in T : R[t] = reports!NetOf(Part(S, till, t))
    BY <2>3, <2>4
  <2> HIDE DEF R
  <2>6. Sum(R, T) = Sum(ReportsSigned(ledger), S) /\ IsFiniteSet(T)
    BY <1>1, <2>1, <2>2, <2>5, ReportsTill
  <2>7. IsFiniteSet(DOMAIN R) /\ Sum(R, DOMAIN R) = Sum(ReportsSigned(ledger), S)
    BY <2>5, <2>6, Zenon
  <2>8. reports!MapThenSumSet(LAMBDA k : R[k], DOMAIN R) = Sum(R, DOMAIN R)
    BY <2>7, ReportsSumOf
  <2> QED
    BY <2>7, <2>8, Zenon DEF R
<1>4. reports!MapThenSumSet(LAMBDA k : reports!StudentPayments(p)[k], DOMAIN reports!StudentPayments(p))
        = Sum(ReportsSigned(ledger), S)
  <2> DEFINE R == reports!StudentPayments(p)
  <2>1. DOMAIN R = S
    BY DEF reports!StudentPayments
  <2>2. \A i \in S : R[i] = ReportsSigned(ledger)[i]
    BY <1>1 DEF reports!StudentPayments, ReportsSigned
  <2>3. IsFiniteSet(S)
    BY <1>1, ReportsLedger, FS_Subset
  <2> HIDE DEF R, S
  <2>4. reports!MapThenSumSet(LAMBDA k : R[k], DOMAIN R) = Sum(R, DOMAIN R)
    BY <2>1, <2>3, ReportsSumOf
  <2>5. Sum(R, S) = Sum(ReportsSigned(ledger), S)
    BY <2>2, <2>3, SumSame
  <2> QED
    BY <2>1, <2>4, <2>5, Zenon DEF R
<1> QED
  BY <1>2, <1>3, <1>4, Zenon

ReportsMoneyColumns == {"expected", "collected", "outstanding"}

ReportsFigure(column) ==
    CASE column = "expected" -> ReportsNets
      [] column = "collected" -> ReportsPaid(charges)
      [] column = "outstanding" -> ReportsBalances

LEMMA ReportsFigures ==
    ASSUME ReportsBase, ReportsInv, NEW S \in SUBSET Bill
    PROVE  /\ IsFiniteSet(S)
           /\ \A column \in ReportsMoneyColumns : reports!Money(S)[column] = Sum(ReportsFigure(column), S)
           /\ \A column \in ReportsMoneyColumns : \A c \in S : ReportsFigure(column)[c] \in Int
<1>1. IsFiniteSet(S)
  BY FS_Subset DEF ReportsBase
<1>2. reports!Money(S) = [expected |-> Sum(ReportsNets, S), collected |-> Sum(ReportsPaid(charges), S),
                          outstanding |-> Sum(ReportsBalances, S)]
  BY <1>1, ReportsMoneyIs
<1>3. \A column \in ReportsMoneyColumns : reports!Money(S)[column] = Sum(ReportsFigure(column), S)
  BY <1>2 DEF ReportsMoneyColumns, ReportsFigure
<1>4. \A c \in S : ReportsNets[c] \in Int /\ ReportsPaid(charges)[c] \in Int /\ ReportsBalances[c] \in Int
  <2> TAKE c \in S
  <2>1. /\ charges[c].due \in Nat /\ charges[c].discount \in Nat /\ charges[c].paid \in Nat
    BY ReportsCharged
  <2> QED
    BY <2>1 DEF ReportsNets, ReportsPaid, ReportsBalances, reports!Balance, reports!Net
<1>5. \A column \in ReportsMoneyColumns : \A c \in S : ReportsFigure(column)[c] \in Int
  BY <1>4 DEF ReportsMoneyColumns, ReportsFigure
<1> QED
  BY <1>1, <1>3, <1>5

\* A report of the money of each part of the charges, by any key.
LEMMA ReportsSplit ==
    ASSUME ReportsBase, ReportsInv, NEW S \in SUBSET Bill, NEW T, IsFiniteSet(T), NEW b,
           \A c \in S : b[c] \in T, NEW column \in ReportsMoneyColumns, NEW g,
           \A y \in T : g[y] = reports!Money(Part(S, b, y))[column]
    PROVE  Sum(g, T) = reports!Money(S)[column]
<1> DEFINE f == ReportsFigure(column)
<1>1. /\ IsFiniteSet(S) /\ reports!Money(S)[column] = Sum(f, S)
      /\ \A c \in S : b[c] \in T /\ f[c] \in Int
  BY ReportsFigures
<1>2. \A y \in T : g[y] = Sum(f, Part(S, b, y))
  <2> SUFFICES ASSUME NEW y \in T PROVE g[y] = Sum(f, Part(S, b, y))
    OBVIOUS
  <2>1. Part(S, b, y) \in SUBSET Bill
    BY DEF Part
  <2>2. reports!Money(Part(S, b, y))[column] = Sum(f, Part(S, b, y))
    BY <2>1, ReportsFigures
  <2> QED
    BY <2>2, Zenon
<1> HIDE DEF f
<1>3. Sum(g, T) = Sum(f, S)
  BY <1>1, <1>2, SumParts
<1> QED
  BY <1>1, <1>3, Zenon

LEMMA ReportsFinance ==
    ASSUME ReportsBase, ReportsInv, NEW S \in SUBSET Bill, NEW T, NEW b,
           \A c \in S : b[c] \in T, \A y \in T : \E c \in S : b[c] = y,
           NEW column \in ReportsMoneyColumns, NEW R, DOMAIN R = T,
           \A y \in T : R[y] = reports!Money(Part(S, b, y))
    PROVE  reports!Column(R, column) = reports!Money(S)[column]
<1> DEFINE g == [v \in DOMAIN R |-> R[v][column]]
<1>1. IsFiniteSet(T)
  <2>1. IsFiniteSet(S)
    BY ReportsFigures
  <2> QED
    BY <2>1, Images
<1>2. \A y \in T : g[y] = reports!Money(Part(S, b, y))[column]
  OBVIOUS
<1>3. IsFiniteSet(DOMAIN R)
  BY <1>1, Zenon
<1>4. reports!Column(R, column) = Sum(g, DOMAIN R)
  BY <1>3, ReportsColumn
<1> HIDE DEF g
<1>5. Sum(g, T) = reports!Money(S)[column]
  BY <1>1, <1>2, ReportsSplit
<1> QED
  BY <1>4, <1>5, Zenon

LEMMA ReportsFinances ==
    ASSUME ReportsBase, ReportsInv, NEW p, NEW column \in ReportsMoneyColumns
    PROVE  /\ reports!Column(reports!FinanceByGroup(p), column) = reports!Money(reports!ChargeQs(p))[column]
           /\ reports!Column(reports!FinanceBySubject(p), column) = reports!Money(reports!ChargeQs(p))[column]
<1> DEFINE S == reports!ChargeQs(p)
           group == [c \in Bill |-> ChargeOf[c].group]
           subject == [c \in Bill |-> SubjectOf[ChargeOf[c].group]]
<1>1. S \in SUBSET Bill
  BY DEF reports!ChargeQs, reports!Billable
<1>2. reports!Column(reports!FinanceByGroup(p), column) = reports!Money(S)[column]
  <2> DEFINE R == reports!FinanceByGroup(p)
             T == {ChargeOf[c].group : c \in S}
  <2>1. \A c \in S : group[c] \in T
    BY <1>1
  <2>2. \A y \in T : \E c \in S : group[c] = y
    BY <1>1
  <2>3. R = [y \in T |-> reports!Money({c \in S : ChargeOf[c].group = y})]
    BY Zenon DEF reports!FinanceByGroup
  <2>4. \A y \in T : {c \in S : ChargeOf[c].group = y} = Part(S, group, y)
    BY <1>1 DEF Part
  <2> HIDE DEF S, T, group
  <2>5. DOMAIN R = T /\ \A y \in T : R[y] = reports!Money(Part(S, group, y))
    BY <2>3, <2>4
  <2> HIDE DEF R
  <2>6. reports!Column(R, column) = reports!Money(S)[column]
    BY <1>1, <2>1, <2>2, <2>5, ReportsFinance
  <2> QED
    BY <2>6, Zenon DEF R
<1>3. reports!Column(reports!FinanceBySubject(p), column) = reports!Money(S)[column]
  <2> DEFINE R == reports!FinanceBySubject(p)
             T == {SubjectOf[ChargeOf[c].group] : c \in S}
  <2>1. \A c \in S : subject[c] \in T
    BY <1>1
  <2>2. \A y \in T : \E c \in S : subject[c] = y
    BY <1>1
  <2>3. R = [y \in T |-> reports!Money({c \in S : SubjectOf[ChargeOf[c].group] = y})]
    BY Zenon DEF reports!FinanceBySubject
  <2>4. \A y \in T : {c \in S : SubjectOf[ChargeOf[c].group] = y} = Part(S, subject, y)
    BY <1>1 DEF Part
  <2> HIDE DEF S, T, subject
  <2>5. DOMAIN R = T /\ \A y \in T : R[y] = reports!Money(Part(S, subject, y))
    BY <2>3, <2>4
  <2> HIDE DEF R
  <2>6. reports!Column(R, column) = reports!Money(S)[column]
    BY <1>1, <2>1, <2>2, <2>5, ReportsFinance
  <2> QED
    BY <2>6, Zenon DEF R
<1> QED
  BY <1>2, <1>3, Zenon

\* The charges of this month, which the dashboards show.
ReportsMonth == {c \in reports!Billable : ChargeOf[c].month = 1}

LEMMA ReportsGroupsIs ==
    ASSUME IsFiniteSet(reports!Group), NEW column
    PROVE  reports!MapThenSumSet(LAMBDA g : reports!GroupMoney(g)[column], reports!Group)
             = Sum([g \in reports!Group |-> reports!GroupMoney(g)[column]], reports!Group)
<1> DEFINE S == reports!Group
           f == [g \in S |-> reports!GroupMoney(g)[column]]
           body(it) == [s \in SUBSET S |-> IF s = {} THEN 0
                                           ELSE reports!GroupMoney(Choice(s))[column] + it[s \ {Choice(s)}]]
           it == CHOOSE it : it = body(it)
<1>1. reports!MapThenSumSet(LAMBDA g : reports!GroupMoney(g)[column], S) = it[S]
  BY Zenon DEF reports!MapThenSumSet, reports!MapThenFoldSet, Choice
<1>2. \A h : IsSum(h, f, S) <=> h = body(h)
  <2>1. \A v \in S : f[v] = reports!GroupMoney(v)[column]
    OBVIOUS
  <2> HIDE DEF S
  <2>2. \A s \in SUBSET S : s # {} => f[Choice(s)] = reports!GroupMoney(Choice(s))[column]
    BY <2>1, Chosen
  <2> HIDE DEF f
  <2>3. \A h : body(h) = [s \in SUBSET S |-> IF s = {} THEN 0 ELSE f[Choice(s)] + h[s \ {Choice(s)}]]
    BY <2>2
  <2> HIDE DEF body
  <2> QED
    BY <2>3, Zenon DEF IsSum
<1>3. IsFiniteSet(S)
  OBVIOUS
<1> HIDE DEF S, f, body
<1>4. \E h : IsSum(h, f, S)
  BY <1>3, SumExists, Zenon
<1>5. it = body(it)
  BY <1>2, <1>4, Zenon
<1> HIDE DEF it
<1>6. it[S] = Sum(f, S)
  BY <1>2, <1>3, <1>5, SumUnfolds
<1> QED
  BY <1>1, <1>6, Zenon DEF S, f

LEMMA ReportsGroupFinite ==
    ASSUME ReportsBase
    PROVE  IsFiniteSet(reports!Group)
<1> DEFINE A == {GroupOf[l] : l \in Lesson}
           B == {HomeOf[s] : s \in Attendee}
<1>1. (\A l \in Lesson : GroupOf[l] \in A) /\ (\A y \in A : \E l \in Lesson : GroupOf[l] = y)
  OBVIOUS
<1>2. (\A s \in Attendee : HomeOf[s] \in B) /\ (\A y \in B : \E s \in Attendee : HomeOf[s] = y)
  OBVIOUS
<1>3. reports!Group = A \cup B
  BY DEF reports!Group
<1>4. IsFiniteSet(Lesson) /\ IsFiniteSet(Attendee)
  BY DEF ReportsBase
<1> HIDE DEF A, B
<1>5. IsFiniteSet(A)
  BY <1>1, <1>4, Images
<1>6. IsFiniteSet(B)
  BY <1>2, <1>4, Images
<1>7. IsFiniteSet(A \cup B)
  BY <1>5, <1>6, FS_Union
<1> QED
  BY <1>3, <1>7, Zenon

LEMMA ReportsGroupMoney ==
    ASSUME ReportsBase, ReportsInv, NEW column \in ReportsMoneyColumns
    PROVE  reports!MapThenSumSet(LAMBDA g : reports!GroupMoney(g)[column], reports!Group)
             = reports!Money(ReportsMonth)[column]
<1> DEFINE T == reports!Group
           f == [g \in T |-> reports!GroupMoney(g)[column]]
           group == [c \in Bill |-> ChargeOf[c].group]
<1>1. IsFiniteSet(T)
  BY ReportsGroupFinite
<1>2. ReportsMonth \in SUBSET Bill
  BY DEF ReportsMonth, reports!Billable
<1>3. \A c \in ReportsMonth : group[c] \in T
  BY <1>2 DEF ReportsBase
<1>4. reports!MapThenSumSet(LAMBDA g : reports!GroupMoney(g)[column], T) = Sum(f, T)
  BY <1>1, ReportsGroupsIs
<1>5. \A g \in T : f[g] = reports!Money(Part(ReportsMonth, group, g))[column]
  <2> SUFFICES ASSUME NEW g \in T PROVE f[g] = reports!Money(Part(ReportsMonth, group, g))[column]
    OBVIOUS
  <2>1. f[g] = reports!Money({c \in reports!Billable : ChargeOf[c].group = g /\ ChargeOf[c].month = 1})[column]
    BY DEF reports!GroupMoney
  <2>2. {c \in reports!Billable : ChargeOf[c].group = g /\ ChargeOf[c].month = 1} = Part(ReportsMonth, group, g)
    BY <1>2 DEF Part, ReportsMonth
  <2> QED
    BY <2>1, <2>2, Zenon
<1> HIDE DEF T, f, group
<1>6. Sum(f, T) = reports!Money(ReportsMonth)[column]
  BY <1>1, <1>2, <1>3, <1>5, ReportsSplit
<1> QED
  BY <1>4, <1>6, Zenon DEF T

\* The filter of the finance pages: this month, every group.
ReportsThis == [from |-> NoFilter, to |-> NoFilter, group |-> NoFilter, month |-> 1]

LEMMA ReportsEvery ==
    ASSUME ReportsBase
    PROVE  /\ reports!ChargeQs(ReportsThis) = ReportsMonth
           /\ reports!ChargeQs([ReportsThis EXCEPT !.month = NoFilter]) = reports!Billable
           /\ ReportsMonth \in SUBSET Bill /\ reports!Billable \in SUBSET Bill
<1>1. ReportsThis.month = 1 /\ ReportsThis.group = NoFilter
  BY DEF ReportsThis
<1>2. NoFilter # 1
  BY DEF ReportsBase
<1>3. reports!ChargeQs(ReportsThis) = ReportsMonth
  BY <1>1, <1>2 DEF reports!ChargeQs, ReportsMonth
<1> DEFINE every == [ReportsThis EXCEPT !.month = NoFilter]
<1>4. every.month = NoFilter /\ every.group = NoFilter
  BY DEF ReportsThis
<1> HIDE DEF every
<1>5. reports!ChargeQs(every) = reports!Billable
  BY <1>4 DEF reports!ChargeQs, reports!Billable
<1>6. ReportsMonth \in SUBSET Bill /\ reports!Billable \in SUBSET Bill
  BY DEF ReportsMonth, reports!Billable
<1> QED
  BY <1>3, <1>5, <1>6, Zenon DEF every

LEMMA ReportsTodaysTill ==
    ASSUME ReportsBase, ReportsInv
    PROVE  LET R == reports!CollectionDaily(ReportsThis) IN
           reports!DashboardMoney.today = IF Today \in DOMAIN R THEN R[Today] ELSE 0
<1> DEFINE S == reports!PaymentQs(ReportsThis)
           Q == {i \in DOMAIN ledger : ledger[i].day = Today}
           R == reports!CollectionDaily(ReportsThis)
           T == {ledger[i].day : i \in S}
<1>1. reports!DashboardMoney.today = reports!NetOf(Q)
  BY DEF reports!DashboardMoney
<1>2. R = [d \in T |-> reports!NetOf({i \in S : ledger[i].day = d})]
  BY Zenon DEF reports!CollectionDaily
<1>3. {i \in S : ledger[i].day = Today} = Q
  <2>1. ReportsThis.from = NoFilter /\ ReportsThis.to = NoFilter
    BY DEF ReportsThis
  <2>2. reports!InRange(Today, ReportsThis)
    BY <2>1 DEF reports!InRange, ReportsBase
  <2> QED
    BY <2>2 DEF reports!PaymentQs
<1>4. CASE Today \in T
  <2> HIDE DEF S, Q, T, R
  <2>1. Today \in DOMAIN R /\ R[Today] = reports!NetOf(Q)
    BY <1>2, <1>3, <1>4
  <2> QED
    BY <1>1, <2>1, Zenon DEF R
<1>5. CASE Today \notin T
  <2>1. Q = {}
    BY <1>3, <1>5
  <2>2. Q \in SUBSET DOMAIN ledger
    OBVIOUS
  <2> HIDE DEF S, Q, T, R
  <2>3. reports!NetOf(Q) = Sum(ReportsSigned(ledger), Q)
    BY <2>2, ReportsNetOf
  <2>4. reports!NetOf(Q) = 0
    BY <2>1, <2>3, SumEmpty
  <2>5. Today \notin DOMAIN R
    BY <1>2, <1>5
  <2> QED
    BY <1>1, <2>4, <2>5, Zenon DEF R
<1> QED
  BY <1>4, <1>5

\* What was expected of the charges is collected or outstanding.
LEMMA ReportsExpectedIs ==
    ASSUME ReportsBase, ReportsInv, NEW S \in SUBSET Bill
    PROVE  reports!Money(S)["expected"] = reports!Money(S)["collected"] + reports!Money(S)["outstanding"]
<1> DEFINE e == ReportsNets
           p == ReportsPaid(charges)
           o == ReportsBalances
<1>1. IsFiniteSet(S)
  BY ReportsFigures
<1>2. \A c \in S : p[c] \in Int /\ o[c] \in Int /\ e[c] = p[c] + o[c]
  <2> SUFFICES ASSUME NEW c \in S PROVE p[c] \in Int /\ o[c] \in Int /\ e[c] = p[c] + o[c]
    OBVIOUS
  <2>1. charges[c].due \in Nat /\ charges[c].discount \in Nat /\ charges[c].paid \in Nat
    BY ReportsCharged
  <2>2. /\ e[c] = charges[c].due - charges[c].discount /\ p[c] = charges[c].paid
        /\ o[c] = charges[c].due - charges[c].discount - charges[c].paid
    BY DEF ReportsNets, ReportsPaid, ReportsBalances, reports!Balance, reports!Net
  <2> HIDE DEF e, p, o
  <2> QED
    BY <2>1, <2>2
<1>3. /\ reports!Money(S)["expected"] = Sum(e, S) /\ reports!Money(S)["collected"] = Sum(p, S)
      /\ reports!Money(S)["outstanding"] = Sum(o, S)
  BY <1>1, ReportsMoneyIs
<1> HIDE DEF e, p, o
<1>4. Sum(e, S) = Sum(p, S) + Sum(o, S)
  BY <1>1, <1>2, SumAdd
<1> QED
  BY <1>3, <1>4, Zenon

\* The debts exceed what is outstanding by the credits.
LEMMA ReportsDebts ==
    ASSUME ReportsBase, ReportsInv, NEW S \in SUBSET Bill,
           NEW D, D = {c \in S : reports!Balance(charges[c]) > 0},
           NEW C, C = {c \in S : reports!Balance(charges[c]) < 0}
    PROVE  reports!MapThenSumSet(LAMBDA c : reports!Balance(charges[c]), D)
             = reports!Money(S)["outstanding"]
                 - reports!MapThenSumSet(LAMBDA c : reports!Balance(charges[c]), C)
<1> DEFINE o == ReportsBalances
           Q == S \ D
           Z == Q \ C
<1>1. D \in SUBSET S /\ C \in SUBSET Q /\ D \in SUBSET Bill /\ C \in SUBSET Bill
  <2>1. \A c \in S : reports!Balance(charges[c]) \in Int
    <3> TAKE c \in S
    <3>1. charges[c].due \in Nat /\ charges[c].discount \in Nat /\ charges[c].paid \in Nat
      BY ReportsCharged
    <3> QED
      BY <3>1 DEF reports!Balance, reports!Net
  <2>2. \A c \in C : c \in S /\ c \notin D
    BY <2>1
  <2> QED
    BY <2>2
<1>2. IsFiniteSet(S) /\ IsFiniteSet(D) /\ IsFiniteSet(C) /\ IsFiniteSet(Q) /\ IsFiniteSet(Z)
  <2>1. IsFiniteSet(S) /\ Q \in SUBSET S /\ Z \in SUBSET S
    BY ReportsFigures
  <2> HIDE DEF Q, Z
  <2>2. IsFiniteSet(D)
    BY <1>1, <2>1, FS_Subset
  <2>3. IsFiniteSet(Q) /\ IsFiniteSet(Z)
    BY <2>1, FS_Subset
  <2>4. IsFiniteSet(C)
    BY <1>1, <2>3, FS_Subset
  <2> QED
    BY <2>1, <2>2, <2>3, <2>4
<1>3. \A c \in S : o[c] \in Int /\ o[c] = reports!Balance(charges[c])
  <2> SUFFICES ASSUME NEW c \in S PROVE o[c] \in Int /\ o[c] = reports!Balance(charges[c])
    OBVIOUS
  <2>1. charges[c].due \in Nat /\ charges[c].discount \in Nat /\ charges[c].paid \in Nat
    BY ReportsCharged
  <2> QED
    BY <2>1 DEF ReportsBalances, reports!Balance, reports!Net
<1>4. \A c \in Z : o[c] = 0
  <2> SUFFICES ASSUME NEW c \in Z PROVE o[c] = 0
    OBVIOUS
  <2>1. c \in S /\ ~(o[c] > 0) /\ ~(o[c] < 0) /\ o[c] \in Int
    BY <1>3
  <2> HIDE DEF o
  <2> QED
    BY <2>1
<1>5. \A c \in Q : o[c] \in Int
  BY <1>3
<1>6. /\ reports!MapThenSumSet(LAMBDA c : reports!Balance(charges[c]), D) = Sum(o, D)
      /\ reports!MapThenSumSet(LAMBDA c : reports!Balance(charges[c]), C) = Sum(o, C)
  <2>1. reports!MapThenSumSet(LAMBDA c : reports!Balance(charges[c]), D) = Sum(o, D)
    BY <1>1, <1>2, ReportsOwed
  <2>2. reports!MapThenSumSet(LAMBDA c : reports!Balance(charges[c]), C) = Sum(o, C)
    BY <1>1, <1>2, ReportsOwed
  <2> QED
    BY <2>1, <2>2, Zenon
<1>7. reports!Money(S)["outstanding"] = Sum(o, S)
  BY <1>2, ReportsMoneyIs
<1> HIDE DEF o, Z
<1>8. Sum(o, S) = Sum(o, D) + Sum(o, Q)
  BY <1>1, <1>2, <1>3, SumSplit
<1> HIDE DEF Q
<1>9. Sum(o, Q) = Sum(o, C) + Sum(o, Z)
  BY <1>1, <1>2, <1>5, SumSplit DEF Z
<1>10. Sum(o, Z) = 0
  BY <1>2, <1>4, SumZero
<1>11. Sum(o, D) \in Int /\ Sum(o, C) \in Int
  <2>1. (\A c \in D : o[c] \in Int) /\ (\A c \in C : o[c] \in Int)
    BY <1>1, <1>3, <1>5
  <2>2. Sum(o, D) \in Int
    BY <1>2, <2>1, SumType
  <2>3. Sum(o, C) \in Int
    BY <1>2, <2>1, SumType
  <2> QED
    BY <2>2, <2>3
<1>12. Sum(o, D) = Sum(o, S) - Sum(o, C)
  BY <1>8, <1>9, <1>10, <1>11
<1> QED
  BY <1>6, <1>7, <1>12, Zenon

\* The ledger is what the reports collected and what they drop.
LEMMA ReportsDropped ==
    ASSUME ReportsBase, ReportsInv
    PROVE  reports!NetOf(DOMAIN ledger)
             = reports!Money(reports!Billable)["collected"] + reports!Money(Bill \ reports!Billable)["collected"]
<1> DEFINE p == ReportsPaid(charges)
           B == reports!Billable
           D == Bill \ B
<1>1. B \in SUBSET Bill /\ D \in SUBSET Bill /\ Bill \in SUBSET Bill
  BY DEF reports!Billable
<1>2. DOMAIN ledger \in SUBSET DOMAIN ledger
  OBVIOUS
<1> HIDE DEF B
<1>3. reports!NetOf(DOMAIN ledger) = Sum(ReportsSigned(ledger), DOMAIN ledger)
  BY <1>2, ReportsNetOf
<1>4. Sum(ReportsSigned(ledger), DOMAIN ledger) = Sum(p, Bill)
  BY DEF ReportsInv, ReportsBalanced
<1>5. IsFiniteSet(Bill) /\ IsFiniteSet(B) /\ IsFiniteSet(D)
  BY <1>1, ReportsFigures
<1>6. reports!Money(B)["collected"] = Sum(p, B) /\ reports!Money(D)["collected"] = Sum(p, D)
  <2>1. reports!Money(B)["collected"] = Sum(p, B)
    BY <1>1, <1>5, ReportsMoneyIs
  <2> HIDE DEF D
  <2>2. reports!Money(D)["collected"] = Sum(p, D)
    BY <1>1, <1>5, ReportsMoneyIs
  <2> QED
    BY <2>1, <2>2
<1>7. \A c \in Bill : p[c] \in Int
  <2> SUFFICES ASSUME NEW c \in Bill PROVE p[c] \in Int
    OBVIOUS
  <2>1. charges[c].paid \in Nat
    BY ReportsCharged
  <2> QED
    BY <2>1 DEF ReportsPaid
<1> HIDE DEF p
<1>8. Sum(p, Bill) = Sum(p, B) + Sum(p, D)
  BY <1>1, <1>5, <1>7, SumSplit
<1> QED
  BY <1>3, <1>4, <1>6, <1>8, Zenon DEF B

LEMMA ReportsMoneyAgree ==
    ASSUME ReportsBase, ReportsInv
    PROVE  reports!MoneyReportsAgree
<1> DEFINE every == [ReportsThis EXCEPT !.month = NoFilter]
           debts(S) == reports!MapThenSumSet(LAMBDA c : reports!Balance(charges[c]), S)
           month == reports!DashboardMoney.month
           overpaid == {c \in reports!ChargeQs(ReportsThis) : reports!Balance(charges[c]) < 0}
<1>1. \A p \in reports!Period : p.group = NoFilter =>
        /\ reports!MapThenSumSet(LAMBDA k : reports!CollectionDaily(p)[k], DOMAIN reports!CollectionDaily(p))
             = reports!MapThenSumSet(LAMBDA k : reports!CashierDaybook(p)[k], DOMAIN reports!CashierDaybook(p))
        /\ reports!MapThenSumSet(LAMBDA k : reports!CollectionDaily(p)[k], DOMAIN reports!CollectionDaily(p))
             = reports!MapThenSumSet(LAMBDA k : reports!StudentPayments(p)[k], DOMAIN reports!StudentPayments(p))
  BY ReportsTills, Zenon
<1>2. reports!DashboardMoney.today
        = IF Today \in DOMAIN reports!CollectionDaily(ReportsThis)
          THEN reports!CollectionDaily(ReportsThis)[Today] ELSE 0
  BY ReportsTodaysTill, Zenon
<1>3. month = reports!Money(ReportsMonth)
  BY DEF reports!DashboardMoney, ReportsMonth
<1>4. /\ reports!ChargeQs(ReportsThis) = ReportsMonth /\ reports!ChargeQs(every) = reports!Billable
      /\ ReportsMonth \in SUBSET Bill /\ reports!Billable \in SUBSET Bill
  BY ReportsEvery, Zenon
<1> HIDE DEF month
<1>5. \A column \in ReportsMoneyColumns :
        /\ reports!Column(reports!FinanceByGroup(ReportsThis), column) = month[column]
        /\ reports!Column(reports!FinanceBySubject(ReportsThis), column) = month[column]
        /\ reports!Column(reports!FinanceByGroup(ReportsThis), column)
             = reports!MapThenSumSet(LAMBDA g : reports!GroupMoney(g)[column], reports!Group)
  <2> TAKE column \in ReportsMoneyColumns
  <2>1. /\ reports!Column(reports!FinanceByGroup(ReportsThis), column) = reports!Money(ReportsMonth)[column]
        /\ reports!Column(reports!FinanceBySubject(ReportsThis), column) = reports!Money(ReportsMonth)[column]
    BY <1>4, ReportsFinances, Zenon
  <2>2. reports!MapThenSumSet(LAMBDA g : reports!GroupMoney(g)[column], reports!Group)
          = reports!Money(ReportsMonth)[column]
    BY ReportsGroupMoney
  <2> QED
    BY <1>3, <2>1, <2>2, Zenon
<1>6. month.expected = month.collected + month.outstanding
  <2>1. reports!Money(ReportsMonth)["expected"]
          = reports!Money(ReportsMonth)["collected"] + reports!Money(ReportsMonth)["outstanding"]
    BY <1>4, ReportsExpectedIs
  <2> QED
    BY <1>3, <2>1
<1>7. debts(reports!Outstanding(ReportsThis)) = month.outstanding - debts(overpaid)
  <2> DEFINE D == {c \in ReportsMonth : reports!Balance(charges[c]) > 0}
             C == {c \in ReportsMonth : reports!Balance(charges[c]) < 0}
  <2>1. reports!Outstanding(ReportsThis) = D /\ overpaid = C
    BY <1>4, Zenon DEF reports!Outstanding
  <2>2. D = {c \in ReportsMonth : reports!Balance(charges[c]) > 0}
    OBVIOUS
  <2>3. C = {c \in ReportsMonth : reports!Balance(charges[c]) < 0}
    OBVIOUS
  <2> HIDE DEF C, D, overpaid
  <2>4. debts(D) = reports!Money(ReportsMonth)["outstanding"] - debts(C)
    BY <1>4, <2>2, <2>3, ReportsDebts
  <2> QED
    BY <1>3, <2>1, <2>4, Zenon
<1>8. reports!NetOf(DOMAIN ledger) = reports!Column(reports!FinanceByGroup(every), "collected")
                                       + reports!Money(Bill \ reports!Billable).collected
  <2>1. "collected" \in ReportsMoneyColumns
    BY DEF ReportsMoneyColumns
  <2> HIDE DEF every
  <2>2. reports!Column(reports!FinanceByGroup(every), "collected") = reports!Money(reports!Billable)["collected"]
    BY <1>4, <2>1, ReportsFinances, Zenon
  <2>3. reports!NetOf(DOMAIN ledger)
          = reports!Money(reports!Billable)["collected"] + reports!Money(Bill \ reports!Billable)["collected"]
    BY ReportsDropped
  <2> QED
    BY <2>2, <2>3
<1> QED
  BY <1>1, <1>2, <1>5, <1>6, <1>7, <1>8, Zenon
     DEF reports!MoneyReportsAgree, ReportsThis, ReportsMoneyColumns, month

\* Reports and dashboards (apps/reports/queries.py): in every reachable
\* state a row nobody corrected is present, late or absent and one of these
\* only, the totals of the attendance reports agree for every filter, the
\* dashboards agree with the reports they summarise, and money is the same
\* on every screen and in the ledger.
THEOREM ReportsMatch ==
    ASSUME reports!ReportsAssumption
    PROVE  reports!Spec => []reports!ReportsAgree
<1>1. ReportsBase
  BY ReportsBased
<1>2. reports!Init => ReportsInv
  BY <1>1, ReportsStarts
<1>3. ReportsInv /\ [reports!Next]_reports!vars => ReportsInv'
  BY <1>1, ReportsSteps
<1>4. ReportsInv => reports!ReportsAgree
  <2> SUFFICES ASSUME ReportsInv PROVE reports!ReportsAgree
    OBVIOUS
  <2>1. reports!TypeOK
    BY ReportsTypes
  <2>2. reports!EveryRowCountsOnce
    BY ReportsRowsOnce
  <2>3. reports!AttendanceReportsAgree
    BY <1>1, ReportsAttendanceAgree
  <2>4. reports!DashboardsAgree
    BY <1>1, ReportsDashboardsAgree
  <2>5. reports!MoneyReportsAgree
    BY <1>1, ReportsMoneyAgree
  <2> QED
    BY <2>1, <2>2, <2>3, <2>4, <2>5, Zenon DEF reports!ReportsAgree
<1> QED
  BY <1>2, <1>3, <1>4, PTL DEF reports!Spec

-----------------------------------------------------------------------------
(* The center *)

LEMMA NumbersLast ==
    CenterSpec => /\ [](scene = "traffic") \/ [](scene # "traffic")
                  /\ [](scene = "reports") \/ [](scene # "reports")
<1>1. [CenterNext]_allVars =>
         /\ scene = "traffic" <=> (scene = "traffic")'
         /\ scene = "reports" <=> (scene = "reports")'
  BY DEF CenterNext, allVars
<1>2. /\ scene # "traffic" <=> ~(scene = "traffic")
      /\ scene # "reports" <=> ~(scene = "reports")
  OBVIOUS
<1> QED
  BY <1>1, <1>2, PTL DEF CenterSpec

LEMMA TrafficScene == CenterSpec /\ [](scene = "traffic") => traffic!Spec
<1>1. CenterInit /\ scene = "traffic" => traffic!Init
  BY DEF CenterInit
<1>2. scene = "traffic" /\ [CenterNext]_allVars => [traffic!Next]_(traffic!vars)
  BY DEF CenterNext, allVars, trafficVars, traffic!vars, traffic!history
<1> QED
  BY <1>1, <1>2, PTL DEF CenterSpec, traffic!Spec

LEMMA ReportsScene == CenterSpec /\ [](scene = "reports") => reports!Spec
<1>1. CenterInit /\ scene = "reports" => reports!Init
  BY DEF CenterInit
<1>2. scene = "reports" /\ [CenterNext]_allVars => [reports!Next]_(reports!vars)
  BY DEF CenterNext, allVars, reportsVars, reports!vars
<1> QED
  BY <1>1, <1>2, PTL DEF CenterSpec, reports!Spec

\* Every request is counted once and within its budget (Traffic), and the
\* reports of the center agree with each other (Reports), for any number of
\* clients, processes, threads, lessons, students and charges.
THEOREM CenterNumbers == CenterSpec => []NumbersHold
<1>1. (traffic!TrafficHolds \/ scene # "traffic") /\ (reports!ReportsAgree \/ scene # "reports") => NumbersHold
  BY DEF NumbersHold
<1> QED
  BY <1>1, CenterAssumption, NumbersLast, TrafficScene, ReportsScene, Metering, ReportsMatch, PTL
  DEF CenterAssumption
=============================================================================
