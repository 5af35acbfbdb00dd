--------------------------- MODULE ScheduleProofs ---------------------------
(***************************************************************************)
(* The schedule rules and the shifts of Shifts, for any values of the      *)
(* constants: the facts that are accumulated one shift after the other are *)
(* those of the definitions; what the requests write and leave, and what   *)
(* summaries read and answer.  The inductive invariant is said where it is *)
(* defined.                                                                *)
(***************************************************************************)
EXTENDS Shifts, FiniteSetTheorems, FunctionTheorems, WellFoundedInduction, TLAPS

(***************************************************************************)
(* Numbers and orders.                                                     *)
(***************************************************************************)

LEMMA LeastNatural ==
    ASSUME NEW S \in SUBSET Nat, S # {}
    PROVE  \E x \in S : \A y \in S : x <= y
  <1>1. PICK x \in S : \A y \in S : ~(<<y, x>> \in OpToRel(<, Nat))
    BY NatLessThanWellFounded, WFMin
  <1>2. \A y \in S : ~(y < x)
    BY <1>1 DEF OpToRel
  <1> QED
    BY <1>2

\* The greatest of numbers up to a bound.
LEMMA GreatestIs ==
    ASSUME NEW n \in Nat, NEW S \in SUBSET (0..n), S # {}
    PROVE  /\ Max(S) \in S
           /\ \A y \in S : y <= Max(S)
           /\ \A x \in S : (\A y \in S : y <= x) => Max(S) = x
  <1> DEFINE below == {n - x : x \in S}
  <1>1. below \in SUBSET Nat /\ below # {}
    <2>1. \A x \in S : n - x \in Nat
      OBVIOUS
    <2>2. PICK x : x \in S
      OBVIOUS
    <2>3. n - x \in below
      BY <2>2
    <2> QED
      BY <2>1, <2>3
  <1>2. PICK z \in below : \A y \in below : z <= y
    BY <1>1, LeastNatural
  <1>3. PICK x \in S : z = n - x
    OBVIOUS
  <1>4. \A y \in S : n - x <= n - y
    BY <1>2, <1>3
  <1>5. \A y \in S : x >= y
    BY <1>4
  <1>6. Max(S) \in S /\ \A y \in S : Max(S) >= y
    BY <1>5 DEF Max
  <1> HIDE DEF below
  <1>7. \A y \in S : y \in 0..n /\ y \in Int
    OBVIOUS
  <1>8. ASSUME NEW y \in S, \A z1 \in S : z1 <= y PROVE Max(S) = y
    <2>1. Max(S) <= y /\ Max(S) >= y
      BY <1>6, <1>8
    <2>2. Max(S) \in Int /\ y \in Int
      BY <1>6, <1>7
    <2> QED
      BY <2>1, <2>2
  <1> QED
    BY <1>6, <1>7, <1>8

\* Two functions of subsets are the same on none, and on every other subset if they are the
\* same without some element of it: two that loop over a set in the same order.
Agree(D, g, h) ==
    /\ g[{}] = h[{}]
    /\ \A s \in SUBSET D : s # {} => \E x \in s : g[s \ {x}] = h[s \ {x}] => g[s] = h[s]

\* Then they are the same on the whole set, if it is finite.
LEMMA SameOnSubsets ==
    ASSUME NEW D, IsFiniteSet(D), NEW g, NEW h, Agree(D, g, h)
    PROVE  g[D] = h[D]
  <1> DEFINE differ == {s \in SUBSET D : g[s] # h[s]}
             sizes == {Cardinality(s) : s \in differ}
  <1> SUFFICES ASSUME differ # {} PROVE FALSE
    OBVIOUS
  <1>0. /\ g[{}] = h[{}]
        /\ \A s \in SUBSET D : s # {} => \E x \in s : g[s \ {x}] = h[s \ {x}] => g[s] = h[s]
    BY DEF Agree
  <1>1. \A s \in SUBSET D : IsFiniteSet(s) /\ Cardinality(s) \in Nat
    BY FS_Subset, FS_CardinalityType
  <1>2. sizes \in SUBSET Nat /\ sizes # {}
    BY <1>1
  <1>3. PICK c \in sizes : \A y \in sizes : c <= y
    BY <1>2, LeastNatural
  <1>4. PICK s \in differ : c = Cardinality(s)
    OBVIOUS
  <1>5. PICK x \in s : g[s \ {x}] = h[s \ {x}] => g[s] = h[s]
    BY <1>0
  <1>6. Cardinality(s \ {x}) = c - 1
    BY <1>1, <1>4, <1>5, FS_RemoveElement
  <1>7. c \in Nat
    BY <1>1, <1>4
  <1>8. s \ {x} \notin differ
    BY <1>3, <1>6, <1>7
  <1> QED
    BY <1>4, <1>5, <1>8

\* Whatever the keys, a finite set can be put in the order of its keys.
LEMMA SortedIs ==
    ASSUME NEW S, IsFiniteSet(S), NEW k \in [S -> Int]
    PROVE  /\ Sorted(S, k) \in SetToSeqs(S)
           /\ \A i, j \in DOMAIN Sorted(S, k) : i < j => k[Sorted(S, k)[i]] <= k[Sorted(S, k)[j]]
  <1> DEFINE n == Cardinality(S)
  <1>1. n \in Nat /\ IsFiniteSet(1..n) /\ Cardinality(1..n) = n
    BY FS_CardinalityType, FS_Interval
  <1>2. PICK b \in Injection(S, 1..n) : TRUE
    <2>1. ExistsBijection(S, 1..n)
      BY <1>1, FS_SameCardinalityBij
    <2> QED
      BY <2>1 DEF ExistsBijection, Bijection
  <1>3. \A x \in S : b[x] \in Int
    BY <1>1, <1>2 DEF Injection
  <1>4. \A x, y \in S : x # y => b[x] # b[y]
    BY <1>2 DEF Injection, IsInjective
  <1> DEFINE before(x) == {y \in S : k[y] < k[x] \/ (k[y] = k[x] /\ b[y] < b[x])}
             rank == [x \in S |-> Cardinality(before(x)) + 1]
  <1> HIDE DEF n
  <1>5. ASSUME NEW x \in S
        PROVE  /\ rank[x] \in 1..n /\ rank[x] \in Nat
               /\ IsFiniteSet(before(x)) /\ Cardinality(before(x)) \in Nat
    <2>1. before(x) \in SUBSET (S \ {x})
      BY <1>3
    <2>2. IsFiniteSet(S \ {x}) /\ Cardinality(S \ {x}) = n - 1
      BY FS_RemoveElement DEF n
    <2>3. IsFiniteSet(before(x)) /\ Cardinality(before(x)) <= n - 1
      BY <2>1, <2>2, FS_Subset
    <2>4. Cardinality(before(x)) \in Nat
      BY <2>3, FS_CardinalityType
    <2> QED
      BY <1>1, <2>3, <2>4
  <1>6. ASSUME NEW x \in S, NEW y \in S, y \in before(x) PROVE rank[y] < rank[x]
    <2>1. before(y) \cup {y} \in SUBSET before(x) /\ y \notin before(y)
      BY <1>3, <1>6
    <2>2. Cardinality(before(y) \cup {y}) = Cardinality(before(y)) + 1
      BY <1>5, <2>1, FS_AddElement
    <2>3. Cardinality(before(y) \cup {y}) <= Cardinality(before(x))
      BY <1>5, <2>1, FS_Subset
    <2> QED
      BY <1>5, <2>2, <2>3
  <1>7. \A x, y \in S : x # y => x \in before(y) \/ y \in before(x)
    BY <1>3, <1>4
  <1> HIDE DEF rank
  <1>8. ASSUME NEW x \in S, NEW y \in S, x # y PROVE rank[x] # rank[y]
    <2>1. rank[x] \in Nat /\ rank[y] \in Nat
      BY <1>5
    <2>2. rank[x] < rank[y] \/ rank[y] < rank[x]
      BY <1>6, <1>7, <1>8
    <2> QED
      BY <2>1, <2>2
  <1>9. rank \in Surjection(S, 1..n)
    <2>1. rank \in [S -> 1..n]
      BY <1>5 DEF rank
    <2>2. rank \in Injection(S, 1..n)
      BY <1>8, <2>1 DEF Injection, IsInjective
    <2> QED
      BY <1>1, <2>2, FS_Injection DEF n
  <1> DEFINE f == [i \in 1..n |-> CHOOSE x \in S : rank[x] = i]
  <1>10. \A i \in 1..n : f[i] \in S /\ rank[f[i]] = i
    BY <1>9 DEF Surjection
  <1>11. f \in SetToSeqs(S)
    BY <1>10 DEF SetToSeqs, n
  <1>12. ASSUME NEW i \in 1..n, NEW j \in 1..n, i < j PROVE k[f[i]] <= k[f[j]]
    <2>1. f[i] \in S /\ f[j] \in S /\ f[i] # f[j] /\ ~(rank[f[j]] < rank[f[i]])
      BY <1>1, <1>10, <1>12
    <2>2. f[i] \in before(f[j])
      BY <1>6, <1>7, <2>1
    <2> QED
      BY <2>1, <2>2
  <1> DEFINE Fits(seq) == \A i, j \in DOMAIN seq : i < j => k[seq[i]] <= k[seq[j]]
  <1>13. Fits(f)
    BY <1>12
  <1>14. Sorted(S, k) = CHOOSE seq \in SetToSeqs(S) : Fits(seq)
    BY DEF Sorted
  <1> HIDE DEF Fits, f
  <1>15. Sorted(S, k) \in SetToSeqs(S) /\ Fits(Sorted(S, k))
    BY <1>11, <1>13, <1>14
  <1> QED
    BY <1>15 DEF Fits

-----------------------------------------------------------------------------
(***************************************************************************)
(* Totals, as numbers of pairs, and the amounts the code rounds.           *)
(***************************************************************************)

Pairs(T, f) == UNION {{i} \X (1..f[i]) : i \in T}

LEMMA PairsFinite ==
    ASSUME NEW T, IsFiniteSet(T), NEW f, \A i \in T : f[i] \in Nat
    PROVE  IsFiniteSet(Pairs(T, f)) /\ Cardinality(Pairs(T, f)) \in Nat
  <1> DEFINE rows == {{i} \X (1..f[i]) : i \in T}
             g == [i \in T |-> {i} \X (1..f[i])]
  <1>1. g \in Surjection(T, rows)
    BY DEF Surjection
  <1>2. IsFiniteSet(rows)
    BY <1>1, FS_Surjection
  <1>3. ASSUME NEW i \in T PROVE IsFiniteSet({i} \X (1..f[i]))
    <2>1. IsFiniteSet({i})
      BY FS_Singleton
    <2>2. f[i] \in Int /\ 1 \in Int
      OBVIOUS
    <2>3. IsFiniteSet(1..f[i])
      BY <2>2, FS_Interval
    <2> QED
      BY <2>1, <2>3, FS_Product
  <1>4. \A r \in rows : IsFiniteSet(r)
    BY <1>3
  <1>5. IsFiniteSet(UNION rows)
    BY <1>2, <1>4, FS_UNION
  <1> QED
    BY <1>5, FS_CardinalityType DEF Pairs

\* Another element adds its amount.
LEMMA PairsAdd ==
    ASSUME NEW T, IsFiniteSet(T), NEW x, x \notin T, NEW f, \A i \in T \cup {x} : f[i] \in Nat
    PROVE  Cardinality(Pairs(T \cup {x}, f)) = Cardinality(Pairs(T, f)) + f[x]
  <1> DEFINE new == {x} \X (1..f[x])
  <1>1. Pairs(T \cup {x}, f) = Pairs(T, f) \cup new
    BY DEF Pairs
  <1>2. Pairs(T, f) \cap new = {}
    BY DEF Pairs
  <1>3. IsFiniteSet(new) /\ Cardinality(new) = f[x]
    <2>1. IsFiniteSet({x}) /\ Cardinality({x}) = 1
      BY FS_Singleton
    <2>2. f[x] \in Nat /\ f[x] \in Int /\ 1 \in Int
      OBVIOUS
    <2>3. IsFiniteSet(1..f[x]) /\ Cardinality(1..f[x]) = IF 1 > f[x] THEN 0 ELSE f[x] - 1 + 1
      BY <2>2, FS_Interval
    <2>4. IsFiniteSet(new) /\ Cardinality(new) = 1 * Cardinality(1..f[x])
      BY <2>1, <2>3, FS_Product
    <2> QED
      BY <2>2, <2>3, <2>4
  <1>4. IsFiniteSet(Pairs(T, f)) /\ Cardinality(Pairs(T, f)) \in Nat
    BY PairsFinite
  <1> HIDE DEF new
  <1>5. Cardinality(Pairs(T, f) \cup new) = Cardinality(Pairs(T, f)) + f[x] - Cardinality({})
    BY <1>2, <1>3, <1>4, FS_Union
  <1>6. Cardinality({}) = 0
    BY FS_EmptySet
  <1>7. f[x] \in Nat
    OBVIOUS
  <1>8. \A m, n \in Nat : m + n - 0 = m + n
    OBVIOUS
  <1> QED
    BY <1>1, <1>4, <1>5, <1>6, <1>7, <1>8

\* Distinct multiples are that far apart, so that quotients are what they are.
LEMMA Multiples ==
    ASSUME NEW d \in Nat, NEW a \in Int, NEW b \in Int, a < b
    PROVE  d * a + d <= d * b
  <1>1. b - a - 1 \in Nat
    OBVIOUS
  <1>2. d * (b - a - 1) \in Nat
    BY <1>1
  <1>3. d * (b - a - 1) = d * b - d * a - d
    OBVIOUS
  <1> QED
    BY <1>2, <1>3

LEMMA Quotient ==
    ASSUME NEW a \in Int, NEW d \in Nat \ {0}
    PROVE  /\ (a \div d) \in Int
           /\ d * (a \div d) <= a /\ a < d * (a \div d) + d
           /\ \A q \in Int : d * q <= a /\ a < d * q + d => q = a \div d
  <1>1. (a \div d) \in Int /\ d * (a \div d) <= a /\ a < d * (a \div d) + d
    OBVIOUS
  <1>2. ASSUME NEW q \in Int, d * q <= a, a < d * q + d PROVE q = a \div d
    <2> DEFINE p == a \div d
    <2>1. p \in Int /\ d * p <= a /\ a < d * p + d
      BY <1>1
    <2> HIDE DEF p
    <2>2. ~(p < q)
      <3> SUFFICES ASSUME p < q PROVE FALSE
        OBVIOUS
      <3>1. d * p + d <= d * q
        BY <2>1, Multiples
      <3>2. d * p \in Int /\ d * q \in Int
        BY <2>1
      <3> QED
        BY <1>2, <2>1, <3>1, <3>2
    <2>3. ~(q < p)
      <3> SUFFICES ASSUME q < p PROVE FALSE
        OBVIOUS
      <3>1. d * q + d <= d * p
        BY <2>1, Multiples
      <3>2. d * p \in Int /\ d * q \in Int
        BY <2>1
      <3> QED
        BY <1>2, <2>1, <3>1, <3>2
    <2> QED
      BY <2>1, <2>2, <2>3 DEF p
  <1> QED
    BY <1>1, <1>2

\* What calculate_shift rounds half up is the nearest amount, and the higher of two.
LEMMA PayIs ==
    ASSUME NEW slots \in Nat, NEW cents \in Nat
    PROVE  /\ Nearest(slots, cents) = (2 * slots * cents + SlotsPerHour) \div (2 * SlotsPerHour)
           /\ Nearest(slots, cents) \in Nat
  <1> DEFINE exact == 2 * slots * cents
             d == 2 * SlotsPerHour
             q == (exact + SlotsPerHour) \div d
             Near(pay) == 2 * SlotsPerHour * pay - SlotsPerHour <= 2 * slots * cents
                            /\ 2 * slots * cents < 2 * SlotsPerHour * pay + SlotsPerHour
  <1>1. SlotsPerHour \in Nat \ {0} /\ d \in Nat \ {0} /\ slots * cents \in Nat /\ exact \in Nat
        /\ exact = 2 * (slots * cents)
    BY ScheduleAssumption
  <1>2. \A pay \in Int : d * pay \in Int /\ 2 * SlotsPerHour * pay = d * pay
    BY <1>1
  <1>3. /\ q \in Int /\ d * q <= exact + SlotsPerHour /\ exact + SlotsPerHour < d * q + d
        /\ \A p \in Int : d * p <= exact + SlotsPerHour /\ exact + SlotsPerHour < d * p + d => p = q
    <2>1. exact + SlotsPerHour \in Int
      BY <1>1
    <2> HIDE DEF exact, d
    <2> QED
      BY <1>1, <2>1, Quotient
  <1>4. \A pay \in Int :
            Near(pay) <=> d * pay <= exact + SlotsPerHour /\ exact + SlotsPerHour < d * pay + d
    <2> SUFFICES ASSUME NEW pay \in Int
                 PROVE  Near(pay) <=> /\ d * pay <= exact + SlotsPerHour
                                      /\ exact + SlotsPerHour < d * pay + d
      OBVIOUS
    <2>1. Near(pay) <=> d * pay - SlotsPerHour <= exact /\ exact < d * pay + SlotsPerHour
      BY <1>2
    <2>2. d = SlotsPerHour + SlotsPerHour /\ d * pay \in Int
      BY <1>1, <1>2
    <2> HIDE DEF exact, d, Near
    <2> QED
      BY <1>1, <2>1, <2>2
  <1>5. q \in 0..(slots * cents + 1)
    <2>1. ~(q < 0)
      <3> SUFFICES ASSUME q < 0 PROVE FALSE
        OBVIOUS
      <3>1. d * q + d <= d * 0
        BY <1>1, <1>3, Multiples
      <3>2. d * 0 = 0 /\ d * q \in Int
        BY <1>1, <1>2, <1>3
      <3> HIDE DEF exact, d, q
      <3> QED
        BY <1>1, <1>3, <3>1, <3>2
    <2>2. ~(slots * cents < q)
      <3> SUFFICES ASSUME slots * cents < q PROVE FALSE
        OBVIOUS
      <3> DEFINE sc == slots * cents
      <3>1. d * sc + d <= d * q
        BY <1>1, <1>3, Multiples
      <3>2. d * sc \in Int /\ d * q \in Int /\ d * sc >= 2 * sc
        <4>1. d * sc = 2 * (SlotsPerHour * sc) /\ SlotsPerHour * sc \in Int
          BY <1>1
        <4>2. SlotsPerHour * sc = sc + (SlotsPerHour - 1) * sc
          BY <1>1
        <4>3. (SlotsPerHour - 1) * sc \in Nat
          BY <1>1
        <4> QED
          BY <1>1, <1>2, <1>3, <4>1, <4>2, <4>3
      <3>3. d = SlotsPerHour + SlotsPerHour
        BY <1>1
      <3> HIDE DEF exact, d, q, sc
      <3> QED
        BY <1>1, <1>3, <3>1, <3>2, <3>3 DEF sc
    <2> HIDE DEF q
    <2> QED
      BY <1>1, <1>3, <2>1, <2>2
  <1>6. Near(q) /\ \A p \in 0..(slots * cents + 1) : Near(p) => p = q
    <2> HIDE DEF Near, q, exact, d
    <2> QED
      BY <1>1, <1>3, <1>4
  <1>7. Nearest(slots, cents) = q
    BY <1>5, <1>6 DEF Nearest
  <1> HIDE DEF q, Near, d, exact
  <1>8. q \in Nat
    BY <1>1, <1>5
  <1> QED
    BY <1>7, <1>8 DEF q, d, exact

\* The total of f over T, and over the elements of T of each key.
Tally(T, f) == Cardinality(Pairs(T, f))
Tallies(T, k, f) == [v \in {k[i] : i \in T} |-> Tally({i \in T : k[i] = v}, f)]

LEMMA TallyNone == \A f : Tally({}, f) = 0
  <1>1. \A f : Pairs({}, f) = {}
    BY DEF Pairs
  <1> QED
    BY <1>1, FS_EmptySet DEF Tally

LEMMA TallyNat ==
    ASSUME NEW T, IsFiniteSet(T), NEW f, \A i \in T : f[i] \in Nat
    PROVE  Tally(T, f) \in Nat
  BY PairsFinite DEF Tally

LEMMA TallyAdd ==
    ASSUME NEW T, IsFiniteSet(T), NEW x, x \notin T, NEW f, \A i \in T \cup {x} : f[i] \in Nat
    PROVE  Tally(T \cup {x}, f) = Tally(T, f) + f[x]
  BY PairsAdd DEF Tally

\* counts[key] = counts.get(key, 0) + amount.
LEMMA TalliesAdd ==
    ASSUME NEW T, IsFiniteSet(T), NEW x, x \notin T, NEW k, NEW f,
           \A i \in T \cup {x} : f[i] \in Nat
    PROVE  Tallies(T \cup {x}, k, f) = Plus(Tallies(T, k, f), k[x], f[x])
  <1> DEFINE old == Tallies(T, k, f)
             new == Tallies(T \cup {x}, k, f)
             plus == Plus(old, k[x], f[x])
             keys == {k[i] : i \in T}
             Of(v) == {i \in T : k[i] = v}
  <1>1. DOMAIN old = keys /\ \A v \in keys : old[v] = Tally(Of(v), f)
    BY DEF Tallies
  <1>2. {k[i] : i \in T \cup {x}} = keys \cup {k[x]}
    OBVIOUS
  <1>3. /\ new = [v \in keys \cup {k[x]} |-> Tally({i \in T \cup {x} : k[i] = v}, f)]
        /\ plus = [v \in keys \cup {k[x]} |->
                      (IF v \in keys THEN old[v] ELSE 0) + (IF v = k[x] THEN f[x] ELSE 0)]
    BY <1>1, <1>2 DEF Tallies, Plus
  <1>4. ASSUME NEW v
        PROVE  (IF v \in keys THEN old[v] ELSE 0) = Tally(Of(v), f) /\ Tally(Of(v), f) \in Nat
    <2>1. IsFiniteSet(Of(v)) /\ \A i \in Of(v) : f[i] \in Nat
      BY FS_Subset
    <2>2. v \notin keys => Of(v) = {}
      OBVIOUS
    <2> HIDE DEF Of, keys, old
    <2> QED
      BY <1>1, <2>1, <2>2, TallyNone, TallyNat
  <1>5. ASSUME NEW v
        PROVE  Tally({i \in T \cup {x} : k[i] = v}, f)
                   = Tally(Of(v), f) + (IF v = k[x] THEN f[x] ELSE 0)
    <2>1. CASE v = k[x]
      <3>1. {i \in T \cup {x} : k[i] = v} = Of(v) \cup {x}
        BY <2>1
      <3>2. IsFiniteSet(Of(v)) /\ x \notin Of(v) /\ \A i \in Of(v) \cup {x} : f[i] \in Nat
        BY FS_Subset
      <3> HIDE DEF Of
      <3>3. Tally(Of(v) \cup {x}, f) = Tally(Of(v), f) + f[x]
        BY <3>2, TallyAdd
      <3> QED
        BY <2>1, <3>1, <3>3
    <2>2. CASE v # k[x]
      <3>1. {i \in T \cup {x} : k[i] = v} = Of(v)
        BY <2>2
      <3> HIDE DEF Of
      <3>2. Tally(Of(v), f) \in Nat
        BY <1>4
      <3>3. Tally(Of(v), f) + 0 = Tally(Of(v), f)
        BY <3>2
      <3> QED
        BY <2>2, <3>1, <3>3
    <2> QED
      BY <2>1, <2>2
  <1> HIDE DEF keys, Of, old, new, plus
  <1> QED
    <2>1. \A v : (IF v \in keys THEN old[v] ELSE 0) + (IF v = k[x] THEN f[x] ELSE 0)
                    = Tally({i \in T \cup {x} : k[i] = v}, f)
      BY <1>4, <1>5
    <2>2. new = plus
      BY <1>3, <2>1, Zenon
    <2> QED
      BY <2>2 DEF old, new, plus

\* Counting is adding ones.
LEMMA TallyOnes ==
    ASSUME NEW T, IsFiniteSet(T), NEW f, \A i \in T : f[i] = 1
    PROVE  Tally(T, f) = Cardinality(T)
  <1>1. Pairs(T, f) = T \X {1}
    <2>1. 1..1 = {1}
      OBVIOUS
    <2> QED
      BY <2>1 DEF Pairs
  <1>2. IsFiniteSet({1}) /\ Cardinality({1}) = 1
    BY FS_Singleton
  <1>3. Cardinality(T \X {1}) = Cardinality(T) * 1 /\ Cardinality(T) \in Nat
    BY <1>2, FS_Product, FS_CardinalityType
  <1> QED
    BY <1>1, <1>3 DEF Tally

LEMMA Remainder ==
    ASSUME NEW a \in Int, NEW d \in Nat \ {0}
    PROVE  (a \div d) \in Int /\ a % d \in 0..(d - 1) /\ a = d * (a \div d) + (a % d)
  <1>1. a % d \in 0..(d - 1)
    OBVIOUS
  <1>2. (a \div d) \in Int
    OBVIOUS
  <1>3. a = d * (a \div d) + (a % d)
    OBVIOUS
  <1> QED
    BY <1>1, <1>2, <1>3

\* A date is in the week that starts on w.
LEMMA InWeek ==
    ASSUME NEW d \in Nat, NEW w \in Nat, w % DaysPerWeek = 0
    PROVE  d \in w..(w + DaysPerWeek - 1) <=> WeekOf(d) = w
  <1> DEFINE p == DaysPerWeek
  <1>1. p \in Nat \ {0}
    BY ScheduleAssumption
  <1> HIDE DEF p
  <1>2. w = p * (w \div p) /\ (w \div p) \in Int
    BY <1>1, Remainder DEF p
  <1>3. d = p * (d \div p) + (d % p) /\ d % p \in 0..(p - 1) /\ (d \div p) \in Int
    BY <1>1, Remainder
  <1>4. WeekOf(d) = p * (d \div p)
    BY <1>1, <1>3 DEF WeekOf, p
  <1>5. ASSUME d \in w..(w + p - 1) PROVE (w \div p) = (d \div p)
    <2>1. p * (w \div p) <= d /\ d < p * (w \div p) + p
      BY <1>1, <1>2, <1>5
    <2> HIDE DEF p
    <2> QED
      BY <1>1, <1>2, <2>1, Quotient
  <1>6. ASSUME WeekOf(d) = w PROVE d \in w..(w + p - 1)
    BY <1>1, <1>3, <1>4, <1>6
  <1> QED
    BY <1>2, <1>4, <1>5, <1>6 DEF p

LEMMA WeekStarts ==
    ASSUME NEW d \in Nat
    PROVE  WeekOf(d) \in Nat /\ WeekOf(d) % DaysPerWeek = 0
  <1> DEFINE p == DaysPerWeek
  <1>1. p \in Nat \ {0}
    BY ScheduleAssumption
  <1> HIDE DEF p
  <1>2. d = p * (d \div p) + (d % p) /\ d % p \in 0..(p - 1) /\ (d \div p) \in Int
    BY <1>1, Remainder
  <1>3. WeekOf(d) = p * (d \div p)
    BY <1>1, <1>2 DEF WeekOf, p
  <1>4. WeekOf(d) \in Nat
    BY <1>1, <1>2 DEF WeekOf, p
  <1>5. (p * (d \div p)) % p = 0
    <2> DEFINE q == d \div p
               m == p * q
    <2>1. q \in Int /\ m \in Int
      BY <1>1, <1>2
    <2> HIDE DEF q
    <2>2. p * q <= m /\ m < p * q + p
      BY <1>1, <2>1
    <2>3. q = m \div p
      BY <1>1, <2>1, <2>2, Quotient
    <2>4. m = p * (m \div p) + (m % p) /\ m % p \in 0..(p - 1)
      BY <1>1, <2>1, Remainder
    <2> QED
      BY <2>1, <2>3, <2>4 DEF q
  <1> QED
    BY <1>3, <1>4, <1>5 DEF p

-----------------------------------------------------------------------------
(***************************************************************************)
(* The facts that calculate_schedule_summary accumulates.                  *)
(***************************************************************************)

\* Rows that the rules allow, each of which one rate prices.
Priceable(row, ids, known) ==
    \A i \in ids : /\ WorkDate(row[i]) \in Nat
                   /\ PaidSlots(row[i]) \in Nat
                   /\ \E r : Applying(known, WorkDate(row[i])) = {r} /\ r.cents \in Nat

PaidBy(row, ids) == [i \in ids |-> PaidSlots(row[i])]
PayBy(row, ids, known) == [i \in ids |-> RoundedPay(row[i], known)]
TypeBy(row, ids) == [i \in ids |-> row[i].type]
WeekBy(row, ids) == [i \in ids |-> WeekOf(WorkDate(row[i]))]
OneBy(ids) == [i \in ids |-> 1]

\* The facts of some of the rows.
FactsAt(row, ids, known, T) ==
    [count |-> Cardinality(T),
     paid  |-> Tally(T, PaidBy(row, ids)),
     pay   |-> Tally(T, PayBy(row, ids, known)),
     types |-> Tallies(T, TypeBy(row, ids), OneBy(ids)),
     weeks |-> Tallies(T, WeekBy(row, ids), PaidBy(row, ids)),
     dates |-> {WorkDate(row[i]) : i \in T}]

\* The pay of a row is the cents nearest to it.
LEMMA RowPay ==
    ASSUME NEW ids, NEW row, NEW known, Priceable(row, ids, known), NEW i \in ids
    PROVE  /\ RoundedPay(row[i], known) \in Nat
           /\ PayOf(row[i], CHOOSE r \in Applying(known, WorkDate(row[i])) : TRUE)
                  = RoundedPay(row[i], known)
  <1> DEFINE slots == PaidSlots(row[i])
             applying == Applying(known, WorkDate(row[i]))
  <1>1. PICK r : applying = {r} /\ r.cents \in Nat
    BY DEF Priceable
  <1>2. slots \in Nat
    BY DEF Priceable
  <1>3. RoundedPay(row[i], known) = CHOOSE pay \in {Nearest(slots, s.cents) : s \in applying} : TRUE
    BY DEF RoundedPay
  <1> HIDE DEF applying
  <1>4. {Nearest(slots, s.cents) : s \in applying} = {Nearest(slots, r.cents)}
    BY <1>1
  <1>5. RoundedPay(row[i], known) = Nearest(slots, r.cents)
    BY <1>3, <1>4
  <1>6. (CHOOSE s \in applying : TRUE) = r
    BY <1>1
  <1> HIDE DEF slots
  <1>7. /\ Nearest(slots, r.cents) = (2 * slots * r.cents + SlotsPerHour) \div (2 * SlotsPerHour)
        /\ Nearest(slots, r.cents) \in Nat
    BY <1>1, <1>2, PayIs
  <1>8. PayOf(row[i], r) = Nearest(slots, r.cents)
    BY <1>7 DEF PayOf, slots
  <1> QED
    BY <1>5, <1>6, <1>7, <1>8 DEF applying

\* Adding a row to the facts of others gives the facts of all of them.
LEMMA AddRow ==
    ASSUME NEW ids, IsFiniteSet(ids), NEW row, NEW known, Priceable(row, ids, known),
           NEW T \in SUBSET ids, NEW x \in ids, x \notin T
    PROVE  FactsAt(row, ids, known, T \cup {x})
               = AddShift(FactsAt(row, ids, known, T), row[x], known)
  <1> DEFINE paid == PaidBy(row, ids)
             pay == PayBy(row, ids, known)
             old == FactsAt(row, ids, known, T)
             date == WorkDate(row[x])
             rate == CHOOSE r \in Applying(known, date) : TRUE
  <1>1. IsFiniteSet(T) /\ \A i \in T \cup {x} : i \in ids
    BY FS_Subset
  <1>2. \A i \in ids : paid[i] \in Nat /\ pay[i] \in Nat /\ OneBy(ids)[i] \in Nat
    BY RowPay DEF PaidBy, PayBy, OneBy, Priceable
  <1>0. \A i \in T \cup {x} : paid[i] \in Nat /\ pay[i] \in Nat /\ OneBy(ids)[i] \in Nat
    BY <1>1, <1>2
  <1>3. /\ paid[x] = PaidSlots(row[x]) /\ pay[x] = PayOf(row[x], rate) /\ OneBy(ids)[x] = 1
        /\ TypeBy(row, ids)[x] = row[x].type /\ WeekBy(row, ids)[x] = WeekOf(date)
    BY RowPay DEF PaidBy, PayBy, OneBy, TypeBy, WeekBy
  <1> HIDE DEF paid, pay, date, rate
  <1>4. Cardinality(T \cup {x}) = Cardinality(T) + 1
    BY <1>1, FS_AddElement
  <1>5. Tally(T \cup {x}, paid) = Tally(T, paid) + PaidSlots(row[x])
    <2>1. Tally(T \cup {x}, paid) = Tally(T, paid) + paid[x]
      BY <1>1, <1>0, TallyAdd
    <2> QED
      BY <1>3, <2>1
  <1>6. Tally(T \cup {x}, pay) = Tally(T, pay) + PayOf(row[x], rate)
    <2>1. Tally(T \cup {x}, pay) = Tally(T, pay) + pay[x]
      BY <1>1, <1>0, TallyAdd
    <2> QED
      BY <1>3, <2>1
  <1>7. Tallies(T \cup {x}, TypeBy(row, ids), OneBy(ids))
            = Plus(Tallies(T, TypeBy(row, ids), OneBy(ids)), row[x].type, 1)
    <2>1. Tallies(T \cup {x}, TypeBy(row, ids), OneBy(ids))
            = Plus(Tallies(T, TypeBy(row, ids), OneBy(ids)), TypeBy(row, ids)[x], OneBy(ids)[x])
      BY <1>1, <1>0, TalliesAdd
    <2> QED
      BY <1>3, <2>1
  <1>8. Tallies(T \cup {x}, WeekBy(row, ids), paid)
            = Plus(Tallies(T, WeekBy(row, ids), paid), WeekOf(date), PaidSlots(row[x]))
    <2>1. Tallies(T \cup {x}, WeekBy(row, ids), paid)
            = Plus(Tallies(T, WeekBy(row, ids), paid), WeekBy(row, ids)[x], paid[x])
      BY <1>1, <1>0, TalliesAdd
    <2> QED
      BY <1>3, <2>1
  <1>9. {WorkDate(row[i]) : i \in T \cup {x}} = {WorkDate(row[i]) : i \in T} \cup {date}
    BY DEF date
  <1>10. FactsAt(row, ids, known, T \cup {x}) =
            [count |-> Cardinality(T) + 1,
             paid  |-> Tally(T, paid) + PaidSlots(row[x]),
             pay   |-> Tally(T, pay) + PayOf(row[x], rate),
             types |-> Plus(Tallies(T, TypeBy(row, ids), OneBy(ids)), row[x].type, 1),
             weeks |-> Plus(Tallies(T, WeekBy(row, ids), paid), WeekOf(date), PaidSlots(row[x])),
             dates |-> {WorkDate(row[i]) : i \in T} \cup {date}]
    BY <1>4, <1>5, <1>6, <1>7, <1>8, <1>9 DEF FactsAt, paid, pay
  <1>11. /\ old.count = Cardinality(T) /\ old.paid = Tally(T, paid) /\ old.pay = Tally(T, pay)
         /\ old.types = Tallies(T, TypeBy(row, ids), OneBy(ids))
         /\ old.weeks = Tallies(T, WeekBy(row, ids), paid)
         /\ old.dates = {WorkDate(row[i]) : i \in T}
    BY DEF FactsAt, paid, pay
  <1> HIDE DEF old
  <1> QED
    BY <1>10, <1>11 DEF AddShift, old, date, rate

LEMMA NoRows ==
    ASSUME NEW ids, NEW row, NEW known
    PROVE  FactsAt(row, ids, known, {}) = NoFacts
  <1>1. \A k, f : Tallies({}, k, f) = <<>>
    BY DEF Tallies
  <1>2. {WorkDate(row[i]) : i \in {}} = {}
    OBVIOUS
  <1> QED
    BY <1>1, <1>2, TallyNone, FS_EmptySet DEF FactsAt, NoFacts

\* A finite set put in an order: every element is there, once.
LEMMA OrderIs ==
    ASSUME NEW S, IsFiniteSet(S), NEW order \in SetToSeqs(S)
    PROVE  /\ DOMAIN order = 1..Cardinality(S) /\ Cardinality(S) \in Nat
           /\ \A i \in DOMAIN order : order[i] \in S
           /\ \A i, j \in DOMAIN order : order[i] = order[j] => i = j
           /\ \A x \in S : \E i \in DOMAIN order : order[i] = x
           /\ IsFiniteSet(DOMAIN order)
  <1> DEFINE n == Cardinality(S)
  <1>1. n \in Nat /\ IsFiniteSet(1..n) /\ Cardinality(1..n) = n
    BY FS_CardinalityType, FS_Interval
  <1>2. order \in [1..n -> S] /\ \A i, j \in 1..n : i # j => order[i] # order[j]
    BY DEF SetToSeqs
  <1>3. order \in Injection(1..n, S)
    BY <1>2 DEF Injection, IsInjective
  <1>4. order \in Surjection(1..n, S)
    BY <1>1, <1>3, FS_Injection
  <1> QED
    BY <1>1, <1>2, <1>4 DEF Surjection

-----------------------------------------------------------------------------
(***************************************************************************)
(* The longest run of consecutive dates.                                   *)
(***************************************************************************)

\* The lengths of the runs of dates of E, and of those that end on p.
Runs(E) == {n \in 1..Cardinality(E) : \E d \in E : d..(d + n - 1) \subseteq E}
Ending(E, p) == {n \in 1..Cardinality(E) : (p - n + 1)..p \subseteq E}

\* What the count of consecutive dates is after those of E.
RunAt(E) ==
    IF E = {} THEN [longest |-> 0, current |-> 0, previous |-> 0]
    ELSE [longest |-> Max(Runs(E)), current |-> Max(Ending(E, Max(E))), previous |-> Max(E)]

\* A run is not longer than the set it is in, so that Runs and Ending have them all.
LEMMA RunFits ==
    ASSUME NEW E, IsFiniteSet(E), NEW d \in Int, NEW n \in Nat, d..(d + n - 1) \subseteq E
    PROVE  n <= Cardinality(E)
  <1>1. Cardinality(d..(d + n - 1)) = n
    <2>1. d + n - 1 \in Int
      OBVIOUS
    <2>2. Cardinality(d..(d + n - 1)) = IF d > d + n - 1 THEN 0 ELSE (d + n - 1) - d + 1
      BY <2>1, FS_Interval
    <2> QED
      BY <2>2
  <1> QED
    BY <1>1, FS_Subset

LEMMA RunsAre ==
    ASSUME NEW E \in SUBSET Nat, IsFiniteSet(E), NEW p \in E
    PROVE  /\ \A n \in Nat \ {0}, d \in Int : d..(d + n - 1) \subseteq E => n \in Runs(E)
           /\ \A n \in Nat \ {0} : (p - n + 1)..p \subseteq E => n \in Ending(E, p)
           /\ 1 \in Runs(E) /\ 1 \in Ending(E, p)
           /\ Cardinality(E) \in Nat
           /\ Runs(E) \subseteq 0..Cardinality(E) /\ Ending(E, p) \subseteq 0..Cardinality(E)
  <1>1. Cardinality(E) \in Nat
    BY FS_CardinalityType
  <1>2. ASSUME NEW n \in Nat \ {0}, NEW d \in Int, d..(d + n - 1) \subseteq E PROVE n \in Runs(E)
    <2>1. n <= Cardinality(E)
      BY <1>2, RunFits
    <2>2. d \in E
      BY <1>2
    <2> QED
      BY <1>1, <1>2, <2>1, <2>2 DEF Runs
  <1>3. ASSUME NEW n \in Nat \ {0}, (p - n + 1)..p \subseteq E PROVE n \in Ending(E, p)
    <2>1. p - n + 1 \in Int /\ (p - n + 1) + n - 1 = p
      OBVIOUS
    <2>2. (p - n + 1)..((p - n + 1) + n - 1) \subseteq E
      BY <1>3, <2>1
    <2> DEFINE d == p - n + 1
    <2> HIDE DEF d
    <2>3. n <= Cardinality(E)
      BY <2>1, <2>2, RunFits DEF d
    <2> QED
      BY <1>1, <1>3, <2>3 DEF Ending
  <1>4. 1 \in Runs(E)
    <2>1. p..(p + 1 - 1) \subseteq E /\ p \in Int /\ 1 \in Nat \ {0}
      OBVIOUS
    <2> HIDE DEF Runs
    <2> QED
      BY <1>2, <2>1
  <1>5. 1 \in Ending(E, p)
    <2>1. (p - 1 + 1)..p \subseteq E
      OBVIOUS
    <2> QED
      BY <1>3, <2>1
  <1>6. Runs(E) \subseteq 0..Cardinality(E) /\ Ending(E, p) \subseteq 0..Cardinality(E)
    BY <1>1 DEF Runs, Ending
  <1> QED
    BY <1>1, <1>2, <1>3, <1>4, <1>5, <1>6

\* The count goes on, or starts again after a date that is missing.
LEMMA NextRun ==
    ASSUME NEW E \in SUBSET Nat, IsFiniteSet(E), NEW d \in Nat, \A e \in E : e < d
    PROVE  RunAt(E \cup {d}) = NextDate(RunAt(E), d)
  <1> DEFINE new == E \cup {d}
             run == RunAt(E)
             current == IF run.longest > 0 /\ d - run.previous = 1 THEN run.current + 1 ELSE 1
             longest == IF current > run.longest THEN current ELSE run.longest
  <1>1. new \in SUBSET Nat /\ IsFiniteSet(new) /\ d \in new /\ new # {} /\ new \in SUBSET (0..d)
        /\ E \in SUBSET (0..d)
    BY FS_AddElement
  <1>2. Max(new) = d
    <2>1. \A y \in new : y <= d
      OBVIOUS
    <2> HIDE DEF new
    <2> QED
      BY <1>1, <2>1, GreatestIs
  <1>3. CASE E = {}
    <2>1. run = [longest |-> 0, current |-> 0, previous |-> 0]
      BY <1>3 DEF RunAt
    <2>2. NextDate(run, d) = [longest |-> 1, current |-> 1, previous |-> d]
      BY <2>1 DEF NextDate
    <2>3. Cardinality(new) = 1
      BY <1>3, FS_Singleton
    <2>4. Runs(new) = {1} /\ Ending(new, d) = {1}
      <3>1. 1 \in Runs(new) /\ 1 \in Ending(new, d)
        BY <1>1, RunsAre
      <3>2. Runs(new) \subseteq 1..1 /\ Ending(new, d) \subseteq 1..1
        BY <2>3 DEF Runs, Ending
      <3> QED
        BY <3>1, <3>2
    <2>5. Max({1}) = 1
      BY GreatestIs
    <2> QED
      BY <1>1, <1>2, <2>2, <2>4, <2>5 DEF RunAt
  <1>4. CASE E # {}
    <2> DEFINE p == Max(E)
    <2>1. p \in E /\ p \in Nat /\ p < d /\ \A e \in E : e <= p
      BY <1>1, <1>4, GreatestIs
    <2>2. run.longest = Max(Runs(E)) /\ run.current = Max(Ending(E, p)) /\ run.previous = p
      BY <1>4 DEF RunAt
    <2> HIDE DEF p, run
    <2> DEFINE L == Max(Runs(E))
               C == Max(Ending(E, p))
    <2>3. /\ L \in Runs(E) /\ L \in Nat /\ L >= 1 /\ \A n \in Runs(E) : n <= L
          /\ C \in Ending(E, p) /\ C \in Nat /\ C >= 1 /\ \A n \in Ending(E, p) : n <= C
      <3>1. /\ 1 \in Runs(E) /\ 1 \in Ending(E, p) /\ Cardinality(E) \in Nat
            /\ Runs(E) \in SUBSET (0..Cardinality(E)) /\ Ending(E, p) \in SUBSET (0..Cardinality(E))
        BY <2>1, RunsAre
      <3>2. L \in Runs(E) /\ \A n \in Runs(E) : n <= L
        BY <3>1, GreatestIs
      <3>3. C \in Ending(E, p) /\ \A n \in Ending(E, p) : n <= C
        BY <3>1, GreatestIs
      <3> QED
        BY <3>1, <3>2, <3>3
    <2>4. current = IF d - p = 1 THEN C + 1 ELSE 1
      BY <2>2, <2>3
    <2> HIDE DEF current, L, C
    <2>5. current \in Nat \ {0} /\ (d - current + 1)..d \subseteq new
      <3>1. CASE d - p = 1
        <4>1. (p - C + 1)..p \subseteq E
          BY <2>3 DEF Ending
        <4>2. \A e \in (d - (C + 1) + 1)..d : e \in (p - C + 1)..p \/ e = d
          BY <2>1, <2>3, <3>1
        <4> QED
          BY <2>3, <2>4, <3>1, <4>1, <4>2
      <3>2. CASE d - p # 1
        BY <2>4, <3>2
      <3> QED
        BY <3>1, <3>2
    <2>6. ASSUME NEW n \in Nat \ {0}, (d - n + 1)..d \subseteq new PROVE n <= current
      <3>1. CASE n = 1
        BY <2>3, <2>4, <3>1
      <3>2. CASE n # 1
        <4>1. d - 1 \in (d - n + 1)..d
          BY <3>2
        <4>2. d - 1 \in E
          BY <2>6, <4>1
        <4>3. d - p = 1
          BY <2>1, <4>2
        <4>4. n - 1 \in Nat \ {0}
          BY <3>2
        <4>5. (p - (n - 1) + 1)..p \subseteq E
          <5> SUFFICES ASSUME NEW e \in (p - (n - 1) + 1)..p PROVE e \in E
            OBVIOUS
          <5>1. e \in (d - n + 1)..d /\ e # d
            BY <2>1, <4>3
          <5> QED
            BY <2>6, <5>1
        <4>6. n - 1 \in Ending(E, p)
          BY <2>1, <4>4, <4>5, RunsAre
        <4>7. n - 1 <= C
          BY <2>3, <4>6
        <4> QED
          BY <2>3, <2>4, <4>3, <4>7
      <3> QED
        BY <3>1, <3>2
    <2>7. Max(Ending(new, d)) = current
      <3>1. /\ current \in Ending(new, d) /\ Cardinality(new) \in Nat
            /\ Ending(new, d) \in SUBSET (0..Cardinality(new))
        BY <1>1, <2>5, RunsAre
      <3>2. \A n \in Ending(new, d) : n <= current
        BY <2>6, <3>1 DEF Ending
      <3> HIDE DEF new
      <3> QED
        BY <3>1, <3>2, GreatestIs
    <2>8. longest \in Runs(new)
      <3>1. PICK e \in E : e..(e + L - 1) \subseteq E
        BY <2>3 DEF Runs
      <3>2. L \in Runs(new)
        <4>1. e \in Int /\ e..(e + L - 1) \subseteq new /\ L \in Nat \ {0}
          BY <1>1, <2>3, <3>1
        <4> HIDE DEF new
        <4> QED
          BY <1>1, <4>1, RunsAre
      <3>3. \E b \in Int : b..(b + current - 1) \subseteq new
        <4>1. d - current + 1 \in Int /\ (d - current + 1) + current - 1 = d
          BY <2>5
        <4> QED
          BY <2>5, <4>1
      <3>4. current \in Runs(new)
        BY <1>1, <2>5, <3>3, RunsAre
      <3> QED
        BY <2>2, <3>2, <3>4 DEF L
    <2>9. ASSUME NEW n \in Runs(new) PROVE n <= longest
      <3>1. PICK e \in new : e..(e + n - 1) \subseteq new
        BY DEF Runs
      <3>2. n \in Nat \ {0}
        BY <1>1, RunsAre DEF Runs
      <3>3. CASE d \in e..(e + n - 1)
        <4>1. e + n - 1 \in new
          BY <1>1, <3>1, <3>2
        <4>2. e + n - 1 = d
          BY <1>1, <3>2, <3>3, <4>1
        <4>3. d - n + 1 = e
          BY <1>1, <3>2, <4>2
        <4>4. n <= current
          BY <2>6, <3>1, <3>2, <4>2, <4>3
        <4> QED
          BY <2>2, <2>3, <2>5, <3>2, <4>4 DEF L
      <3>4. CASE d \notin e..(e + n - 1)
        <4>1. e..(e + n - 1) \subseteq E
          BY <3>1, <3>4
        <4>2. n \in Runs(E)
          <5>1. e \in Int
            BY <1>1
          <5> QED
            BY <2>1, <3>2, <4>1, <5>1, RunsAre
        <4> QED
          BY <2>2, <2>3, <2>5, <3>2, <4>2 DEF L
      <3> QED
        BY <3>3, <3>4
    <2>10. Max(Runs(new)) = longest
      <3>1. Cardinality(new) \in Nat /\ Runs(new) \in SUBSET (0..Cardinality(new))
        BY <1>1, RunsAre
      <3> HIDE DEF new, longest
      <3> QED
        BY <2>8, <2>9, <3>1, GreatestIs
    <2>11. NextDate(run, d) = [longest |-> longest, current |-> current, previous |-> d]
      BY DEF NextDate, current
    <2>12. RunAt(new) = [longest |-> longest, current |-> current, previous |-> d]
      <3> HIDE DEF new, longest
      <3> QED
        BY <1>1, <1>2, <2>7, <2>10 DEF RunAt
    <2> QED
      BY <2>11, <2>12 DEF run
  <1> QED
    BY <1>3, <1>4

\* _longest_consecutive_run finds the longest run.
LEMMA LongestRunIs ==
    ASSUME NEW E \in SUBSET Nat, IsFiniteSet(E)
    PROVE  LongestRun(E) = RunAt(E).longest
  <1> DEFINE key == [date \in E |-> date]
             order == Sorted(E, key)
  <1>1. order \in SetToSeqs(E) /\ \A i, j \in DOMAIN order : i < j => order[i] <= order[j]
    <2>1. key \in [E -> Int]
      OBVIOUS
    <2> HIDE DEF key
    <2>2. order \in SetToSeqs(E) /\ \A i, j \in DOMAIN order : i < j => key[order[i]] <= key[order[j]]
      BY <2>1, SortedIs
    <2> HIDE DEF order
    <2>3. \A i \in DOMAIN order : order[i] \in E
      BY <2>2, OrderIs
    <2> QED
      BY <2>2, <2>3 DEF key
  <1> DEFINE longestRun == FoldLeft(NextDate, [longest |-> 0, current |-> 0, previous |-> 0], order)
  <1>2. LongestRun(E) = longestRun.longest
    BY DEF LongestRun
  <1> HIDE DEF order
  <1> DEFINE D == DOMAIN order
             n == Cardinality(E)
             At(s) == {order[i] : i \in s}
             zero == [longest |-> 0, current |-> 0, previous |-> 0]
             Latest(s) == Max(s)
             G == [s \in SUBSET D |-> RunAt(At(s))]
             Loop(g) == [s \in SUBSET D |->
                            IF s = {} THEN zero ELSE NextDate(g[s \ {Latest(s)}], order[Latest(s)])]
             it == CHOOSE g : g = Loop(g)
  <1>3. /\ D = 1..n /\ n \in Nat /\ \A i \in D : order[i] \in E
        /\ \A i, j \in D : order[i] = order[j] => i = j
        /\ \A e \in E : \E i \in D : order[i] = e
        /\ IsFiniteSet(D)
    BY <1>1, OrderIs
  <1>4. longestRun = it[D]
    BY DEF FoldLeft, MapThenFoldSet
  <1> HIDE DEF longestRun, n, D
  <1>5. ASSUME NEW s \in SUBSET D, s # {}
        PROVE  /\ Latest(s) \in s
               /\ RunAt(At(s)) = NextDate(RunAt(At(s \ {Latest(s)})), order[Latest(s)])
    <2> DEFINE x == Latest(s)
    <2>1. s \in SUBSET (0..n)
      BY <1>3
    <2>2. x \in s /\ \A y \in s : y <= x
      BY <1>3, <1>5, <2>1, GreatestIs
    <2> HIDE DEF x
    <2>3. At(s) = At(s \ {x}) \cup {order[x]}
      BY <2>2
    <2>4. ASSUME NEW y \in s \ {x} PROVE order[y] < order[x]
      <3>1. y \in D /\ x \in D /\ y < x
        BY <1>3, <2>1, <2>2
      <3>2. order[y] <= order[x] /\ order[y] # order[x] /\ order[y] \in Nat /\ order[x] \in Nat
        BY <1>1, <1>3, <3>1 DEF D
      <3> QED
        BY <3>2
    <2>5. At(s \ {x}) \in SUBSET E /\ order[x] \in Nat
      BY <1>3, <2>2
    <2>6. /\ At(s \ {x}) \in SUBSET Nat /\ IsFiniteSet(At(s \ {x}))
          /\ \A e \in At(s \ {x}) : e < order[x]
      BY <2>4, <2>5, FS_Subset
    <2> HIDE DEF At
    <2>7. RunAt(At(s \ {x}) \cup {order[x]}) = NextDate(RunAt(At(s \ {x})), order[x])
      BY <2>5, <2>6, NextRun
    <2> QED
      BY <2>2, <2>3, <2>7 DEF x
  <1>6. RunAt(At({})) = zero
    BY DEF RunAt
  <1> HIDE DEF At, zero, Latest
  <1>7. G = Loop(G)
    <2>1. ASSUME NEW s \in SUBSET D
          PROVE  G[s] = IF s = {} THEN zero ELSE NextDate(G[s \ {Latest(s)}], order[Latest(s)])
      BY <1>5, <1>6
    <2> QED
      BY <2>1
  <1>8. it = Loop(it)
    <2> HIDE DEF G, Loop
    <2> QED
      BY <1>7
  <1> HIDE DEF it
  <1>9. it[{}] = G[{}]
    BY <1>6, <1>8
  <1>10. ASSUME NEW s \in SUBSET D, s # {}
         PROVE  \E x \in s : it[s \ {x}] = G[s \ {x}] => it[s] = G[s]
    <2>1. Latest(s) \in s /\ s \ {Latest(s)} \in SUBSET D
      BY <1>5, <1>10
    <2>2. it[s] = NextDate(it[s \ {Latest(s)}], order[Latest(s)])
      BY <1>8, <1>10
    <2>3. G[s] = NextDate(G[s \ {Latest(s)}], order[Latest(s)])
      BY <1>5, <1>10, <2>1
    <2> QED
      BY <2>1, <2>2, <2>3
  <1>11. it[D] = G[D]
    <2> HIDE DEF G
    <2>1. Agree(D, it, G)
      BY <1>9, <1>10 DEF Agree
    <2> QED
      BY <1>3, <2>1, SameOnSubsets
  <1>12. At(D) = E
    <2>1. At(D) \subseteq E
      BY <1>3 DEF At
    <2>2. E \subseteq At(D)
      BY <1>3 DEF At
    <2> QED
      BY <2>1, <2>2
  <1> QED
    BY <1>2, <1>4, <1>11, <1>12

-----------------------------------------------------------------------------
(***************************************************************************)
(* The loop over the rows of a summary.                                    *)
(***************************************************************************)

\* calculate_schedule_summary, one row after the other, gives the facts of all rows.
LEMMA FoldedFacts ==
    ASSUME NEW ids, IsFiniteSet(ids), NEW row, NEW known, Priceable(row, ids, known),
           NEW order \in SetToSeqs(ids)
    PROVE  LET facts == FactsAt(row, ids, known, ids)
           IN  FactsOf([i \in DOMAIN order |-> row[order[i]]], known) =
                   [count |-> facts.count, paid |-> facts.paid, pay |-> facts.pay,
                    types |-> facts.types, weeks |-> facts.weeks, longest |-> LongestRun(facts.dates)]
  <1> DEFINE rows == [i \in DOMAIN order |-> row[order[i]]]
             sum == FoldLeft(LAMBDA facts, r : AddShift(facts, r, known), NoFacts, rows)
  <1>1. FactsOf(rows, known) =
            [count |-> sum.count, paid |-> sum.paid, pay |-> sum.pay, types |-> sum.types,
             weeks |-> sum.weeks, longest |-> LongestRun(sum.dates)]
    BY DEF FactsOf
  <1> DEFINE D == DOMAIN order
             n == Cardinality(ids)
             At(s) == {order[i] : i \in s}
             Latest(s) == Max(s)
             G == [s \in SUBSET D |-> FactsAt(row, ids, known, At(s))]
             Loop(g) == [s \in SUBSET D |->
                            IF s = {} THEN NoFacts ELSE AddShift(g[s \ {Latest(s)}], rows[Latest(s)], known)]
             it == CHOOSE g : g = Loop(g)
  <1>2. /\ D = 1..n /\ n \in Nat /\ \A i \in D : order[i] \in ids
        /\ \A i, j \in D : order[i] = order[j] => i = j
        /\ \A e \in ids : \E i \in D : order[i] = e
        /\ IsFiniteSet(D)
    BY OrderIs
  <1>3. DOMAIN rows = D /\ \A i \in D : rows[i] = row[order[i]]
    OBVIOUS
  <1> HIDE DEF rows, D
  <1>4. sum = it[D]
    BY <1>3 DEF FoldLeft, MapThenFoldSet
  <1> HIDE DEF sum, n
  <1>5. ASSUME NEW s \in SUBSET D, s # {}
        PROVE  /\ Latest(s) \in s
               /\ FactsAt(row, ids, known, At(s))
                      = AddShift(FactsAt(row, ids, known, At(s \ {Latest(s)})), rows[Latest(s)], known)
    <2> DEFINE x == Latest(s)
    <2>1. s \in SUBSET (0..n)
      BY <1>2
    <2>2. x \in s
      BY <1>2, <1>5, <2>1, GreatestIs
    <2> HIDE DEF x
    <2>3. At(s) = At(s \ {x}) \cup {order[x]}
      BY <2>2
    <2>4. order[x] \in ids /\ order[x] \notin At(s \ {x}) /\ At(s \ {x}) \in SUBSET ids
      BY <1>2, <2>2
    <2> DEFINE T == At(s \ {x})
               y == order[x]
    <2> HIDE DEF At, T, y
    <2>5. T \in SUBSET ids /\ y \in ids /\ y \notin T
      BY <2>4 DEF T, y
    <2>6. FactsAt(row, ids, known, T \cup {y}) = AddShift(FactsAt(row, ids, known, T), row[y], known)
      BY <2>5, AddRow
    <2> QED
      BY <1>3, <2>2, <2>3, <2>6 DEF x, T, y
  <1>6. FactsAt(row, ids, known, At({})) = NoFacts
    <2>1. At({}) = {}
      OBVIOUS
    <2> QED
      BY <2>1, NoRows
  <1> HIDE DEF At, Latest
  <1>7. G = Loop(G)
    <2>1. ASSUME NEW s \in SUBSET D
          PROVE  G[s] = IF s = {} THEN NoFacts ELSE AddShift(G[s \ {Latest(s)}], rows[Latest(s)], known)
      BY <1>5, <1>6
    <2> QED
      BY <2>1
  <1>8. it = Loop(it)
    <2> HIDE DEF G, Loop
    <2> QED
      BY <1>7
  <1> HIDE DEF it
  <1>9. it[{}] = G[{}]
    BY <1>6, <1>8
  <1>10. ASSUME NEW s \in SUBSET D, s # {}
         PROVE  \E x \in s : it[s \ {x}] = G[s \ {x}] => it[s] = G[s]
    <2>1. Latest(s) \in s /\ s \ {Latest(s)} \in SUBSET D
      BY <1>5, <1>10
    <2>2. it[s] = AddShift(it[s \ {Latest(s)}], rows[Latest(s)], known)
      BY <1>8, <1>10
    <2>3. G[s] = AddShift(G[s \ {Latest(s)}], rows[Latest(s)], known)
      BY <1>5, <1>10, <2>1
    <2> QED
      BY <2>1, <2>2, <2>3
  <1>11. it[D] = G[D]
    <2> HIDE DEF G
    <2>1. Agree(D, it, G)
      BY <1>9, <1>10 DEF Agree
    <2> QED
      BY <1>2, <2>1, SameOnSubsets
  <1>12. At(D) = ids
    BY <1>2 DEF At
  <1>13. sum = FactsAt(row, ids, known, ids)
    BY <1>4, <1>11, <1>12
  <1> QED
    BY <1>1, <1>13 DEF rows

\* One shift after the other, in their order, or all at once: the facts are the same.
LEMMA FactsAreReference ==
    ASSUME NEW ids, IsFiniteSet(ids), NEW row, NEW known, Priceable(row, ids, known),
           \A i \in ids : row[i].start \in Int
    PROVE  FactsOf(InOrder(row, ids), known) = Reference(row, ids, known)
  <1> DEFINE start == [i \in ids |-> row[i].start]
             order == Sorted(ids, start)
             all == FactsAt(row, ids, known, ids)
             paid == PaidBy(row, ids)
             dates == {WorkDate(row[i]) : i \in ids}
  <1>1. order \in SetToSeqs(ids)
    <2>1. start \in [ids -> Int]
      OBVIOUS
    <2> HIDE DEF start
    <2> QED
      BY <2>1, SortedIs
  <1>2. InOrder(row, ids) = [i \in DOMAIN order |-> row[order[i]]]
    BY DEF InOrder
  <1> HIDE DEF order
  <1>3. FactsOf(InOrder(row, ids), known) =
            [count |-> all.count, paid |-> all.paid, pay |-> all.pay, types |-> all.types,
             weeks |-> all.weeks, longest |-> LongestRun(all.dates)]
    BY <1>1, <1>2, FoldedFacts
  <1>4. /\ all.count = Cardinality(ids) /\ all.paid = Tally(ids, paid)
        /\ all.pay = Tally(ids, PayBy(row, ids, known))
        /\ all.types = Tallies(ids, TypeBy(row, ids), OneBy(ids))
        /\ all.weeks = Tallies(ids, WeekBy(row, ids), paid)
        /\ all.dates = dates
    BY DEF FactsAt
  <1> HIDE DEF all, dates
  <1>5. Total(ids, LAMBDA i : PaidSlots(row[i])) = Tally(ids, paid)
    BY DEF Total, Tally, Pairs, PaidBy
  <1>6. Total(ids, LAMBDA i : RoundedPay(row[i], known)) = Tally(ids, PayBy(row, ids, known))
    BY DEF Total, Tally, Pairs, PayBy
  <1>7. [t \in {row[i].type : i \in ids} |-> Cardinality({i \in ids : row[i].type = t})]
            = Tallies(ids, TypeBy(row, ids), OneBy(ids))
    <2> DEFINE types == {row[i].type : i \in ids}
               Of(t) == {i \in ids : row[i].type = t}
    <2>1. types = {TypeBy(row, ids)[i] : i \in ids}
      BY DEF TypeBy
    <2>2. \A t : Of(t) = {i \in ids : TypeBy(row, ids)[i] = t}
      BY DEF TypeBy
    <2>3. ASSUME NEW t PROVE Tally(Of(t), OneBy(ids)) = Cardinality(Of(t))
      <3>1. IsFiniteSet(Of(t)) /\ \A i \in Of(t) : OneBy(ids)[i] = 1
        BY FS_Subset DEF OneBy
      <3> HIDE DEF Of
      <3> QED
        BY <3>1, TallyOnes
    <2> HIDE DEF types, Of
    <2>4. Tallies(ids, TypeBy(row, ids), OneBy(ids)) = [t \in types |-> Tally(Of(t), OneBy(ids))]
      BY <2>1, <2>2 DEF Tallies
    <2> QED
      BY <2>3, <2>4 DEF types, Of
  <1>8. [w \in {WeekOf(d) : d \in dates} |->
            Total({i \in ids : WorkDate(row[i]) \in w..(w + DaysPerWeek - 1)}, LAMBDA i : PaidSlots(row[i]))]
            = Tallies(ids, WeekBy(row, ids), paid)
    <2> DEFINE weeks == {WeekOf(d) : d \in dates}
               Of(w) == {i \in ids : WeekOf(WorkDate(row[i])) = w}
               In(w) == {i \in ids : WorkDate(row[i]) \in w..(w + DaysPerWeek - 1)}
    <2>1. weeks = {WeekBy(row, ids)[i] : i \in ids}
      BY DEF WeekBy, dates
    <2>2. \A w : Of(w) = {i \in ids : WeekBy(row, ids)[i] = w}
      BY DEF WeekBy
    <2>3. ASSUME NEW w \in weeks PROVE In(w) = Of(w)
      <3>1. \A i \in ids : WorkDate(row[i]) \in Nat
        BY DEF Priceable
      <3>2. w \in Nat /\ w % DaysPerWeek = 0
        BY <3>1, WeekStarts DEF dates
      <3>3. \A i \in ids : WorkDate(row[i]) \in w..(w + DaysPerWeek - 1) <=> WeekOf(WorkDate(row[i])) = w
        BY <3>1, <3>2, InWeek
      <3> QED
        BY <3>3
    <2>4. ASSUME NEW w PROVE Total(Of(w), LAMBDA i : PaidSlots(row[i])) = Tally(Of(w), paid)
      <3>1. \A i \in Of(w) : i \in ids
        OBVIOUS
      <3> HIDE DEF Of
      <3> QED
        BY <3>1 DEF Total, Tally, Pairs, PaidBy
    <2>5. ASSUME NEW w \in weeks PROVE Total(In(w), LAMBDA i : PaidSlots(row[i])) = Tally(Of(w), paid)
      <3> HIDE DEF Of, In
      <3> QED
        BY <2>3, <2>4
    <2>6. [w \in weeks |-> Total(In(w), LAMBDA i : PaidSlots(row[i]))] = [w \in weeks |-> Tally(Of(w), paid)]
      <3> HIDE DEF weeks, Of, In
      <3> QED
        BY <2>5
    <2>7. Tallies(ids, WeekBy(row, ids), paid) = [w \in weeks |-> Tally(Of(w), paid)]
      <3> HIDE DEF weeks, Of
      <3> QED
        BY <2>1, <2>2 DEF Tallies
    <2> QED
      BY <2>6, <2>7
  <1>9. LongestRun(dates) = IF ids = {} THEN 0 ELSE Max(Runs(dates))
    <2>1. dates \in SUBSET Nat
      BY DEF dates, Priceable
    <2>2. IsFiniteSet(dates)
      <3> DEFINE f == [i \in ids |-> WorkDate(row[i])]
      <3>1. f \in Surjection(ids, dates)
        BY DEF Surjection, dates
      <3> QED
        BY <3>1, FS_Surjection
    <2>3. dates = {} <=> ids = {}
      BY DEF dates
    <2> QED
      BY <2>1, <2>2, <2>3, LongestRunIs DEF RunAt
  <1>10. Reference(row, ids, known) =
            [count |-> Cardinality(ids), paid |-> Tally(ids, paid),
             pay |-> Tally(ids, PayBy(row, ids, known)),
             types |-> Tallies(ids, TypeBy(row, ids), OneBy(ids)),
             weeks |-> Tallies(ids, WeekBy(row, ids), paid),
             longest |-> IF ids = {} THEN 0 ELSE Max(Runs(dates))]
    BY <1>5, <1>6, <1>7, <1>8 DEF Reference, Runs, dates
  <1> QED
    BY <1>3, <1>4, <1>9, <1>10

-----------------------------------------------------------------------------
(***************************************************************************)
(* Shifts.                                                                 *)
(***************************************************************************)

Pending(w) == request[w].at \in {"insert", "update", "delete"}

\* A row is written by one transaction at a time.
OneWriter ==
    \A v, w \in Writers :
        Pending(v) /\ Pending(w) /\ request[v].id = request[w].id => v = w

\* What is about to be written is a shift, of a PATCH that which it merged.
Wellformed(row) == ValidTimes(row) /\ row.date = WorkDate(row)
WritesAreShifts ==
    \A w \in Writers : request[w].at \in {"insert", "update"} => Wellformed(request[w].row)
UpdatesAreMerged ==
    \A w \in Writers :
        request[w].at = "update" => request[w].row = Merged(request[w].body, request[w].read)

DeletesAreGone ==
    \A w \in Writers : request[w].at = "delete" => request[w].row = Gone

\* A PATCH is alone as long as the row is what it has read.
AloneIsCurrent ==
    \A w \in Writers :
        request[w].at \in {"read", "update"} /\ request[w].alone =>
            shifts[request[w].id] = request[w].read

Contents == RowsAreShifts /\ WritesAreShifts /\ UpdatesAreMerged /\ DeletesAreGone
                /\ AloneIsCurrent

IInv == TypeOK /\ OneWriter /\ Contents

-----------------------------------------------------------------------------

\* A row is neither of the two values that stand for no row.
LEMMA RowIsThere == \A row \in Row : row # NoRow /\ row # Gone
  BY DEF Row, NoRow, Gone

LEMMA StoredIsRow ==
    ASSUME NEW body \in Body
    PROVE  Stored(body) \in Row /\ Stored(body).date = WorkDate(Stored(body))
  BY ScheduleAssumption DEF Body, Stored, Row, WorkDate

LEMMA MergedIsRow ==
    ASSUME NEW body \in Patch, NEW row \in Row
    PROVE  /\ Merged(body, row) \in Row
           /\ Merged(body, row).date = WorkDate(Merged(body, row))
  BY ScheduleAssumption DEF Patch, Merged, Sent, Stored, Row, WorkDate

LEMMA InitIInv == Init => IInv
  BY DEF Init, IInv, TypeOK, OneWriter, Contents, RowsAreShifts, WritesAreShifts,
         UpdatesAreMerged, DeletesAreGone, AloneIsCurrent, Pending, Exists, Idle, NoRow

-----------------------------------------------------------------------------

Updating == [at: {"update"}, id: Ids, row: Row, body: Patches, read: Row, alone: BOOLEAN]
Changing == [at: {"insert", "delete"}, id: Ids, row: Row \cup {Gone}]

\* Where a request is says which of the records it is.
LEMMA RequestOf ==
    ASSUME TypeOK, NEW w \in Writers
    PROVE  /\ request[w].at \in {"idle", "read", "insert", "delete", "update"}
           /\ request[w].at = "read" => request[w] \in Merging
           /\ request[w].at = "update" => request[w] \in Updating
           /\ request[w].at \in {"insert", "delete"} => request[w] \in Changing
           /\ request[w].at = "idle" <=> request[w] = Idle
  <1>1. request[w] \in {Idle} \cup Merging \cup Changing \cup Updating
    BY DEF TypeOK, Writing, Changing, Updating
  <1>2. \A q \in Merging : q.at = "read"
    BY DEF Merging
  <1>3. \A q \in Changing : q.at \in {"insert", "delete"}
    BY DEF Changing
  <1>4. \A q \in Updating : q.at = "update"
    BY DEF Updating
  <1>5. Idle.at = "idle"
    BY DEF Idle
  <1> QED
    BY <1>1, <1>2, <1>3, <1>4, <1>5

\* A step of a writer that puts the request into a record of the right kind.
LEMMA Stepped ==
    ASSUME TypeOK, NEW w \in Writers, NEW next \in {Idle} \cup Merging \cup Changing \cup Updating,
           Step(w, next)
    PROVE  /\ request' \in [Writers -> {Idle} \cup Merging \cup Writing]
           /\ request'[w] = next
           /\ \A v \in Writers \ {w} : request'[v] = request[v]
  <1>1. next \in {Idle} \cup Merging \cup Writing
    BY DEF Writing, Changing, Updating
  <1> QED
    BY <1>1 DEF TypeOK, Step

\* What the requests that write come to.
LEMMA CreatedShift ==
    ASSUME TypeOK, NEW w \in Writers, NEW i \in Ids, CreateShift(w, i)
    PROVE  \E next \in Changing :
             /\ Step(w, next) /\ next.at = "insert" /\ next.id = i
             /\ Wellformed(next.row)
  <1>1. PICK body \in Creates : ValidTimes(body)
               /\ Step(w, [at |-> "insert", id |-> i, row |-> Stored(body)])
    BY DEF CreateShift
  <1>2. body \in Body
    BY ShiftsAssumption
  <1>3. Stored(body) \in Row /\ Wellformed(Stored(body))
    <2>1. ValidTimes(Stored(body))
      BY <1>1 DEF Stored, ValidTimes
    <2> QED
      BY <1>2, <2>1, StoredIsRow DEF Wellformed
  <1>4. [at |-> "insert", id |-> i, row |-> Stored(body)] \in Changing
    BY <1>3 DEF Changing
  <1> QED
    BY <1>1, <1>3, <1>4

LEMMA ReadsShift ==
    ASSUME TypeOK, NEW w \in Writers, NEW i \in Ids, ReadShift(w, i)
    PROVE  \E next \in Merging :
             /\ Step(w, next) /\ next.at = "read" /\ next.id = i /\ next.read = shifts[i]
  <1>1. PICK body \in Patches :
          Step(w, [at |-> "read", id |-> i, body |-> body, read |-> shifts[i], alone |-> TRUE])
    BY DEF ReadShift
  <1>2. shifts[i] \in Row
    BY DEF ReadShift, Exists, TypeOK
  <1>3. [at |-> "read", id |-> i, body |-> body, read |-> shifts[i], alone |-> TRUE] \in Merging
    BY <1>2 DEF Merging
  <1> QED
    BY <1>1, <1>3

LEMMA UpdatedShift ==
    ASSUME TypeOK, NEW w \in Writers, UpdateShift(w)
    PROVE  \E next \in Updating :
             /\ request[w] \in Merging /\ Step(w, next)
             /\ next.at = "update" /\ next.id = request[w].id
             /\ next.read = request[w].read /\ next.alone = request[w].alone
             /\ next.row = Merged(next.body, next.read) /\ Wellformed(next.row)
  <1> DEFINE old == request[w]
             row == Merged(old.body, old.read)
             next == [at |-> "update", id |-> old.id, row |-> row, body |-> old.body,
                      read |-> old.read, alone |-> old.alone]
  <1>1. old \in Merging
    BY RequestOf DEF UpdateShift
  <1>2. old.id \in Ids /\ old.body \in Patches /\ old.read \in Row /\ old.alone \in BOOLEAN
    BY <1>1 DEF Merging
  <1>3. row \in Row /\ row.date = WorkDate(row)
    BY <1>2, MergedIsRow, ShiftsAssumption
  <1>4. Step(w, next) /\ ValidTimes(row)
    BY DEF UpdateShift, Write
  <1>5. next \in Updating
    BY <1>2, <1>3 DEF Updating
  <1> QED
    BY <1>1, <1>3, <1>4, <1>5 DEF Wellformed

LEMMA DeletedShift ==
    ASSUME TypeOK, NEW w \in Writers, NEW i \in Ids, DeleteShift(w, i)
    PROVE  \E next \in Changing :
             Step(w, next) /\ next.at = "delete" /\ next.id = i /\ next.row = Gone
  <1>1. [at |-> "delete", id |-> i, row |-> Gone] \in Changing
    BY DEF Changing
  <1> QED
    BY <1>1 DEF DeleteShift

\* A commit stores the row, and those that have read it are no longer alone.
LEMMA Committed ==
    ASSUME TypeOK, NEW w \in Writers, Commit(w)
    PROVE  /\ Pending(w) /\ request[w].id \in Ids /\ request[w].row \in Row \cup {Gone}
           /\ shifts' \in [Ids -> Row \cup {NoRow, Gone}]
           /\ shifts'[request[w].id] = request[w].row
           /\ \A i \in Ids \ {request[w].id} : shifts'[i] = shifts[i]
           /\ request' \in [Writers -> {Idle} \cup Merging \cup Writing]
           /\ request'[w] = Idle
           /\ \A v \in Writers \ {w} :
                \/ request'[v] = request[v]
                    /\ (request[v].at = "read" => request[v].id # request[w].id)
                \/ /\ request[v] \in Merging /\ request'[v] \in Merging
                   /\ ~request'[v].alone
  <1>1. Pending(w) /\ request[w].id \in Ids /\ request[w].row \in Row \cup {Gone}
    BY RequestOf DEF Commit, Pending, Updating, Changing
  <1>2. shifts' = [shifts EXCEPT ![request[w].id] = request[w].row]
    BY DEF Commit
  <1>3. request' = [v \in Writers |->
           IF v = w THEN Idle
           ELSE IF request[v].at = "read" /\ request[v].id = request[w].id
           THEN [request[v] EXCEPT !.alone = FALSE] ELSE request[v]]
    BY DEF Commit
  <1>4. ASSUME NEW v \in Writers, request[v].at = "read"
        PROVE  /\ request[v] \in Merging
               /\ [request[v] EXCEPT !.alone = FALSE] \in Merging
               /\ ~[request[v] EXCEPT !.alone = FALSE].alone
    <2>1. request[v] \in Merging
      BY <1>4, RequestOf
    <2> QED
      BY <2>1 DEF Merging
  <1>5. request' \in [Writers -> {Idle} \cup Merging \cup Writing]
    BY <1>3, <1>4 DEF TypeOK
  <1>6. \A v \in Writers \ {w} :
          \/ request'[v] = request[v]
              /\ (request[v].at = "read" => request[v].id # request[w].id)
          \/ /\ request[v] \in Merging /\ request'[v] \in Merging
             /\ ~request'[v].alone
    BY <1>3, <1>4
  <1> QED
    BY <1>1, <1>2, <1>3, <1>5, <1>6 DEF TypeOK
-----------------------------------------------------------------------------

\* A step of a summary request.
LEMMA ReaderStep ==
    ASSUME TypeOK, NEW s \in Readers, ReadShifts(s) \/ Summarise(s) \/ Forget(s)
    PROVE  \A t \in Readers :
             /\ reader'[t].at \in {"idle", "shifts", "done"}
             /\ reader'[t].at = "done" => reader'[t].answer \in Answers
  <1>1. \A t \in Readers \ {s} : reader'[t] = reader[t]
    BY DEF ReadShifts, Summarise, Forget, TypeOK
  <1>2. CASE ReadShifts(s)
    <2>1. reader'[s].at = "shifts"
      BY <1>2 DEF ReadShifts, TypeOK
    <2> QED
      BY <1>1, <2>1 DEF TypeOK
  <1>3. CASE Summarise(s)
    <2>1. \A rows, ids : Answer(rows, ids) \in Answers
      BY DEF Answer, Answers
    <2>2. reader'[s].at = "done" /\ reader'[s].answer \in Answers
      BY <1>3, <2>1 DEF Summarise, TypeOK
    <2> QED
      BY <1>1, <2>2 DEF TypeOK
  <1>4. CASE Forget(s)
    <2>1. reader'[s].at = "idle"
      BY <1>4 DEF Forget, TypeOK, Idle
    <2> QED
      BY <1>1, <2>1 DEF TypeOK
  <1> QED
    BY <1>2, <1>3, <1>4

LEMMA NextTypeOK == TypeOK /\ [Next]_vars => TypeOK'
  <1> SUFFICES ASSUME TypeOK, [Next]_vars PROVE TypeOK'
    OBVIOUS
  <1>1. ASSUME UNCHANGED <<shifts, rates, reader>>, NEW w \in Writers,
               NEW next \in {Idle} \cup Merging \cup Changing \cup Updating, Step(w, next)
        PROVE  TypeOK'
    BY <1>1, Stepped DEF TypeOK
  <1>2. ASSUME NEW w \in Writers, NEW i \in Ids,
               CreateShift(w, i) \/ ReadShift(w, i) \/ DeleteShift(w, i)
        PROVE  TypeOK'
    <2>1. UNCHANGED <<shifts, rates, reader>>
      BY <1>2 DEF CreateShift, ReadShift, DeleteShift
    <2>2. \E next \in Merging \cup Changing : Step(w, next)
      BY <1>2, CreatedShift, ReadsShift, DeletedShift
    <2> QED
      BY <1>1, <2>1, <2>2
  <1>3. ASSUME NEW w \in Writers, UpdateShift(w) PROVE TypeOK'
    <2>1. UNCHANGED <<shifts, rates, reader>>
      BY <1>3 DEF UpdateShift
    <2> QED
      BY <1>1, <1>3, <2>1, UpdatedShift
  <1>4. ASSUME NEW w \in Writers, Rollback(w) PROVE TypeOK'
    BY <1>1, <1>4 DEF Rollback
  <1>5. ASSUME NEW w \in Writers, Commit(w) PROVE TypeOK'
    <2>1. rates' = rates /\ reader' = reader
      BY <1>5 DEF Commit
    <2> QED
      BY <1>5, <2>1, Committed DEF TypeOK
  <1>6. CASE ChangeRates
    BY <1>6 DEF ChangeRates, TypeOK
  <1>7. ASSUME NEW s \in Readers, ReadShifts(s) \/ Summarise(s) \/ Forget(s) PROVE TypeOK'
    <2>1. UNCHANGED <<shifts, rates, request>>
      BY <1>7 DEF ReadShifts, Summarise, Forget
    <2>2. \A t \in Readers :
            /\ reader'[t].at \in {"idle", "shifts", "done"}
            /\ reader'[t].at = "done" => reader'[t].answer \in Answers
      BY <1>7, ReaderStep
    <2>3. DOMAIN reader' = Readers
      BY <1>7 DEF ReadShifts, Summarise, Forget, TypeOK
    <2> QED
      BY <2>1, <2>2, <2>3 DEF TypeOK
  <1>8. CASE UNCHANGED vars
    BY <1>8 DEF vars, TypeOK
  <1> QED
    BY <1>2, <1>3, <1>4, <1>5, <1>6, <1>7, <1>8 DEF Next

\* Only a writer's steps touch what the other invariants are about.
LEMMA Steps ==
    ASSUME IInv, [Next]_vars
    PROVE  \/ UNCHANGED <<shifts, request>>
           \/ \E w \in Writers : Commit(w)
           \/ \E w \in Writers, next \in {Idle} \cup Merging \cup Changing \cup Updating :
                /\ Step(w, next) /\ UNCHANGED shifts
                /\ \/ next = Idle
                   \/ next.at = "insert" /\ Unlocked(next.id) /\ shifts[next.id] = NoRow
                        /\ Wellformed(next.row)
                   \/ next.at = "read" /\ next.read = shifts[next.id]
                   \/ /\ next.at = "update" /\ Unlocked(next.id) /\ Exists(next.id)
                      /\ request[w].at = "read" /\ next.id = request[w].id
                      /\ next.read = request[w].read /\ next.alone = request[w].alone
                      /\ next.row = Merged(next.body, next.read) /\ Wellformed(next.row)
                   \/ next.at = "delete" /\ Unlocked(next.id) /\ next.row = Gone
  <1>1. ASSUME NEW w \in Writers, NEW i \in Ids, CreateShift(w, i)
        PROVE  \E next \in Changing : /\ Step(w, next) /\ UNCHANGED shifts
                 /\ next.at = "insert" /\ Unlocked(next.id) /\ shifts[next.id] = NoRow
                 /\ Wellformed(next.row)
    <2>1. Unlocked(i) /\ shifts[i] = NoRow /\ UNCHANGED shifts
      BY <1>1 DEF CreateShift
    <2> QED
      BY <1>1, <2>1, CreatedShift DEF IInv
  <1>2. ASSUME NEW w \in Writers, NEW i \in Ids, ReadShift(w, i)
        PROVE  \E next \in Merging : /\ Step(w, next) /\ UNCHANGED shifts
                 /\ next.at = "read" /\ next.read = shifts[next.id]
    <2>1. UNCHANGED shifts
      BY <1>2 DEF ReadShift
    <2> QED
      BY <1>2, <2>1, ReadsShift DEF IInv
  <1>3. ASSUME NEW w \in Writers, UpdateShift(w)
        PROVE  \E next \in Updating : /\ Step(w, next) /\ UNCHANGED shifts
                 /\ next.at = "update" /\ Unlocked(next.id) /\ Exists(next.id)
                 /\ request[w].at = "read" /\ next.id = request[w].id
                 /\ next.read = request[w].read /\ next.alone = request[w].alone
                 /\ next.row = Merged(next.body, next.read) /\ Wellformed(next.row)
    <2>1. /\ request[w].at = "read" /\ Unlocked(request[w].id) /\ Exists(request[w].id)
          /\ UNCHANGED shifts
      BY <1>3 DEF UpdateShift
    <2> QED
      BY <1>3, <2>1, UpdatedShift DEF IInv
  <1>4. ASSUME NEW w \in Writers, NEW i \in Ids, DeleteShift(w, i)
        PROVE  \E next \in Changing : /\ Step(w, next) /\ UNCHANGED shifts
                 /\ next.at = "delete" /\ Unlocked(next.id) /\ next.row = Gone
    <2>1. Unlocked(i) /\ UNCHANGED shifts
      BY <1>4 DEF DeleteShift
    <2> QED
      BY <1>4, <2>1, DeletedShift DEF IInv
  <1>5. ASSUME NEW w \in Writers, Rollback(w) PROVE Step(w, Idle) /\ UNCHANGED shifts
    BY <1>5 DEF Rollback
  <1>6. ASSUME NEW s \in Readers, ReadShifts(s) \/ Summarise(s) \/ Forget(s)
        PROVE  UNCHANGED <<shifts, request>>
    BY <1>6 DEF ReadShifts, Summarise, Forget
  <1>7. CASE ChangeRates \/ UNCHANGED vars
    BY <1>7 DEF ChangeRates, vars
  <1> QED
    BY <1>1, <1>2, <1>3, <1>4, <1>5, <1>6, <1>7 DEF Next
-----------------------------------------------------------------------------

\* A row that is written is locked for every other transaction.
LEMMA NextOneWriter == IInv /\ [Next]_vars => OneWriter'
  <1> SUFFICES ASSUME IInv, [Next]_vars PROVE OneWriter'
    OBVIOUS
  <1> USE DEF OneWriter, Pending
  <1>1. CASE UNCHANGED <<shifts, request>>
    BY <1>1 DEF IInv, Exists
  <1>2. ASSUME NEW w \in Writers, Commit(w) PROVE OneWriter'
    <2>1. \A v \in Writers : Pending(v)' => v # w /\ request'[v] = request[v]
      BY <1>2, Committed DEF IInv, Idle, Merging
    <2>2. \A v \in Writers : Pending(v)' => request[v].id # request[w].id /\ request[v].id \in Ids
      BY <1>2, <2>1, Committed, RequestOf DEF IInv, Updating, Changing
    <2>3. \A i \in Ids : i # request[w].id => shifts'[i] = shifts[i]
      BY <1>2, Committed DEF IInv
    <2> QED
      BY <2>1, <2>2, <2>3 DEF IInv, Exists
  <1>3. ASSUME NEW w \in Writers, NEW next \in {Idle} \cup Merging \cup Changing \cup Updating,
               Step(w, next), UNCHANGED shifts,
               \/ next.at \in {"idle", "read"}
               \/ next.at = "insert" /\ Unlocked(next.id) /\ shifts[next.id] = NoRow
               \/ next.at = "update" /\ Unlocked(next.id) /\ Exists(next.id)
               \/ next.at = "delete" /\ Unlocked(next.id)
        PROVE  OneWriter'
    <2>1. request'[w] = next /\ \A v \in Writers \ {w} : request'[v] = request[v]
      BY <1>3, Stepped DEF IInv
    <2> QED
      BY <1>3, <2>1 DEF IInv, Exists, Unlocked
  <1>4. Idle.at = "idle"
    BY DEF Idle
  <1> QED
    BY <1>1, <1>2, <1>3, <1>4, Steps

\* What is stored was about to be written, and that was a shift.
LEMMA NextContents == IInv /\ [Next]_vars => Contents'
  <1> SUFFICES ASSUME IInv, [Next]_vars PROVE Contents'
    OBVIOUS
  <1> USE DEF Contents, WritesAreShifts, UpdatesAreMerged, DeletesAreGone, AloneIsCurrent
  <1>1. CASE UNCHANGED <<shifts, request>>
    BY <1>1 DEF IInv, RowsAreShifts, Exists
  <1>2. ASSUME NEW w \in Writers, Commit(w) PROVE Contents'
    <2> DEFINE i == request[w].id
    <2>1. /\ i \in Ids /\ shifts'[i] = request[w].row
          /\ \A j \in Ids \ {i} : shifts'[j] = shifts[j]
      BY <1>2, Committed DEF IInv
    <2>2. \A v \in Writers :
            \/ request'[v] = Idle
            \/ request'[v] = request[v] /\ v # w
                 /\ (request[v].at = "read" => request[v].id # i)
            \/ request'[v].at = "read" /\ ~request'[v].alone
      BY <1>2, Committed DEF IInv, Merging
    <2>3. RowsAreShifts'
      <3>1. shifts'[i] \notin {NoRow, Gone} => Wellformed(shifts'[i])
        BY <1>2, <2>1 DEF IInv, Commit
      <3> QED
        BY <2>1, <3>1 DEF IInv, RowsAreShifts, Exists, Wellformed
    <2>4. WritesAreShifts' /\ UpdatesAreMerged' /\ DeletesAreGone'
      BY <2>2 DEF IInv, Idle
    <2>5. AloneIsCurrent'
      <3>1. SUFFICES ASSUME NEW v \in Writers, request'[v].at \in {"read", "update"},
                            request'[v].alone
                     PROVE  shifts'[request'[v].id] = request'[v].read
        OBVIOUS
      <3>2. request'[v] = request[v] /\ v # w /\ (request[v].at = "read" => request[v].id # i)
        BY <2>2, <3>1 DEF Idle
      <3>3. request[v].id # i /\ request[v].id \in Ids
        BY <1>2, <3>1, <3>2, RequestOf
        DEF IInv, Commit, OneWriter, Pending, Updating, Merging
      <3> QED
        BY <2>1, <3>1, <3>2, <3>3 DEF IInv
    <2> QED
      BY <2>3, <2>4, <2>5
  <1>3. ASSUME NEW w \in Writers, NEW next \in {Idle} \cup Merging \cup Changing \cup Updating,
               Step(w, next), UNCHANGED shifts,
               \/ next.at = "idle"
               \/ next.at = "insert" /\ Wellformed(next.row)
               \/ next.at = "read" /\ next.read = shifts[next.id]
               \/ /\ next.at = "update" /\ request[w].at = "read" /\ next.id = request[w].id
                  /\ next.read = request[w].read /\ next.alone = request[w].alone
                  /\ next.row = Merged(next.body, next.read) /\ Wellformed(next.row)
               \/ next.at = "delete" /\ next.row = Gone
        PROVE  Contents'
    <2>1. request'[w] = next /\ \A v \in Writers \ {w} : request'[v] = request[v]
      BY <1>3, Stepped DEF IInv
    <2>2. RowsAreShifts'
      BY <1>3 DEF IInv, RowsAreShifts, Exists
    <2>3. WritesAreShifts' /\ UpdatesAreMerged' /\ DeletesAreGone'
      BY <1>3, <2>1 DEF IInv
    <2>4. AloneIsCurrent'
      BY <1>3, <2>1 DEF IInv
    <2> QED
      BY <2>2, <2>3, <2>4
  <1>4. Idle.at = "idle"
    BY DEF Idle
  <1> QED
    BY <1>1, <1>2, <1>3, <1>4, Steps

LEMMA Inductive == IInv /\ [Next]_vars => IInv'
  BY NextTypeOK, NextOneWriter, NextContents DEF IInv

THEOREM Invariance == Spec => []IInv
  BY InitIInv, Inductive, PTL DEF Spec

-----------------------------------------------------------------------------

(* Rows, requests and readers keep their types.                            *)
THEOREM TypeCorrect == Spec => []TypeOK
  BY Invariance, PTL DEF IInv

(* For any number of requests side by side: every row is a shift that the  *)
(* rules allow, under the date it starts on.                               *)
THEOREM OnlyShiftsStored == Spec => []RowsAreShifts
  BY Invariance, PTL DEF IInv, Contents

(* A PATCH that was alone with its row changes what it sent and keeps the  *)
(* rest.                                                                   *)
THEOREM PatchesAreExact == Spec => PatchChangesWhatItSent
  <1> DEFINE Exact ==
        \A w \in Writers :
            request[w].at = "update" /\ request'[w] = Idle /\ request[w].alone /\ shifts' # shifts
                => KeptFields(shifts[request[w].id], shifts'[request[w].id], request[w].body)
  <1>1. IInv /\ [Next]_vars => [Exact]_vars
    <2> SUFFICES ASSUME IInv, [Next]_vars, NEW w \in Writers,
                        request[w].at = "update", request'[w] = Idle, request[w].alone,
                        shifts' # shifts
                 PROVE  KeptFields(shifts[request[w].id], shifts'[request[w].id], request[w].body)
      OBVIOUS
    <2>1. PICK v \in Writers : Commit(v)
      BY Steps
    <2>2. v = w
      <3>1. request[w] # Idle
        BY DEF Idle
      <3>2. v # w => request'[w] = request[w] \/ request[w].at = "read"
        BY <2>1, Committed DEF IInv, Merging
      <3> QED
        BY <3>1, <3>2
    <2>3. shifts'[request[w].id] = request[w].row /\ shifts[request[w].id] = request[w].read
            /\ request[w].row = Merged(request[w].body, request[w].read)
      BY <2>1, <2>2, Committed DEF IInv, Contents, AloneIsCurrent, UpdatesAreMerged
    <2>4. ASSUME NEW body, NEW row PROVE KeptFields(row, Merged(body, row), body)
      BY DEF KeptFields, Merged, Sent, Stored
    <2> QED
      BY <2>3, <2>4
  <1>2. PatchChangesWhatItSent <=> [][Exact]_vars
    BY DEF PatchChangesWhatItSent
  <1> QED
    BY Invariance, <1>1, <1>2, PTL DEF Spec

-----------------------------------------------------------------------------
(***************************************************************************)
(* Summaries.  A request for one keeps the rows as they were when it read  *)
(* them, each filed under its date, and finds rates that do not overlap:   *)
(* whatever is committed between its two statements, only a missing rate   *)
(* can be in its way.                                                      *)
(***************************************************************************)
RatesApart == rates \subseteq RateRows /\ \A a, b \in rates : a # b => ~Overlap(a, b)

\* What has been read, in either of the two places it is kept.
RowsRead(r) ==
    \A i \in DOMAIN r.rows :
        /\ r.rows[i].date = WorkDate(r.rows[i]) /\ r.rows[i].date \in Nat
        /\ r.rows[i].date \in r.range.from..r.range.to

ReadersInv ==
    /\ RatesApart
    /\ \A s \in Readers :
        /\ reader[s].at \in {"shifts", "done"} => RowsRead(reader[s])
        /\ reader[s].at = "shifts" => reader[s].ids = DOMAIN reader[s].rows
    /\ SummariesAreDecided

\* Rates that apply on the same date overlap, so that at most one applies.
LEMMA AtMostOneApplies ==
    ASSUME RatesApart, NEW date \in Nat
    PROVE  \A a, b \in Applying(rates, date) : a = b
  <1> SUFFICES ASSUME NEW a \in rates, NEW b \in rates, AppliesOn(a, date), AppliesOn(b, date)
               PROVE  Overlap(a, b)
    BY DEF Applying, RatesApart
  <1>1. a \in RateType /\ b \in RateType
    BY ShiftsAssumption DEF RatesApart
  <1> QED
    BY <1>1 DEF Overlap, AppliesOn, RateType, NoEnd

LEMMA OneRateApplies ==
    ASSUME RatesApart, NEW date \in Nat
    PROVE  Cardinality(Applying(rates, date)) \in {0, 1}
  <1>1. \A a, b \in Applying(rates, date) : a = b
    BY AtMostOneApplies
  <1>2. CASE Applying(rates, date) = {}
    BY <1>2, FS_EmptySet
  <1>3. ASSUME NEW a \in Applying(rates, date) PROVE Cardinality(Applying(rates, date)) \in {0, 1}
    <2>1. Applying(rates, date) = {a}
      BY <1>1, <1>3
    <2> QED
      BY <2>1, FS_Singleton
  <1> QED
    BY <1>2, <1>3

\* What calculate_schedule_summary says of rows that were filed as they should.
LEMMA AnswerIs ==
    ASSUME RatesApart, NEW rows, NEW ids,
           \A i \in ids : rows[i].date = WorkDate(rows[i]) /\ WorkDate(rows[i]) \in Nat
    PROVE  Answer(rows, ids) =
               IF \A i \in ids : Applying(rates, WorkDate(rows[i])) # {}
               THEN "facts" ELSE "uncovered"
  <1>1. \A i \in ids : ~(Cardinality(Applying(rates, WorkDate(rows[i]))) > 1)
    <2> SUFFICES ASSUME NEW i \in ids
                 PROVE  ~(Cardinality(Applying(rates, WorkDate(rows[i]))) > 1)
      OBVIOUS
    <2>1. Cardinality(Applying(rates, WorkDate(rows[i]))) \in {0, 1}
      BY OneRateApplies
    <2> QED
      BY <2>1
  <1> QED
    BY <1>1 DEF Answer

\* Nothing that a summary depends on has changed.
LEMMA ReadersStay ==
    ASSUME ReadersInv, UNCHANGED reader, RatesApart'
    PROVE  ReadersInv'
  BY DEF ReadersInv, RowsRead, SummariesAreDecided

LEMMA ReadShiftsKeeps ==
    ASSUME IInv, ReadersInv, NEW s \in Readers, ReadShifts(s)
    PROVE  ReadersInv'
  <1> USE DEF ReadShifts
  <1>1. PICK range \in Ranges :
            /\ range.from <= range.to
            /\ reader' = [reader EXCEPT ![s] =
                   [at |-> "shifts", range |-> range, ids |-> InRange(range),
                    rows |-> [i \in InRange(range) |-> shifts[i]]]]
    OBVIOUS
  <1> DEFINE r == [at |-> "shifts", range |-> range, ids |-> InRange(range),
                   rows |-> [i \in InRange(range) |-> shifts[i]]]
  <1>2. reader'[s] = r /\ \A t \in Readers \ {s} : reader'[t] = reader[t]
    BY <1>1 DEF IInv, TypeOK
  <1>3. range.from \in Nat /\ range.to \in Nat
    BY ShiftsAssumption
  <1>4. RowsRead(r)
    <2> SUFFICES ASSUME NEW i \in InRange(range)
                 PROVE  /\ shifts[i].date = WorkDate(shifts[i]) /\ shifts[i].date \in Nat
                        /\ shifts[i].date \in range.from..range.to
      BY DEF RowsRead
    <2>1. shifts[i] \in Row /\ shifts[i].date = WorkDate(shifts[i])
      BY DEF InRange, Exists, IInv, TypeOK, Contents, RowsAreShifts
    <2> QED
      BY <1>3, <2>1 DEF InRange, Row
  <1>5. r.at = "shifts" /\ r.ids = DOMAIN r.rows
    OBVIOUS
  <1> HIDE DEF r
  <1>6. RatesApart' /\ SummariesAreDecided'
    BY <1>2, <1>5 DEF ReadersInv, RatesApart, SummariesAreDecided
  <1> QED
    BY <1>2, <1>4, <1>5, <1>6 DEF ReadersInv

LEMMA SummariseKeeps ==
    ASSUME IInv, ReadersInv, NEW s \in Readers, Summarise(s)
    PROVE  ReadersInv'
  <1> DEFINE rows == reader[s].rows
             answer == Answer(rows, DOMAIN rows)
  <1>1. /\ reader[s].at = "shifts" /\ reader[s].ids = DOMAIN rows /\ RowsRead(reader[s])
        /\ UNCHANGED rates
    BY DEF Summarise, ReadersInv
  <1>2. /\ reader'[s].at = "done" /\ reader'[s].rows = rows /\ reader'[s].answer = answer
        /\ reader'[s].range = reader[s].range /\ reader'[s].rates = rates
        /\ \A t \in Readers \ {s} : reader'[t] = reader[t]
    BY <1>1 DEF Summarise, IInv, TypeOK
  <1>3. \A i \in DOMAIN rows : /\ rows[i].date = WorkDate(rows[i]) /\ WorkDate(rows[i]) \in Nat
                              /\ WorkDate(rows[i]) \in reader[s].range.from..reader[s].range.to
    BY <1>1 DEF RowsRead
  <1>4. answer = IF \A i \in DOMAIN rows : Applying(rates, WorkDate(rows[i])) # {}
                 THEN "facts" ELSE "uncovered"
    BY <1>3, AnswerIs DEF ReadersInv
  <1> HIDE DEF answer
  <1> HIDE DEF rows
  <1>5. SummariesAreDecided'
    <2> SUFFICES ASSUME NEW t \in Readers, reader'[t].at = "done"
                 PROVE  /\ \A i \in DOMAIN reader'[t].rows :
                              WorkDate(reader'[t].rows[i])
                                  \in reader'[t].range.from..reader'[t].range.to
                        /\ reader'[t].answer =
                             IF \A i \in DOMAIN reader'[t].rows :
                                  Applying(reader'[t].rates, WorkDate(reader'[t].rows[i])) # {}
                             THEN "facts" ELSE "uncovered"
      BY DEF SummariesAreDecided
    <2>1. CASE t = s
      BY <1>2, <1>3, <1>4, <2>1
    <2>2. CASE t # s
      BY <1>2, <2>2 DEF ReadersInv, SummariesAreDecided
    <2> QED
      BY <2>1, <2>2
  <1>6. RatesApart'
    BY <1>1 DEF ReadersInv, RatesApart
  <1>7. RowsRead(reader'[s])
    BY <1>1, <1>2 DEF RowsRead, rows
  <1>8. \A t \in Readers : /\ reader'[t].at \in {"shifts", "done"} => RowsRead(reader'[t])
                           /\ reader'[t].at = "shifts" => reader'[t].ids = DOMAIN reader'[t].rows
    BY <1>2, <1>7 DEF ReadersInv
  <1> QED
    BY <1>5, <1>6, <1>8 DEF ReadersInv, RowsRead

LEMMA NextReadersInv == IInv /\ ReadersInv /\ [Next]_vars => ReadersInv'
  <1> SUFFICES ASSUME IInv, ReadersInv, [Next]_vars PROVE ReadersInv'
    OBVIOUS
  <1>1. ASSUME UNCHANGED <<rates, reader>> PROVE ReadersInv'
    BY <1>1, ReadersStay DEF ReadersInv, RatesApart
  <1>2. ASSUME NEW w \in Writers, UpdateShift(w) \/ Commit(w) \/ Rollback(w) PROVE ReadersInv'
    BY <1>1, <1>2 DEF UpdateShift, Commit, Rollback
  <1>3. ASSUME NEW w \in Writers, NEW i \in Ids,
               CreateShift(w, i) \/ ReadShift(w, i) \/ DeleteShift(w, i)
        PROVE  ReadersInv'
    BY <1>1, <1>3 DEF CreateShift, ReadShift, DeleteShift
  <1>4. CASE ChangeRates
    <2>1. RatesApart' /\ UNCHANGED reader
      BY <1>4 DEF ChangeRates, RatesApart
    <2> QED
      BY <2>1, ReadersStay
  <1>5. ASSUME NEW s \in Readers, ReadShifts(s) \/ Summarise(s) PROVE ReadersInv'
    BY <1>5, ReadShiftsKeeps, SummariseKeeps
  <1>6. ASSUME NEW s \in Readers, Forget(s) PROVE ReadersInv'
    <2>1. /\ reader'[s].at = "idle" /\ \A t \in Readers \ {s} : reader'[t] = reader[t]
          /\ UNCHANGED rates
      BY <1>6 DEF Forget, Idle, IInv, TypeOK
    <2> QED
      BY <2>1 DEF ReadersInv, RatesApart, SummariesAreDecided
  <1>7. CASE UNCHANGED vars
    BY <1>1, <1>7 DEF vars
  <1> QED
    BY <1>2, <1>3, <1>4, <1>5, <1>6, <1>7 DEF Next

\* A summary is answered from rows filed under the dates of its range, and refused only
\* when one of them has no rate, though shifts and rates are read in two statements.
THEOREM SummariesDecided == Spec => []SummariesAreDecided
  <1>1. Init => ReadersInv
    BY DEF Init, ReadersInv, RatesApart, SummariesAreDecided, Idle
  <1>2. ReadersInv => SummariesAreDecided
    BY DEF ReadersInv
  <1> QED
    BY <1>1, <1>2, NextReadersInv, Invariance, PTL DEF Spec

-----------------------------------------------------------------------------
(***************************************************************************)
(* The facts of a summary.  What was read are shifts that the rules allow, *)
(* each priced by the one rate that applies: what the code accumulates is  *)
(* then what Reference defines.                                            *)
(***************************************************************************)
RowsValid(r) ==
    /\ IsFiniteSet(DOMAIN r.rows)
    /\ \A i \in DOMAIN r.rows : r.rows[i] \in Row /\ ValidTimes(r.rows[i])

FactsTrue(r) == r.answer = "facts" => r.facts = Reference(r.rows, DOMAIN r.rows, r.rates)

FactsInv ==
    \A s \in Readers : /\ reader[s].at = "shifts" => RowsValid(reader[s])
                       /\ reader[s].at = "done" => FactsTrue(reader[s])

\* What a summary answers with facts has one rate for each shift.
LEMMA AnsweredIsPriceable ==
    ASSUME RatesApart, NEW r, RowsRead(r), RowsValid(r), Answer(r.rows, DOMAIN r.rows) = "facts"
    PROVE  Priceable(r.rows, DOMAIN r.rows, rates)
  <1> SUFFICES ASSUME NEW i \in DOMAIN r.rows
               PROVE  /\ WorkDate(r.rows[i]) \in Nat
                      /\ PaidSlots(r.rows[i]) \in Nat
                      /\ \E x : Applying(rates, WorkDate(r.rows[i])) = {x} /\ x.cents \in Nat
    BY DEF Priceable
  <1> DEFINE date == WorkDate(r.rows[i])
  <1>1. date \in Nat
    BY DEF RowsRead
  <1>2. PaidSlots(r.rows[i]) \in Nat
    <2>1. /\ r.rows[i].start \in Int /\ r.rows[i].end \in Int /\ r.rows[i].brk \in Int
          /\ r.rows[i].brk <= r.rows[i].end - r.rows[i].start
      BY ScheduleAssumption DEF RowsValid, Row, ValidTimes
    <2> QED
      BY <2>1 DEF PaidSlots
  <1> HIDE DEF date
  <1>3. Applying(rates, date) # {}
    BY DEF Answer, date
  <1>4. PICK x \in Applying(rates, date) : TRUE
    BY <1>3
  <1>5. Applying(rates, date) = {x}
    <2>1. \A a, b \in Applying(rates, date) : a = b
      BY <1>1, AtMostOneApplies
    <2> QED
      BY <1>4, <2>1
  <1>6. x \in RateType
    BY <1>4, ShiftsAssumption DEF Applying, RatesApart
  <1> QED
    BY <1>1, <1>2, <1>5, <1>6 DEF RateType, date

LEMMA ReadShiftsKeepsFacts ==
    ASSUME IInv, FactsInv, NEW s \in Readers, ReadShifts(s)
    PROVE  FactsInv'
  <1>1. PICK range \in Ranges :
            reader' = [reader EXCEPT ![s] =
                [at |-> "shifts", range |-> range, ids |-> InRange(range),
                 rows |-> [i \in InRange(range) |-> shifts[i]]]]
    BY DEF ReadShifts
  <1> DEFINE r == [at |-> "shifts", range |-> range, ids |-> InRange(range),
                   rows |-> [i \in InRange(range) |-> shifts[i]]]
  <1>2. reader'[s] = r /\ \A t \in Readers \ {s} : reader'[t] = reader[t]
    BY <1>1 DEF IInv, TypeOK
  <1>3. RowsValid(r)
    <2>1. IsFiniteSet(InRange(range))
      BY ShiftsAssumption, FS_Subset DEF InRange
    <2>2. ASSUME NEW i \in InRange(range) PROVE shifts[i] \in Row /\ ValidTimes(shifts[i])
      BY DEF InRange, Exists, IInv, TypeOK, Contents, RowsAreShifts
    <2> QED
      BY <2>1, <2>2 DEF RowsValid
  <1>4. r.at = "shifts"
    OBVIOUS
  <1> HIDE DEF r
  <1> QED
    BY <1>2, <1>3, <1>4 DEF FactsInv

LEMMA SummariseKeepsFacts ==
    ASSUME IInv, ReadersInv, FactsInv, NEW s \in Readers, Summarise(s)
    PROVE  FactsInv'
  <1> DEFINE rows == reader[s].rows
             ids == DOMAIN rows
  <1>1. /\ reader[s].at = "shifts" /\ reader[s].ids = ids
        /\ RowsRead(reader[s]) /\ RowsValid(reader[s])
    BY DEF Summarise, ReadersInv, FactsInv
  <1>2. /\ reader'[s].at = "done" /\ reader'[s].rows = rows
        /\ reader'[s].answer = Answer(rows, ids) /\ reader'[s].rates = rates
        /\ reader'[s].facts = IF Answer(rows, ids) = "facts" THEN FactsOf(InOrder(rows, ids), rates) ELSE NoFacts
        /\ \A t \in Readers \ {s} : reader'[t] = reader[t]
    BY <1>1 DEF Summarise, IInv, TypeOK
  <1>3. ASSUME Answer(rows, ids) = "facts" PROVE FactsOf(InOrder(rows, ids), rates) = Reference(rows, ids, rates)
    <2>1. Priceable(rows, ids, rates)
      BY <1>1, <1>3, AnsweredIsPriceable DEF ReadersInv
    <2>2. IsFiniteSet(ids) /\ \A i \in ids : rows[i].start \in Int
      BY <1>1, ScheduleAssumption DEF RowsValid, Row
    <2> HIDE DEF rows, ids
    <2> QED
      BY <2>1, <2>2, FactsAreReference
  <1>4. FactsTrue(reader'[s])
    <2> HIDE DEF rows
    <2> QED
      BY <1>2, <1>3 DEF FactsTrue
  <1> QED
    BY <1>2, <1>4 DEF FactsInv, FactsTrue

LEMMA NextFactsInv == IInv /\ ReadersInv /\ FactsInv /\ [Next]_vars => FactsInv'
  <1> SUFFICES ASSUME IInv, ReadersInv, FactsInv, [Next]_vars PROVE FactsInv'
    OBVIOUS
  <1>1. ASSUME UNCHANGED reader PROVE FactsInv'
    BY <1>1 DEF FactsInv
  <1>2. ASSUME NEW w \in Writers, UpdateShift(w) \/ Commit(w) \/ Rollback(w) PROVE FactsInv'
    BY <1>1, <1>2 DEF UpdateShift, Commit, Rollback
  <1>3. ASSUME NEW w \in Writers, NEW i \in Ids,
               CreateShift(w, i) \/ ReadShift(w, i) \/ DeleteShift(w, i)
        PROVE  FactsInv'
    BY <1>1, <1>3 DEF CreateShift, ReadShift, DeleteShift
  <1>4. CASE ChangeRates
    BY <1>1, <1>4 DEF ChangeRates
  <1>5. ASSUME NEW s \in Readers, ReadShifts(s) PROVE FactsInv'
    BY <1>5, ReadShiftsKeepsFacts
  <1>6. ASSUME NEW s \in Readers, Summarise(s) PROVE FactsInv'
    BY <1>6, SummariseKeepsFacts
  <1>7. ASSUME NEW s \in Readers, Forget(s) PROVE FactsInv'
    <2>1. reader'[s].at = "idle" /\ \A t \in Readers \ {s} : reader'[t] = reader[t]
      BY <1>7 DEF Forget, Idle, IInv, TypeOK
    <2> QED
      BY <2>1 DEF FactsInv
  <1>8. CASE UNCHANGED vars
    BY <1>1, <1>8 DEF vars
  <1> QED
    BY <1>2, <1>3, <1>4, <1>5, <1>6, <1>7, <1>8 DEF Next

\* A summary that is answered states the hours, the pay, the counts by type and by week and
\* the longest run of days of the shifts it read, at the rates it read, whatever their number.
THEOREM SummariesTrue == Spec => []SummariesAreTrue
  <1>1. Init => ReadersInv /\ FactsInv
    BY DEF Init, ReadersInv, RatesApart, SummariesAreDecided, FactsInv, Idle
  <1>2. IInv /\ ReadersInv /\ FactsInv /\ [Next]_vars => (ReadersInv /\ FactsInv)'
    BY NextReadersInv, NextFactsInv
  <1>3. ReadersInv /\ FactsInv => SummariesAreTrue
    BY DEF ReadersInv, FactsInv, FactsTrue, SummariesAreTrue
  <1> QED
    BY <1>1, <1>2, <1>3, Invariance, PTL DEF Spec
=============================================================================
