-------------------------------- MODULE Sums --------------------------------
(***************************************************************************)
(* Facts about SumFunctionOnSet(f, S) for a finite set S and a function    *)
(* f whose values on S are numbers.  The operator is a fold: a function    *)
(* defined by recursion over the subsets of S.  Each induction is done     *)
(* with the least counterexample, a set of naturals.                       *)
(***************************************************************************)
EXTENDS Integers, FiniteSets, Functions, FiniteSetTheorems, WellFoundedInduction, TLAPS

Pick(s) == CHOOSE x \in s : TRUE

(* One unfolding of the sum of f over s, where g gives the smaller sums. *)
Unfold(f, g, s) == IF s = {} THEN 0 ELSE f[Pick(s)] + g[s \ {Pick(s)}]

(* The recursive function inside SumFunctionOnSet. *)
IsTable(it, f, S) == it = [s \in SUBSET S |-> Unfold(f, it, s)]
Table(f, S) == CHOOSE it : IsTable(it, f, S)

(* The subsets of S with at most n elements. *)
Small(S, n) == {s \in SUBSET S : Cardinality(s) <= n}

(* f is a function into the integers at every element of S. *)
IntOn(f, S) == IsFiniteSet(S) /\ \A x \in S : f[x] \in Int

(* A nonempty set of naturals has a least element. *)
LEMMA LeastNumber ==
    ASSUME NEW T \in SUBSET Nat, T # {}
    PROVE  \E n \in T : \A m \in T : n <= m
<1>1. PICK n \in T : \A m \in T : <<m, n>> \notin OpToRel(<, Nat)
    BY WFMin, NatLessThanWellFounded
<1>2. \A m \in T : ~(m < n)
    BY <1>1 DEF OpToRel
<1>. QED
    BY <1>2

(* The choice of an element, and what is left. *)
LEMMA PickFacts ==
    ASSUME NEW s, IsFiniteSet(s), s # {}
    PROVE  /\ Pick(s) \in s
           /\ IsFiniteSet(s \ {Pick(s)})
           /\ Cardinality(s) \in Nat
           /\ Cardinality(s \ {Pick(s)}) \in Nat
           /\ Cardinality(s \ {Pick(s)}) = Cardinality(s) - 1
<1>1. Pick(s) \in s
    BY DEF Pick
<1>. QED
    BY <1>1, FS_RemoveElement, FS_CardinalityType

(* Tables of the sums over small subsets exist, whatever "small" is. *)
LEMMA TablesExist ==
    ASSUME NEW f, NEW S, IntOn(f, S), NEW n \in Nat
    PROVE  \E g \in [Small(S, n) -> Int] : \A s \in Small(S, n) : g[s] = Unfold(f, g, s)
<1>. DEFINE Ok(m) == \E g \in [Small(S, m) -> Int] :
                        \A s \in Small(S, m) : g[s] = Unfold(f, g, s)
            Bad == {m \in Nat : ~Ok(m)}
<1>1. Ok(0)
  <2>. DEFINE g == [s \in Small(S, 0) |-> 0]
  <2>1. ASSUME NEW s \in Small(S, 0) PROVE s = {}
      BY FS_EmptySet, FS_Subset, FS_CardinalityType DEF Small, IntOn
  <2>2. \A s \in Small(S, 0) : g[s] = Unfold(f, g, s)
      BY <2>1 DEF Unfold
  <2>3. g \in [Small(S, 0) -> Int]
      OBVIOUS
  <2>. HIDE DEF g
  <2>. QED
      BY <2>2, <2>3
<1>2. ASSUME NEW m \in Nat, Ok(m) PROVE Ok(m + 1)
  <2>1. PICK g \in [Small(S, m) -> Int] : \A s \in Small(S, m) : g[s] = Unfold(f, g, s)
      BY <1>2
  <2>. DEFINE h == [s \in Small(S, m + 1) |-> Unfold(f, g, s)]
  <2>2. ASSUME NEW s \in Small(S, m + 1), s # {}
        PROVE  /\ s \ {Pick(s)} \in Small(S, m)
               /\ s \ {Pick(s)} \in Small(S, m + 1)
               /\ f[Pick(s)] \in Int
    <3>1. s \subseteq S /\ Cardinality(s) <= m + 1 /\ IsFiniteSet(s)
        BY FS_Subset DEF Small, IntOn
    <3>2. /\ Pick(s) \in s
          /\ Cardinality(s) \in Nat
          /\ Cardinality(s \ {Pick(s)}) = Cardinality(s) - 1
        BY <2>2, <3>1, PickFacts
    <3>3. s \ {Pick(s)} \in SUBSET S
        BY <3>1
    <3>4. Cardinality(s \ {Pick(s)}) <= m /\ Cardinality(s \ {Pick(s)}) <= m + 1
        BY <3>1, <3>2
    <3>5. f[Pick(s)] \in Int
        BY <3>1, <3>2 DEF IntOn
    <3>. QED
        BY <3>3, <3>4, <3>5 DEF Small
  <2>3. ASSUME NEW s \in Small(S, m + 1) PROVE h[s] \in Int
      BY <2>2 DEF Unfold
  <2>4. ASSUME NEW s \in Small(S, m) PROVE s \in Small(S, m + 1) /\ h[s] = g[s]
    <3>1. s \in Small(S, m + 1)
        BY FS_Subset, FS_CardinalityType DEF Small, IntOn
    <3>. QED
        BY <2>1, <3>1
  <2>. HIDE DEF h
  <2>5. ASSUME NEW s \in Small(S, m + 1) PROVE h[s] = Unfold(f, h, s)
    <3>1. h[s] = Unfold(f, g, s)
        BY DEF h
    <3>2. CASE s = {}
        BY <3>1, <3>2 DEF Unfold
    <3>3. CASE s # {}
        BY <3>1, <3>3, <2>2, <2>4 DEF Unfold
    <3>. QED
        BY <3>2, <3>3
  <2>6. h \in [Small(S, m + 1) -> Int]
      BY <2>3 DEF h
  <2>. QED
      BY <2>5, <2>6
<1>. HIDE DEF Ok
<1>3. Bad = {}
  <2>. SUFFICES ASSUME Bad # {} PROVE FALSE
      OBVIOUS
  <2>1. PICK k \in Bad : \A m \in Bad : k <= m
      BY LeastNumber
  <2>2. k # 0 /\ k \in Nat
      BY <1>1
  <2>3. k - 1 \in Nat /\ k - 1 \notin Bad
      BY <2>1, <2>2
  <2>4. Ok(k - 1)
      BY <2>3
  <2>. QED
      BY <1>2, <2>2, <2>3, <2>4
<1>. QED
    BY <1>3 DEF Ok

(* The table of SumFunctionOnSet satisfies its own recursion. *)
LEMMA TableEquation ==
    ASSUME NEW f, NEW S, IntOn(f, S)
    PROVE  IsTable(Table(f, S), f, S)
<1>1. Cardinality(S) \in Nat
    BY FS_CardinalityType DEF IntOn
<1>2. Small(S, Cardinality(S)) = SUBSET S
    BY FS_Subset DEF Small, IntOn
<1>3. \E g \in [Small(S, Cardinality(S)) -> Int] :
          \A s \in Small(S, Cardinality(S)) : g[s] = Unfold(f, g, s)
    BY <1>1, TablesExist
<1>4. PICK g \in [SUBSET S -> Int] : \A s \in SUBSET S : g[s] = Unfold(f, g, s)
    BY <1>2, <1>3, Zenon
<1>5. IsTable(g, f, S)
    BY <1>4 DEF IsTable
<1>. QED
    BY <1>5 DEF Table

(* SumFunctionOnSet reads the table at the whole set. *)
LEMMA SumIsTable ==
    ASSUME NEW f, NEW S
    PROVE  SumFunctionOnSet(f, S) = Table(f, S)[S]
BY DEF SumFunctionOnSet, FoldFunctionOnSet, MapThenFoldSet, Table, IsTable, Unfold, Pick

(* A sum of integers is an integer, and of naturals a natural. *)
LEMMA TableType ==
    ASSUME NEW f, NEW S, IntOn(f, S), NEW D \in {Nat, Int}, \A x \in S : f[x] \in D
    PROVE  Table(f, S) \in [SUBSET S -> D]
<1>. DEFINE t == Table(f, S)
            Bad == {Cardinality(s) : s \in {r \in SUBSET S : t[r] \notin D}}
<1>1. IsTable(t, f, S)
    BY TableEquation, Zenon
<1>. HIDE DEF t
<1>2. Bad = {}
  <2>. SUFFICES ASSUME Bad # {} PROVE FALSE
      OBVIOUS
  <2>1. Bad \subseteq Nat
      BY FS_Subset, FS_CardinalityType DEF IntOn
  <2>2. PICK k \in Bad : \A m \in Bad : k <= m
      BY <2>1, LeastNumber
  <2>3. PICK s \in SUBSET S : t[s] \notin D /\ k = Cardinality(s)
      OBVIOUS
  <2>4. t[s] = Unfold(f, t, s)
      BY <1>1 DEF IsTable
  <2>5. s # {}
      BY <2>3, <2>4 DEF Unfold
  <2>6. IsFiniteSet(s)
      BY FS_Subset DEF IntOn
  <2>7. /\ Pick(s) \in s
        /\ k \in Nat
        /\ Cardinality(s \ {Pick(s)}) = k - 1
      BY <2>3, <2>5, <2>6, PickFacts
  <2>8. k - 1 \notin Bad
      BY <2>1, <2>2, <2>7
  <2>9. t[s \ {Pick(s)}] \in D
      BY <2>7, <2>8
  <2>10. f[Pick(s)] \in D
      BY <2>7
  <2>11. Unfold(f, t, s) = f[Pick(s)] + t[s \ {Pick(s)}]
      BY <2>5 DEF Unfold
  <2>. QED
      BY <2>3, <2>4, <2>9, <2>10, <2>11
<1>3. \A s \in SUBSET S : t[s] \in D
    BY <1>2
<1>4. t \in [SUBSET S -> D]
    BY <1>1, <1>3 DEF IsTable
<1>. QED
    BY <1>4 DEF t

(* The table's entry depends only on the set and on f's values in it. *)
LEMMA SameTable ==
    ASSUME NEW f, NEW S, IntOn(f, S), NEW g, NEW T, IntOn(g, T),
           NEW r \in SUBSET (S \cap T), \A x \in r : f[x] = g[x]
    PROVE  Table(f, S)[r] = Table(g, T)[r]
<1>. DEFINE t == Table(f, S)
            u == Table(g, T)
            Bad == {Cardinality(s) : s \in {q \in SUBSET r : t[q] # u[q]}}
<1>1. IsTable(t, f, S)
    BY TableEquation, Zenon
<1>2. IsTable(u, g, T)
    BY TableEquation, Zenon
<1>3. IsFiniteSet(r)
    BY FS_Subset DEF IntOn
<1>. HIDE DEF t, u
<1>4. Bad = {}
  <2>. SUFFICES ASSUME Bad # {} PROVE FALSE
      OBVIOUS
  <2>1. Bad \subseteq Nat
      BY <1>3, FS_Subset, FS_CardinalityType
  <2>2. PICK k \in Bad : \A m \in Bad : k <= m
      BY <2>1, LeastNumber
  <2>3. PICK s \in SUBSET r : t[s] # u[s] /\ k = Cardinality(s)
      OBVIOUS
  <2>4. t[s] = Unfold(f, t, s) /\ u[s] = Unfold(g, u, s)
      BY <1>1, <1>2 DEF IsTable
  <2>5. s # {}
      BY <2>3, <2>4 DEF Unfold
  <2>6. IsFiniteSet(s)
      BY <1>3, FS_Subset
  <2>7. /\ Pick(s) \in s
        /\ k \in Nat
        /\ Cardinality(s \ {Pick(s)}) = k - 1
      BY <2>3, <2>5, <2>6, PickFacts
  <2>8. k - 1 \notin Bad
      BY <2>1, <2>2, <2>7
  <2>9. t[s \ {Pick(s)}] = u[s \ {Pick(s)}]
      BY <2>7, <2>8
  <2>10. f[Pick(s)] = g[Pick(s)]
      BY <2>7
  <2>. QED
      BY <2>3, <2>4, <2>5, <2>9, <2>10 DEF Unfold
<1>. QED
    BY <1>4 DEF t, u

-----------------------------------------------------------------------------
(* The sum of naturals is a natural; rows of a table add up to an amount. *)
LEMMA SumNat ==
    ASSUME NEW f, NEW S, IsFiniteSet(S), \A x \in S : f[x] \in Nat
    PROVE  SumFunctionOnSet(f, S) \in Nat
<1>1. IntOn(f, S)
    BY DEF IntOn
<1>2. Table(f, S) \in [SUBSET S -> Nat]
    BY <1>1, TableType
<1>. QED
    BY <1>2, SumIsTable

(* The sum of integers is an integer. *)
LEMMA SumInt ==
    ASSUME NEW f, NEW S, IntOn(f, S)
    PROVE  SumFunctionOnSet(f, S) \in Int
<1>1. Table(f, S) \in [SUBSET S -> Int]
    BY TableType DEF IntOn
<1>. QED
    BY <1>1, SumIsTable

(* Nothing adds up to nothing. *)
LEMMA SumEmpty ==
    ASSUME NEW f
    PROVE  SumFunctionOnSet(f, {}) = 0
<1>1. IntOn(f, {})
    BY FS_EmptySet DEF IntOn
<1>2. IsTable(Table(f, {}), f, {})
    BY <1>1, TableEquation, Zenon
<1>3. Table(f, {})[{}] = Unfold(f, Table(f, {}), {})
    BY <1>2, Zenon DEF IsTable
<1>. QED
    BY <1>3, SumIsTable DEF Unfold

(* Only the values on the set matter. *)
LEMMA SumSame ==
    ASSUME NEW f, NEW g, NEW S, IntOn(f, S), \A x \in S : f[x] = g[x]
    PROVE  SumFunctionOnSet(f, S) = SumFunctionOnSet(g, S)
<1>1. IntOn(g, S)
    BY DEF IntOn
<1>. QED
    BY <1>1, SameTable, SumIsTable

-----------------------------------------------------------------------------
(* Induction over the subsets of a finite set, for a property given as the *)
(* set P of the subsets that have it.                                      *)
LEMMA SubsetInduction ==
    ASSUME NEW S, IsFiniteSet(S), NEW P, {} \in P,
           \A s \in SUBSET S : s # {} /\ (\A x \in s : s \ {x} \in P) => s \in P
    PROVE  \A s \in SUBSET S : s \in P
<1>. DEFINE Bad == {Cardinality(s) : s \in {r \in SUBSET S : r \notin P}}
<1>. SUFFICES ASSUME Bad # {} PROVE FALSE
    OBVIOUS
<1>1. Bad \subseteq Nat
    BY FS_Subset, FS_CardinalityType
<1>2. PICK k \in Bad : \A m \in Bad : k <= m
    BY <1>1, LeastNumber
<1>3. PICK s \in SUBSET S : s \notin P /\ k = Cardinality(s)
    OBVIOUS
<1>4. s # {} /\ IsFiniteSet(s)
    BY <1>3, FS_Subset
<1>5. ASSUME NEW x \in s PROVE s \ {x} \in P
  <2>1. Cardinality(s \ {x}) = k - 1
      BY <1>3, <1>4, FS_RemoveElement
  <2>2. k - 1 \notin Bad
      BY <1>1, <1>2
  <2>. QED
      BY <2>1, <2>2
<1>. QED
    BY <1>3, <1>4, <1>5

(* Subsets inherit the premise of the lemmas. *)
LEMMA IntOnSubset ==
    ASSUME NEW f, NEW S, IntOn(f, S), NEW T \in SUBSET S
    PROVE  IntOn(f, T)
BY FS_Subset DEF IntOn

(* The sum takes one element out first. *)
LEMMA SumPick ==
    ASSUME NEW f, NEW S, IntOn(f, S), S # {}
    PROVE  SumFunctionOnSet(f, S) = f[Pick(S)] + SumFunctionOnSet(f, S \ {Pick(S)})
<1>. DEFINE R == S \ {Pick(S)}
<1>1. IsTable(Table(f, S), f, S)
    BY TableEquation, Zenon
<1>2. Table(f, S)[S] = f[Pick(S)] + Table(f, S)[R]
    BY <1>1 DEF IsTable, Unfold
<1>3. IntOn(f, R)
    BY IntOnSubset
<1>. HIDE DEF R
<1>4. R \in SUBSET (S \cap R)
    BY DEF R
<1>5. Table(f, S)[R] = Table(f, R)[R]
    BY <1>3, <1>4, SameTable
<1>. QED
    BY <1>2, <1>5, SumIsTable DEF R

(* Any element may be taken out first: addition commutes. *)
LEMMA SumRemove ==
    ASSUME NEW f, NEW S, IntOn(f, S), NEW x \in S
    PROVE  SumFunctionOnSet(f, S) = f[x] + SumFunctionOnSet(f, S \ {x})
<1>. DEFINE sum(s) == SumFunctionOnSet(f, s)
            P == {s \in SUBSET S : \A y \in s : sum(s) = f[y] + sum(s \ {y})}
<1>1. ASSUME NEW s \in SUBSET S PROVE IntOn(f, s) /\ sum(s) \in Int
    BY IntOnSubset, SumInt
<1>2. ASSUME NEW s \in SUBSET S, s # {}, \A z \in s : s \ {z} \in P, NEW y \in s
      PROVE  sum(s) = f[y] + sum(s \ {y})
  <2>. DEFINE p == Pick(s)
  <2>1. p \in s
      BY DEF Pick
  <2>2. sum(s) = f[p] + sum(s \ {p})
      BY <1>1, <1>2, SumPick
  <2>. HIDE DEF p
  <2>3. CASE y = p
      BY <2>2, <2>3
  <2>4. CASE y # p
    <3>. DEFINE q == sum((s \ {p}) \ {y})
    <3>1. sum(s \ {p}) = f[y] + q
        BY <1>2, <2>1, <2>4
    <3>2. sum(s \ {y}) = f[p] + sum((s \ {y}) \ {p})
        BY <1>2, <2>1, <2>4
    <3>3. (s \ {p}) \ {y} = (s \ {y}) \ {p}
        OBVIOUS
    <3>4. sum(s \ {y}) = f[p] + q
        BY <3>2, <3>3
    <3>5. f[p] \in Int /\ f[y] \in Int
        BY <2>1 DEF IntOn
    <3>6. q \in Int
      <4>1. (s \ {p}) \ {y} \in SUBSET S
          OBVIOUS
      <4>. QED
          BY <1>1, <4>1
    <3>. HIDE DEF sum, q
    <3>. QED
        BY <2>2, <3>1, <3>4, <3>5, <3>6
  <2>. QED
      BY <2>3, <2>4
<1>3. {} \in P
    OBVIOUS
<1>4. IsFiniteSet(S)
    BY DEF IntOn
<1>5. \A s \in SUBSET S : s # {} /\ (\A z \in s : s \ {z} \in P) => s \in P
    BY <1>2
<1>. HIDE DEF P
<1>6. S \in P
    BY <1>3, <1>4, <1>5, SubsetInduction
<1>. QED
    BY <1>6 DEF P

(* Zeros add up to zero. *)
LEMMA SumZero ==
    ASSUME NEW f, NEW S, IsFiniteSet(S), \A x \in S : f[x] = 0
    PROVE  SumFunctionOnSet(f, S) = 0
<1>. DEFINE sum(s) == SumFunctionOnSet(f, s)
            P == {s \in SUBSET S : sum(s) = 0}
<1>1. IntOn(f, S)
    BY DEF IntOn
<1>2. ASSUME NEW s \in SUBSET S, s # {}, \A z \in s : s \ {z} \in P
      PROVE  s \in P
  <2>1. PICK x \in s : TRUE
      BY <1>2
  <2>2. sum(s) = f[x] + sum(s \ {x})
      BY <1>1, IntOnSubset, SumRemove
  <2>3. sum(s \ {x}) = 0
      BY <1>2
  <2>4. f[x] = 0
      OBVIOUS
  <2>. QED
      BY <2>2, <2>3, <2>4
<1>3. {} \in P
    BY SumEmpty
<1>. HIDE DEF P
<1>4. S \in P
    BY <1>2, <1>3, SubsetInduction
<1>. QED
    BY <1>4 DEF P

(* Sums over one set add up element by element. *)
LEMMA SumPlus ==
    ASSUME NEW f, NEW g, NEW h, NEW S, IntOn(f, S), IntOn(g, S),
           \A x \in S : h[x] = f[x] + g[x]
    PROVE  SumFunctionOnSet(h, S) = SumFunctionOnSet(f, S) + SumFunctionOnSet(g, S)
<1>. DEFINE F(s) == SumFunctionOnSet(f, s)
            G(s) == SumFunctionOnSet(g, s)
            H(s) == SumFunctionOnSet(h, s)
            P == {s \in SUBSET S : H(s) = F(s) + G(s)}
<1>1. IntOn(h, S)
    BY DEF IntOn
<1>2. ASSUME NEW s \in SUBSET S
      PROVE  IntOn(f, s) /\ IntOn(g, s) /\ IntOn(h, s) /\ F(s) \in Int /\ G(s) \in Int
    BY <1>1, IntOnSubset, SumInt
<1>3. ASSUME NEW s \in SUBSET S, s # {}, \A z \in s : s \ {z} \in P
      PROVE  s \in P
  <2>1. PICK x \in s : TRUE
      BY <1>3
  <2>. DEFINE r == s \ {x}
  <2>2. F(s) = f[x] + F(r) /\ G(s) = g[x] + G(r) /\ H(s) = h[x] + H(r)
      BY <1>2, SumRemove
  <2>3. r \in SUBSET S /\ H(r) = F(r) + G(r)
      BY <1>3
  <2>4. F(r) \in Int /\ G(r) \in Int
      BY <1>2, <2>3
  <2>5. f[x] \in Int /\ g[x] \in Int /\ h[x] = f[x] + g[x]
      BY DEF IntOn
  <2>. HIDE DEF F, G, H, r
  <2>6. H(s) = F(s) + G(s)
      BY <2>2, <2>3, <2>4, <2>5
  <2>. QED
      BY <2>6
<1>4. {} \in P
    BY SumEmpty
<1>5. IsFiniteSet(S)
    BY DEF IntOn
<1>. HIDE DEF P
<1>6. S \in P
    BY <1>3, <1>4, <1>5, SubsetInduction
<1>. QED
    BY <1>6 DEF P

(* The sum over a set is that over a part of it and that over the rest. *)
LEMMA SumSplit ==
    ASSUME NEW f, NEW S, IntOn(f, S), NEW T \in SUBSET S
    PROVE  SumFunctionOnSet(f, S) = SumFunctionOnSet(f, T) + SumFunctionOnSet(f, S \ T)
<1>. DEFINE sum(s) == SumFunctionOnSet(f, s)
            P == {s \in SUBSET T : sum(S) = sum(s) + sum(S \ s)}
<1>1. ASSUME NEW s \in SUBSET S PROVE IntOn(f, s) /\ sum(s) \in Int
    BY IntOnSubset, SumInt
<1>2. ASSUME NEW s \in SUBSET T, s # {}, \A z \in s : s \ {z} \in P
      PROVE  s \in P
  <2>1. PICK x \in s : TRUE
      BY <1>2
  <2>. DEFINE r == s \ {x}
  <2>2. sum(s) = f[x] + sum(r)
      BY <1>1, SumRemove
  <2>3. sum(S) = sum(r) + sum(S \ r)
      BY <1>2
  <2>4. (S \ r) \ {x} = S \ s /\ x \in S \ r
      OBVIOUS
  <2>5. sum(S \ r) = f[x] + sum(S \ s)
      BY <1>1, <2>4, SumRemove
  <2>6. f[x] \in Int
      BY DEF IntOn
  <2>7. sum(r) \in Int /\ sum(S \ s) \in Int
      BY <1>1
  <2>. HIDE DEF sum, r
  <2>8. sum(S) = sum(s) + sum(S \ s)
      BY <2>2, <2>3, <2>5, <2>6, <2>7
  <2>. QED
      BY <2>8
<1>3. {} \in P
  <2>1. sum(S) = 0 + sum(S \ {})
    <3>1. S \ {} = S /\ sum(S) \in Int
        BY <1>1
    <3>. QED
        BY <3>1
  <2>. QED
      BY <2>1, SumEmpty
<1>4. IsFiniteSet(T)
    BY FS_Subset DEF IntOn
<1>. HIDE DEF P
<1>5. T \in P
    BY <1>2, <1>3, <1>4, SubsetInduction
<1>. QED
    BY <1>5 DEF P

(* Renaming the elements does not change the sum. *)
LEMMA SumRename ==
    ASSUME NEW f, NEW S, IntOn(f, S), NEW b, NEW g,
           \A x, y \in S : b[x] = b[y] => x = y,
           \A x \in S : g[b[x]] = f[x],
           NEW T, \A x \in S : b[x] \in T, \A y \in T : \E x \in S : y = b[x]
    PROVE  SumFunctionOnSet(g, T) = SumFunctionOnSet(f, S)
<1>. DEFINE img(s) == {y \in T : \E x \in s : y = b[x]}
            F(s) == SumFunctionOnSet(f, s)
            G(s) == SumFunctionOnSet(g, s)
            P == {s \in SUBSET S : IsFiniteSet(img(s)) /\ G(img(s)) = F(s)}
<1>1. ASSUME NEW s \in SUBSET S, s # {}, \A z \in s : s \ {z} \in P
      PROVE  s \in P
  <2>1. PICK x \in s : TRUE
      BY <1>1
  <2>. DEFINE r == s \ {x}
  <2>2. IsFiniteSet(img(r)) /\ G(img(r)) = F(r)
      BY <1>1
  <2>3. img(s) = img(r) \cup {b[x]} /\ img(s) \ {b[x]} = img(r)
    <3>1. b[x] \in T /\ b[x] \notin img(r)
        OBVIOUS
    <3>2. \A y : y \in img(s) <=> y \in img(r) \/ y = b[x]
        BY <3>1, Zenon
    <3>. HIDE DEF img
    <3>. QED
        BY <3>1, <3>2
  <2>4. IsFiniteSet(img(s))
    <3>. HIDE DEF img
    <3>1. IsFiniteSet(img(r) \cup {b[x]})
        BY <2>2, FS_AddElement, Zenon
    <3>. QED
        BY <2>3, <3>1, Zenon
  <2>5. IntOn(g, img(s))
      BY <2>4 DEF IntOn
  <2>6. b[x] \in img(s)
      OBVIOUS
  <2>. HIDE DEF img
  <2>7. G(img(s)) = g[b[x]] + G(img(r))
    <3>1. G(img(s)) = g[b[x]] + G(img(s) \ {b[x]})
        BY <2>5, <2>6, SumRemove
    <3>. QED
        BY <2>3, <3>1
  <2>8. F(s) = f[x] + F(r)
      BY IntOnSubset, SumRemove
  <2>9. G(img(s)) = F(s)
      BY <2>2, <2>7, <2>8
  <2>. QED
      BY <2>4, <2>9
<1>2. {} \in P
  <2>1. img({}) = {}
      OBVIOUS
  <2>. QED
      BY <2>1, SumEmpty, FS_EmptySet
<1>3. IsFiniteSet(S)
    BY DEF IntOn
<1>. HIDE DEF P
<1>4. \A s \in SUBSET S : s \in P
    BY <1>1, <1>2, <1>3, SubsetInduction, Zenon
<1>5. img(S) = T
  <2>1. \A y : y \in img(S) <=> y \in T
      BY Zenon
  <2>. HIDE DEF img
  <2>. QED
      BY <2>1
<1>. QED
    BY <1>4, <1>5 DEF P

(* Summing over a part is summing over the whole with zeros elsewhere. *)
LEMMA SumMask ==
    ASSUME NEW f, NEW S, IntOn(f, S), NEW T \in SUBSET S, NEW g,
           \A x \in S : g[x] = IF x \in T THEN f[x] ELSE 0
    PROVE  SumFunctionOnSet(g, S) = SumFunctionOnSet(f, T)
<1>1. IntOn(g, S)
    BY DEF IntOn
<1>2. IntOn(g, T) /\ IsFiniteSet(S \ T) /\ SumFunctionOnSet(g, T) \in Int
    BY <1>1, IntOnSubset, SumInt, FS_Subset DEF IntOn
<1>3. SumFunctionOnSet(g, S) = SumFunctionOnSet(g, T) + SumFunctionOnSet(g, S \ T)
    BY <1>1, SumSplit
<1>4. SumFunctionOnSet(g, S \ T) = 0
  <2>1. \A x \in S \ T : g[x] = 0
      OBVIOUS
  <2>. QED
      BY <1>2, <2>1, SumZero
<1>5. SumFunctionOnSet(g, T) = SumFunctionOnSet(f, T)
  <2>1. \A x \in T : g[x] = f[x]
      OBVIOUS
  <2>. QED
      BY <1>2, <2>1, SumSame
<1>. QED
    BY <1>2, <1>3, <1>4, <1>5

(* One term changes: the sum changes by as much. *)
LEMMA SumAt ==
    ASSUME NEW f, NEW g, NEW S, IntOn(f, S), NEW x \in S, g[x] \in Int,
           \A y \in S \ {x} : g[y] = f[y]
    PROVE  SumFunctionOnSet(g, S) = SumFunctionOnSet(f, S) - f[x] + g[x]
<1>1. IntOn(g, S)
  <2>1. \A y \in S : g[y] \in Int
      BY DEF IntOn
  <2>. QED
      BY <2>1 DEF IntOn
<1>2. IntOn(f, S \ {x}) /\ IntOn(g, S \ {x})
    BY <1>1, IntOnSubset
<1>3. SumFunctionOnSet(f, S \ {x}) = SumFunctionOnSet(g, S \ {x})
    BY <1>2, SumSame
<1>4. SumFunctionOnSet(f, S) = f[x] + SumFunctionOnSet(f, S \ {x})
    BY SumRemove
<1>5. SumFunctionOnSet(g, S) = g[x] + SumFunctionOnSet(g, S \ {x})
    BY <1>1, SumRemove
<1>6. SumFunctionOnSet(f, S \ {x}) \in Int /\ f[x] \in Int
    BY <1>2, SumInt DEF IntOn
<1>. QED
    BY <1>3, <1>4, <1>5, <1>6

(* Smaller terms add up to less. *)
LEMMA SumLess ==
    ASSUME NEW f, NEW g, NEW S, IntOn(f, S), IntOn(g, S), \A x \in S : g[x] <= f[x]
    PROVE  SumFunctionOnSet(g, S) <= SumFunctionOnSet(f, S)
<1>. DEFINE d == [x \in S |-> f[x] - g[x]]
<1>1. \A x \in S : d[x] \in Nat /\ f[x] = g[x] + d[x]
    BY DEF IntOn
<1>. HIDE DEF d
<1>2. IntOn(d, S) /\ IsFiniteSet(S)
    BY <1>1 DEF IntOn
<1>3. SumFunctionOnSet(f, S) = SumFunctionOnSet(g, S) + SumFunctionOnSet(d, S)
    BY <1>1, <1>2, SumPlus
<1>4. SumFunctionOnSet(d, S) \in Nat
    BY <1>1, <1>2, SumNat
<1>5. SumFunctionOnSet(g, S) \in Int
    BY SumInt
<1>. QED
    BY <1>3, <1>4, <1>5

(* Equal terms add up to their number times one of them. *)
LEMMA SumConstant ==
    ASSUME NEW f, NEW S, IsFiniteSet(S), NEW n \in Int, \A x \in S : f[x] = n
    PROVE  SumFunctionOnSet(f, S) = Cardinality(S) * n
<1>. DEFINE sum(s) == SumFunctionOnSet(f, s)
            P == {s \in SUBSET S : sum(s) = Cardinality(s) * n}
<1>1. IntOn(f, S)
    BY DEF IntOn
<1>2. ASSUME NEW s \in SUBSET S, s # {}, \A z \in s : s \ {z} \in P
      PROVE  sum(s) = Cardinality(s) * n
  <2>1. PICK x \in s : TRUE
      BY <1>2
  <2>2. IntOn(f, s) /\ IsFiniteSet(s)
      BY <1>1, IntOnSubset, FS_Subset
  <2>3. sum(s) = f[x] + sum(s \ {x})
      BY <2>2, SumRemove
  <2>4. sum(s \ {x}) = Cardinality(s \ {x}) * n
      BY <1>2
  <2>5. Cardinality(s \ {x}) = Cardinality(s) - 1 /\ Cardinality(s) \in Nat
      BY <2>2, FS_RemoveElement, FS_CardinalityType
  <2>. DEFINE k == Cardinality(s)
  <2>6. f[x] = n
      OBVIOUS
  <2>. HIDE DEF sum, k
  <2>7. sum(s) = n + (k - 1) * n
      BY <2>3, <2>4, <2>5, <2>6 DEF k
  <2>8. k \in Nat
      BY <2>5 DEF k
  <2>9. n + (k - 1) * n = k * n
      BY <2>8
  <2>. QED
      BY <2>7, <2>9 DEF k
<1>3. sum({}) = Cardinality({}) * n
    BY SumEmpty, FS_EmptySet
<1>4. {} \in P /\ \A s \in SUBSET S : s # {} /\ (\A z \in s : s \ {z} \in P) => s \in P
    BY <1>2, <1>3
<1>. HIDE DEF P
<1>5. S \in P
    BY <1>4, SubsetInduction
<1>. QED
    BY <1>5 DEF P
=============================================================================
