-------------------------------- MODULE Sums --------------------------------
(***************************************************************************)
(* Facts about SumFunctionOnSet, the sum of a function over a finite set,  *)
(* which the books of the models are made of.  It is defined by a          *)
(* recursive function on the subsets of the set; an argument by induction  *)
(* is given here as one about a least counterexample.                      *)
(***************************************************************************)
EXTENDS Integers, Functions, TLAPS, FiniteSetTheorems

\* Of some subsets of a finite set one has none of the others within it.
LEMMA LeastSubset ==
  ASSUME NEW S, IsFiniteSet(S), NEW Bad \in SUBSET SUBSET S, Bad # {}
  PROVE  \E T \in Bad : \A U \in SUBSET T : U # T => U \notin Bad
<1>1. Bad \subseteq FiniteSubsetsOf(S)
  BY FS_Subset DEF FiniteSubsetsOf
<1>2. PICK T \in Bad : \A U \in Bad : ~(<<U, T>> \in StrictSubsetOrdering(S))
  BY <1>1, FS_StrictSubsetOrderingWellFounded, WFMin, Zenon
<1> QED BY <1>2 DEF StrictSubsetOrdering

----------------------------------------------------------------------------
(* The recursion.                                                          *)

Pick(s) == CHOOSE x \in s : TRUE

\* What SumFunctionOnSet chooses: a function that adds up what is picked.
Adds(g, f, S) ==
  g = [s \in SUBSET S |-> IF s = {} THEN 0 ELSE f[Pick(s)] + g[s \ {Pick(s)}]]

Adder(f, S) == CHOOSE g : Adds(g, f, S)

LEMMA SumIsAdder ==
  ASSUME NEW f, NEW S
  PROVE  SumFunctionOnSet(f, S) = Adder(f, S)[S]
BY DEF SumFunctionOnSet, FoldFunctionOnSet, MapThenFoldSet, Adder, Adds, Pick

LEMMA PickIn == ASSUME NEW s, s # {} PROVE Pick(s) \in s
BY DEF Pick

LEMMA AddsAt ==
  ASSUME NEW g, NEW f, NEW S, Adds(g, f, S), NEW s \in SUBSET S
  PROVE  g[s] = IF s = {} THEN 0 ELSE f[Pick(s)] + g[s \ {Pick(s)}]
<1> DEFINE h == [t \in SUBSET S |-> IF t = {} THEN 0 ELSE f[Pick(t)] + g[t \ {Pick(t)}]]
<1>1. g = h
  BY DEF Adds
<1>2. h[s] = IF s = {} THEN 0 ELSE f[Pick(s)] + g[s \ {Pick(s)}]
  OBVIOUS
<1> HIDE DEF h
<1> QED BY <1>1, <1>2

\* Two such functions agree where both are defined.
LEMMA AddersAgree ==
  ASSUME NEW f, NEW S, IsFiniteSet(S), NEW T, NEW g, NEW h,
         Adds(g, f, S), Adds(h, f, T), NEW s, s \subseteq S, s \subseteq T
  PROVE  g[s] = h[s]
<1> DEFINE Bad == {t \in SUBSET S : t \subseteq T /\ g[t] # h[t]}
<1> SUFFICES ASSUME Bad # {} PROVE FALSE
  OBVIOUS
<1>1. PICK t \in Bad : \A u \in SUBSET t : u # t => u \notin Bad
  <2>1. Bad \in SUBSET SUBSET S
    OBVIOUS
  <2> HIDE DEF Bad
  <2> QED BY <2>1, LeastSubset
<1>2. /\ g[t] = IF t = {} THEN 0 ELSE f[Pick(t)] + g[t \ {Pick(t)}]
      /\ h[t] = IF t = {} THEN 0 ELSE f[Pick(t)] + h[t \ {Pick(t)}]
  <2>1. t \in SUBSET S /\ t \in SUBSET T
    OBVIOUS
  <2> HIDE DEF Bad
  <2> QED BY <2>1, AddsAt
<1>3. t # {}
  BY <1>2
<1>4. g[t \ {Pick(t)}] = h[t \ {Pick(t)}]
  BY <1>1, <1>3, PickIn
<1> QED BY <1>2, <1>4

\* There is one for every finite set.
LEMMA AdderExists ==
  ASSUME NEW f, NEW S, IsFiniteSet(S)
  PROVE  Adds(Adder(f, S), f, S)
<1> DEFINE Bad == {t \in SUBSET S : ~Adds(Adder(f, t), f, t)}
<1> SUFFICES ASSUME Bad # {} PROVE FALSE
  OBVIOUS
<1>1. PICK t \in Bad : \A u \in SUBSET t : u # t => u \notin Bad
  <2>1. Bad \in SUBSET SUBSET S
    OBVIOUS
  <2> HIDE DEF Bad
  <2> QED BY <2>1, LeastSubset
<1>2. \A u \in SUBSET t : u # t => Adds(Adder(f, u), f, u)
  BY <1>1
<1>3. ~ \E g : Adds(g, f, t)
  BY DEF Adder
<1> HIDE DEF Bad
<1> DEFINE g == [s \in SUBSET t |-> IF s = {} THEN 0
                                    ELSE f[Pick(s)] + Adder(f, s \ {Pick(s)})[s \ {Pick(s)}]]
<1>4. ASSUME NEW u \in SUBSET t, u # t
      PROVE  g[u] = Adder(f, u)[u]
  <2>1. Adds(Adder(f, u), f, u)
    BY <1>2, <1>4
  <2>2. Adder(f, u)[u] = IF u = {} THEN 0 ELSE f[Pick(u)] + Adder(f, u)[u \ {Pick(u)}]
    BY <2>1, AddsAt
  <2>3. ASSUME u # {}
        PROVE  Adder(f, u)[u \ {Pick(u)}] = Adder(f, u \ {Pick(u)})[u \ {Pick(u)}]
    <3> DEFINE v == u \ {Pick(u)}
    <3>1. v \in SUBSET t /\ v # t /\ v \subseteq u
      BY <1>4, <2>3, PickIn
    <3>2. Adds(Adder(f, v), f, v)
      BY <1>2, <3>1
    <3>3. IsFiniteSet(u)
      BY <1>1, FS_Subset DEF Bad
    <3> HIDE DEF v
    <3>4. Adder(f, u)[v] = Adder(f, v)[v]
      BY <2>1, <3>1, <3>2, <3>3, AddersAgree
    <3> QED BY <3>4 DEF v
  <2> QED BY <2>2, <2>3
<1>5. g = [s \in SUBSET t |-> IF s = {} THEN 0 ELSE f[Pick(s)] + g[s \ {Pick(s)}]]
  <2>1. ASSUME NEW s \in SUBSET t, s # {}
        PROVE  g[s \ {Pick(s)}] = Adder(f, s \ {Pick(s)})[s \ {Pick(s)}]
    <3>1. s \ {Pick(s)} \in SUBSET t /\ s \ {Pick(s)} # t
      BY <2>1, PickIn
    <3> HIDE DEF g
    <3> QED BY <3>1, <1>4
  <2> QED BY <2>1, Zenon
<1>6. Adds(g, f, t)
  BY <1>5 DEF Adds
<1> QED BY <1>3, <1>6

\* The sum over no element, and over some: what is picked, and the rest.
LEMMA SumEmpty == ASSUME NEW f PROVE SumFunctionOnSet(f, {}) = 0
<1>1. Adds(Adder(f, {}), f, {})
  BY AdderExists, FS_EmptySet
<1> QED BY <1>1, AddsAt, SumIsAdder

LEMMA SumPick ==
  ASSUME NEW f, NEW S, IsFiniteSet(S), S # {}
  PROVE  SumFunctionOnSet(f, S) = f[Pick(S)] + SumFunctionOnSet(f, S \ {Pick(S)})
<1> DEFINE R == S \ {Pick(S)}
<1>1. IsFiniteSet(R) /\ R \subseteq S
  BY FS_Subset
<1> HIDE DEF R
<1>2. Adds(Adder(f, S), f, S) /\ Adds(Adder(f, R), f, R)
  BY <1>1, AdderExists
<1>3. Adder(f, S)[R] = Adder(f, R)[R]
  BY <1>1, <1>2, AddersAgree
<1>4. Adder(f, S)[S] = f[Pick(S)] + Adder(f, S)[S \ {Pick(S)}]
  BY <1>2, AddsAt
<1> QED BY <1>3, <1>4, SumIsAdder DEF R

----------------------------------------------------------------------------
(* What sums are.                                                          *)

\* A sum of integers is one.
LEMMA SumInt ==
  ASSUME NEW f, NEW S, IsFiniteSet(S), \A x \in S : f[x] \in Int
  PROVE  SumFunctionOnSet(f, S) \in Int
<1> DEFINE Bad == {t \in SUBSET S : SumFunctionOnSet(f, t) \notin Int}
<1> SUFFICES ASSUME Bad # {} PROVE FALSE
  OBVIOUS
<1>1. PICK t \in Bad : \A u \in SUBSET t : u # t => u \notin Bad
  <2>1. Bad \in SUBSET SUBSET S
    OBVIOUS
  <2> HIDE DEF Bad
  <2> QED BY <2>1, LeastSubset
<1>2. IsFiniteSet(t) /\ t \subseteq S
  BY FS_Subset
<1>3. t # {}
  BY SumEmpty
<1>4. Pick(t) \in t /\ t \ {Pick(t)} \in SUBSET t /\ t \ {Pick(t)} # t
  BY <1>3, PickIn
<1>5. f[Pick(t)] \in Int /\ SumFunctionOnSet(f, t \ {Pick(t)}) \in Int
  BY <1>1, <1>2, <1>4
<1> QED BY <1>2, <1>3, <1>5, SumPick

\* It is that of any element and of the rest.
LEMMA SumTake ==
  ASSUME NEW f, NEW S, IsFiniteSet(S), \A y \in S : f[y] \in Int, NEW x \in S
  PROVE  SumFunctionOnSet(f, S) = f[x] + SumFunctionOnSet(f, S \ {x})
<1> DEFINE Splits(t, y) == SumFunctionOnSet(f, t) = f[y] + SumFunctionOnSet(f, t \ {y})
           Bad == {t \in SUBSET S : \E y \in t : ~Splits(t, y)}
<1> SUFFICES ASSUME Bad # {} PROVE FALSE
  OBVIOUS
<1>1. PICK t \in Bad : \A u \in SUBSET t : u # t => u \notin Bad
  <2>1. Bad \in SUBSET SUBSET S
    OBVIOUS
  <2> HIDE DEF Bad
  <2> QED BY <2>1, LeastSubset
<1>2. PICK y \in t : ~Splits(t, y)
  BY <1>1
<1>3. IsFiniteSet(t) /\ t \subseteq S
  BY <1>1, FS_Subset
<1>4. ASSUME NEW u \in SUBSET t, u # t, NEW z \in u
      PROVE  Splits(u, z)
  BY <1>1, <1>3, <1>4
<1> HIDE DEF Bad
<1> DEFINE p == Pick(t)
<1>5. p \in t /\ Splits(t, p)
  BY <1>2, <1>3, SumPick, PickIn
<1>6. y # p
  BY <1>2, <1>5
<1> HIDE DEF p
<1>7. Splits(t \ {p}, y) /\ Splits(t \ {y}, p)
  <2>1. /\ t \ {p} \in SUBSET t /\ t \ {p} # t /\ y \in t \ {p}
        /\ t \ {y} \in SUBSET t /\ t \ {y} # t /\ p \in t \ {y}
    BY <1>2, <1>5, <1>6
  <2> HIDE DEF Splits
  <2> QED BY <2>1, <1>4
<1>8. (t \ {p}) \ {y} = (t \ {y}) \ {p}
  OBVIOUS
<1>9. /\ f[p] \in Int /\ f[y] \in Int
      /\ SumFunctionOnSet(f, (t \ {p}) \ {y}) \in Int
  <2>1. IsFiniteSet((t \ {p}) \ {y})
    BY <1>3, FS_Subset
  <2> QED BY <2>1, <1>2, <1>3, <1>5, SumInt
<1>10. /\ SumFunctionOnSet(f, t) = f[p] + (f[y] + SumFunctionOnSet(f, (t \ {p}) \ {y}))
       /\ SumFunctionOnSet(f, t \ {y}) = f[p] + SumFunctionOnSet(f, (t \ {p}) \ {y})
  BY <1>5, <1>7, <1>8, Zenon
<1>11. Splits(t, y)
  BY <1>9, <1>10
<1> QED BY <1>2, <1>11

\* It grows by what is put in.
LEMMA SumPut ==
  ASSUME NEW f, NEW S, IsFiniteSet(S), NEW x, x \notin S,
         \A y \in S \cup {x} : f[y] \in Int
  PROVE  SumFunctionOnSet(f, S \cup {x}) = f[x] + SumFunctionOnSet(f, S)
<1>1. IsFiniteSet(S \cup {x})
  BY FS_AddElement
<1>2. (S \cup {x}) \ {x} = S
  OBVIOUS
<1> QED BY <1>1, <1>2, SumTake

\* It depends on the values it adds and on no other.
LEMMA SumSame ==
  ASSUME NEW f, NEW g, NEW S, IsFiniteSet(S), \A x \in S : f[x] = g[x]
  PROVE  SumFunctionOnSet(f, S) = SumFunctionOnSet(g, S)
<1> DEFINE Bad == {t \in SUBSET S : SumFunctionOnSet(f, t) # SumFunctionOnSet(g, t)}
<1> SUFFICES ASSUME Bad # {} PROVE FALSE
  OBVIOUS
<1>1. PICK t \in Bad : \A u \in SUBSET t : u # t => u \notin Bad
  <2>1. Bad \in SUBSET SUBSET S
    OBVIOUS
  <2> HIDE DEF Bad
  <2> QED BY <2>1, LeastSubset
<1>2. IsFiniteSet(t) /\ t \subseteq S
  BY FS_Subset
<1>3. t # {}
  BY SumEmpty
<1>4. Pick(t) \in t /\ t \ {Pick(t)} \in SUBSET t /\ t \ {Pick(t)} # t
  BY <1>3, PickIn
<1>5. /\ f[Pick(t)] = g[Pick(t)]
      /\ SumFunctionOnSet(f, t \ {Pick(t)}) = SumFunctionOnSet(g, t \ {Pick(t)})
  BY <1>1, <1>2, <1>4
<1> QED BY <1>2, <1>3, <1>5, SumPick

\* Where two functions differ in one element, so do their sums.
LEMMA SumChange ==
  ASSUME NEW f, NEW g, NEW S, IsFiniteSet(S), NEW x \in S,
         \A y \in S : f[y] \in Int /\ g[y] \in Int, \A y \in S \ {x} : f[y] = g[y]
  PROVE  SumFunctionOnSet(g, S) = SumFunctionOnSet(f, S) + g[x] - f[x]
<1>1. IsFiniteSet(S \ {x})
  BY FS_Subset
<1>2. SumFunctionOnSet(f, S \ {x}) = SumFunctionOnSet(g, S \ {x})
  BY <1>1, SumSame
<1>3. /\ SumFunctionOnSet(f, S) = f[x] + SumFunctionOnSet(f, S \ {x})
      /\ SumFunctionOnSet(g, S) = g[x] + SumFunctionOnSet(g, S \ {x})
  BY SumTake
<1>4. SumFunctionOnSet(f, S \ {x}) \in Int
  BY <1>1, SumInt
<1> QED BY <1>2, <1>3, <1>4

\* A sum of naturals is one.
LEMMA SumNat ==
  ASSUME NEW f, NEW S, IsFiniteSet(S), \A x \in S : f[x] \in Nat
  PROVE  SumFunctionOnSet(f, S) \in Nat
<1> DEFINE Bad == {t \in SUBSET S : SumFunctionOnSet(f, t) \notin Nat}
<1> SUFFICES ASSUME Bad # {} PROVE FALSE
  OBVIOUS
<1>1. PICK t \in Bad : \A u \in SUBSET t : u # t => u \notin Bad
  <2>1. Bad \in SUBSET SUBSET S
    OBVIOUS
  <2> HIDE DEF Bad
  <2> QED BY <2>1, LeastSubset
<1>2. IsFiniteSet(t) /\ t \subseteq S
  BY FS_Subset
<1>3. t # {}
  BY SumEmpty
<1>4. Pick(t) \in t /\ t \ {Pick(t)} \in SUBSET t /\ t \ {Pick(t)} # t
  BY <1>3, PickIn
<1>5. f[Pick(t)] \in Nat /\ SumFunctionOnSet(f, t \ {Pick(t)}) \in Nat
  BY <1>1, <1>2, <1>4
<1> QED BY <1>2, <1>3, <1>5, SumPick

\* What adds nothing may be left out.
LEMMA SumZeros ==
  ASSUME NEW f, NEW S, IsFiniteSet(S), NEW T \in SUBSET S,
         \A x \in S : f[x] \in Int, \A x \in S \ T : f[x] = 0
  PROVE  SumFunctionOnSet(f, S) = SumFunctionOnSet(f, T)
<1> DEFINE Bad == {t \in SUBSET S : SumFunctionOnSet(f, t) # SumFunctionOnSet(f, t \cap T)}
<1>1. ASSUME Bad # {} PROVE FALSE
  <2>1. PICK t \in Bad : \A u \in SUBSET t : u # t => u \notin Bad
    <3>1. Bad \in SUBSET SUBSET S
      OBVIOUS
    <3> HIDE DEF Bad
    <3> QED BY <1>1, <3>1, LeastSubset
  <2>2. IsFiniteSet(t) /\ IsFiniteSet(t \cap T) /\ t \subseteq S
    BY FS_Subset
  <2>3. t # {}
    <3> SUFFICES ASSUME t = {} PROVE FALSE
      OBVIOUS
    <3>1. t \cap T = t
      OBVIOUS
    <3> QED BY <3>1
  <2>4. PICK p \in t : TRUE
    BY <2>3
  <2>5. SumFunctionOnSet(f, t) = f[p] + SumFunctionOnSet(f, t \ {p})
    BY <2>2, SumTake
  <2>6. SumFunctionOnSet(f, t \ {p}) = SumFunctionOnSet(f, (t \ {p}) \cap T)
    BY <2>1, <2>2
  <2>7. f[p] \in Int /\ SumFunctionOnSet(f, (t \ {p}) \cap T) \in Int
    <3>1. IsFiniteSet((t \ {p}) \cap T)
      BY <2>2, FS_Subset
    <3> QED BY <2>2, <3>1, SumInt
  <2>8. CASE p \in T
    <3>1. p \in t \cap T /\ (t \cap T) \ {p} = (t \ {p}) \cap T
      BY <2>8
    <3>2. SumFunctionOnSet(f, t \cap T) = f[p] + SumFunctionOnSet(f, (t \cap T) \ {p})
      BY <2>2, <3>1, SumTake
    <3> QED BY <2>5, <2>6, <3>1, <3>2
  <2>9. CASE p \notin T
    <3>1. f[p] = 0 /\ t \cap T = (t \ {p}) \cap T
      BY <2>2, <2>9
    <3>2. SumFunctionOnSet(f, t \cap T) = SumFunctionOnSet(f, (t \ {p}) \cap T)
      BY <3>1
    <3>3. SumFunctionOnSet(f, t) = SumFunctionOnSet(f, t \cap T)
      BY <2>5, <2>6, <2>7, <3>1, <3>2
    <3> HIDE DEF Bad
    <3> QED BY <2>1, <3>3 DEF Bad
  <2> QED BY <2>8, <2>9
<1>2. S \cap T = T
  OBVIOUS
<1> QED BY <1>1, <1>2

\* A sum of less, over no more of what is not negative, is no more.
LEMMA SumLess ==
  ASSUME NEW f, NEW g, NEW S, IsFiniteSet(S), NEW T \in SUBSET S,
         \A x \in S : f[x] \in Int /\ g[x] \in Nat, \A x \in T : f[x] <= g[x]
  PROVE  SumFunctionOnSet(f, T) <= SumFunctionOnSet(g, S)
<1> DEFINE Bad == {t \in SUBSET S : ~(SumFunctionOnSet(f, t \cap T) <= SumFunctionOnSet(g, t))}
<1>1. ASSUME Bad # {} PROVE FALSE
  <2>1. PICK t \in Bad : \A u \in SUBSET t : u # t => u \notin Bad
    <3>1. Bad \in SUBSET SUBSET S
      OBVIOUS
    <3> HIDE DEF Bad
    <3> QED BY <1>1, <3>1, LeastSubset
  <2>2. IsFiniteSet(t) /\ IsFiniteSet(t \cap T) /\ t \subseteq S
    BY FS_Subset
  <2>3. t # {}
    <3> SUFFICES ASSUME t = {} PROVE FALSE
      OBVIOUS
    <3>1. t \cap T = {}
      OBVIOUS
    <3> QED BY <3>1, SumEmpty
  <2>4. PICK p \in t : TRUE
    BY <2>3
  <2>5. SumFunctionOnSet(g, t) = g[p] + SumFunctionOnSet(g, t \ {p})
    BY <2>2, SumTake
  <2>6. SumFunctionOnSet(f, (t \ {p}) \cap T) <= SumFunctionOnSet(g, t \ {p})
    BY <2>1, <2>2
  <2>7. /\ f[p] \in Int /\ g[p] \in Nat
        /\ SumFunctionOnSet(f, (t \ {p}) \cap T) \in Int
        /\ SumFunctionOnSet(g, t \ {p}) \in Int
    <3>1. IsFiniteSet((t \ {p}) \cap T) /\ IsFiniteSet(t \ {p})
      BY <2>2, FS_Subset
    <3> QED BY <2>2, <3>1, SumInt
  <2>8. CASE p \in T
    <3>1. p \in t \cap T /\ (t \cap T) \ {p} = (t \ {p}) \cap T
      BY <2>8
    <3>2. SumFunctionOnSet(f, t \cap T) = f[p] + SumFunctionOnSet(f, (t \cap T) \ {p})
      BY <2>2, <3>1, SumTake
    <3>3. f[p] <= g[p]
      BY <2>8
    <3> QED BY <2>5, <2>6, <2>7, <3>1, <3>2, <3>3
  <2>9. CASE p \notin T
    <3>1. t \cap T = (t \ {p}) \cap T
      BY <2>9
    <3>2. SumFunctionOnSet(f, t \cap T) = SumFunctionOnSet(f, (t \ {p}) \cap T)
      BY <3>1
    <3>3. SumFunctionOnSet(f, t \cap T) <= SumFunctionOnSet(g, t)
      BY <2>5, <2>6, <2>7, <3>2
    <3> HIDE DEF Bad
    <3> QED BY <2>1, <3>3 DEF Bad
  <2> QED BY <2>8, <2>9
<1>2. S \cap T = T
  OBVIOUS
<1> QED BY <1>1, <1>2

\* A sum of numbers no greater than k is at most k for each.
LEMMA SumAtMost ==
  ASSUME NEW f, NEW S, IsFiniteSet(S), NEW k \in Int,
         \A x \in S : f[x] \in Int /\ f[x] <= k
  PROVE  SumFunctionOnSet(f, S) <= Cardinality(S) * k
<1> DEFINE Bad == {t \in SUBSET S : ~(SumFunctionOnSet(f, t) <= Cardinality(t) * k)}
<1> SUFFICES ASSUME Bad # {} PROVE FALSE
  OBVIOUS
<1>1. PICK t \in Bad : \A u \in SUBSET t : u # t => u \notin Bad
  <2>1. Bad \in SUBSET SUBSET S
    OBVIOUS
  <2> HIDE DEF Bad
  <2> QED BY <2>1, LeastSubset
<1>2. IsFiniteSet(t) /\ t \subseteq S
  BY FS_Subset
<1>3. t # {}
  <2>1. SumFunctionOnSet(f, {}) = 0 /\ Cardinality({}) = 0
    BY SumEmpty, FS_EmptySet
  <2>2. ~(SumFunctionOnSet(f, t) <= Cardinality(t) * k)
    OBVIOUS
  <2> HIDE DEF Bad
  <2> SUFFICES ASSUME t = {} PROVE FALSE
    OBVIOUS
  <2>3. SumFunctionOnSet(f, t) = 0 /\ Cardinality(t) = 0
    BY <2>1
  <2> QED BY <2>2, <2>3
<1> DEFINE p == Pick(t)
           u == t \ {p}
<1>4. p \in t /\ u \in SUBSET t /\ u # t
  BY <1>3, PickIn
<1>5. f[p] \in Int /\ f[p] <= k /\ IsFiniteSet(u) /\ u \in SUBSET S
  BY <1>2, <1>4, FS_RemoveElement
<1>6. SumFunctionOnSet(f, u) <= Cardinality(u) * k
  BY <1>1, <1>4, <1>5
<1>7. SumFunctionOnSet(f, t) = f[p] + SumFunctionOnSet(f, u)
  BY <1>2, <1>3, SumPick
<1>8. Cardinality(u) = Cardinality(t) - 1 /\ Cardinality(t) \in Nat
  BY <1>2, <1>4, FS_RemoveElement, FS_CardinalityType
<1>9. SumFunctionOnSet(f, u) \in Int
  BY <1>5, <1>2, SumInt
<1>10. ~(SumFunctionOnSet(f, t) <= Cardinality(t) * k)
  OBVIOUS
<1> HIDE DEF Bad, p, u
<1>11. (Cardinality(t) - 1) * k = Cardinality(t) * k - k /\ Cardinality(t) * k \in Int
  BY <1>8
<1> DEFINE m == Cardinality(t) * k
           v == SumFunctionOnSet(f, u)
<1>12. v <= m - k /\ m \in Int /\ v \in Int
  BY <1>6, <1>8, <1>9, <1>11
<1>13. f[p] + v <= m
  <2> HIDE DEF m, v
  <2> QED BY <1>5, <1>12
<1> QED BY <1>7, <1>10, <1>13
=============================================================================
