------------------------------- MODULE Sommes -------------------------------
(***************************************************************************)
(* Sums over finite sets, as the community modules define them (a fold),   *)
(* and the greatest element of a set: facts that hold for every finite     *)
(* set, by induction on its size.  The least element of a set of naturals  *)
(* stands for the induction principle, which takes a predicate.            *)
(***************************************************************************)
EXTENDS Integers, FiniteSetsExt, FiniteSetTheorems, WellFoundedInduction, TLAPS

(* A set of naturals that is not empty has a least element.                *)
LEMMA PlusPetitElement ==
  ASSUME NEW T \in SUBSET Nat, T # {}
  PROVE  \E x \in T : \A y \in T : x <= y
<1>1. PICK R : R = OpToRel(<, Nat)
  OBVIOUS
<1>2. IsWellFoundedOn(R, Nat)
  BY <1>1, NatLessThanWellFounded
<1>3. PICK x \in T : \A y \in T : <<y, x>> \notin R
  BY <1>2, WFMin
<1>4. ASSUME NEW y \in T PROVE x <= y
  <2>1. x \in Nat /\ y \in Nat
    OBVIOUS
  <2>2. y < x => <<y, x>> \in R
    BY <1>1, <2>1 DEF OpToRel
  <2>3. ~(y < x)
    BY <1>3, <2>2
  <2>. QED
    BY <2>1, <2>3
<1>. QED
  BY <1>4

(* Induction over the naturals.                                            *)
LEMMA Recurrence ==
  ASSUME NEW N \in SUBSET Nat, 0 \in N, \A n \in N : n + 1 \in N
  PROVE  N = Nat
<1>. SUFFICES ASSUME Nat \ N # {} PROVE FALSE
  OBVIOUS
<1>1. PICK x \in Nat \ N : \A y \in Nat \ N : x <= y
  BY PlusPetitElement
<1>2. x - 1 \in Nat /\ x - 1 < x
  OBVIOUS
<1>3. x - 1 \in N
  BY <1>1, <1>2
<1>. QED
  BY <1>3

(* The recursion of a sum over the subsets of S.                           *)
Total(f, g, s) == IF s = {} THEN 0
                  ELSE f[CHOOSE x \in s : TRUE] + g[s \ {CHOOSE x \in s : TRUE}]

(* The sums of f on the subsets of S.                                      *)
Totaux(f, S) == CHOOSE g : g = [s \in SUBSET S |-> Total(f, g, s)]

(* A sum is what its recursion gives.                                      *)
LEMMA SommeDef ==
  ASSUME NEW f, NEW S
  PROVE  SumFunctionOnSet(f, S) = Totaux(f, S)[S]
  BY DEF SumFunctionOnSet, FoldFunctionOnSet, MapThenFoldSet, Totaux, Total

(* g is the sum of f on the subsets of S.                                  *)
Additionne(f, g, S) == \A s \in SUBSET S : g[s] = Total(f, g, s)

(* The same for the subsets of at most n elements.                         *)
Totalise(f, S, g, n) ==
    \A s \in SUBSET S : Cardinality(s) <= n => g[s] = Total(f, g, s)

(* A set that is not empty loses the element it chose.                     *)
LEMMA UnDeMoins ==
  ASSUME NEW S, IsFiniteSet(S), NEW s \in SUBSET S, NEW x \in s
  PROVE  /\ IsFiniteSet(s) /\ s \ {x} \in SUBSET S
         /\ Cardinality(s) \in Nat /\ Cardinality(s \ {x}) \in Nat
         /\ Cardinality(s \ {x}) = Cardinality(s) - 1
<1>1. IsFiniteSet(s) /\ Cardinality(s) \in Nat
  BY FS_Subset, FS_CardinalityType
<1>2. IsFiniteSet(s \ {x}) /\ Cardinality(s \ {x}) = Cardinality(s) - 1
  BY <1>1, FS_RemoveElement
<1>. QED
  BY <1>1, <1>2, FS_CardinalityType

(* The recursion of a sum has a solution.                                  *)
LEMMA TotauxExistent ==
  ASSUME NEW f, NEW S, IsFiniteSet(S)
  PROVE  Additionne(f, Totaux(f, S), S)
<1>1. PICK N \in SUBSET Nat : \A n \in Nat : n \in N <=> \E g : Totalise(f, S, g, n)
  <2>1. PICK N : N = {n \in Nat : \E g : Totalise(f, S, g, n)}
    OBVIOUS
  <2>. QED
    BY <2>1
<1>2. 0 \in N
  <2>1. PICK g : g = [s \in SUBSET S |-> 0]
    OBVIOUS
  <2>2. ASSUME NEW s \in SUBSET S, Cardinality(s) <= 0 PROVE s = {}
    BY <2>2, FS_Subset, FS_EmptySet, FS_CardinalityType
  <2>3. Totalise(f, S, g, 0)
    BY <2>1, <2>2 DEF Totalise, Total
  <2>. QED
    BY <1>1, <2>3
<1>3. ASSUME NEW n \in N PROVE n + 1 \in N
  <2>1. PICK g : Totalise(f, S, g, n)
    BY <1>1
  <2>2. PICK h : h = [s \in SUBSET S |-> IF Cardinality(s) <= n THEN g[s] ELSE Total(f, g, s)]
    OBVIOUS
  <2>3. ASSUME NEW s \in SUBSET S, Cardinality(s) <= n + 1 PROVE h[s] = Total(f, h, s)
    <3>1. CASE s = {}
      BY <2>1, <2>2, <3>1 DEF Total, Totalise
    <3>2. CASE s # {}
      <4>1. PICK x \in s : x = CHOOSE y \in s : TRUE
        BY <3>2
      <4>2. /\ s \ {x} \in SUBSET S /\ Cardinality(s) \in Nat
            /\ Cardinality(s \ {x}) = Cardinality(s) - 1
        BY <4>1, UnDeMoins
      <4>3. Cardinality(s \ {x}) <= n
        BY <2>3, <4>2
      <4>4. h[s \ {x}] = g[s \ {x}]
        BY <2>2, <4>2, <4>3
      <4>5. Total(f, h, s) = Total(f, g, s)
        BY <3>2, <4>1, <4>4 DEF Total
      <4>6. h[s] = Total(f, g, s)
        BY <2>1, <2>2 DEF Totalise
      <4>. QED
        BY <4>5, <4>6
    <3>. QED
      BY <3>1, <3>2
  <2>4. Totalise(f, S, h, n + 1)
    BY <2>3 DEF Totalise
  <2>. QED
    BY <1>1, <2>4
<1>4. Cardinality(S) \in N
  BY <1>2, <1>3, Recurrence, FS_CardinalityType
<1>5. PICK g : Totalise(f, S, g, Cardinality(S))
  BY <1>1, <1>4
<1>6. PICK h : h = [s \in SUBSET S |-> g[s]]
  OBVIOUS
<1>7. ASSUME NEW s \in SUBSET S PROVE h[s] = Total(f, h, s)
  <2>1. Cardinality(s) <= Cardinality(S)
    BY FS_Subset
  <2>2. h[s] = Total(f, g, s)
    BY <1>5, <1>6, <2>1 DEF Totalise
  <2>3. ASSUME s # {} PROVE g[s \ {CHOOSE x \in s : TRUE}] = h[s \ {CHOOSE x \in s : TRUE}]
    BY <1>6
  <2>. QED
    BY <2>2, <2>3 DEF Total
<1>8. h = [s \in SUBSET S |-> Total(f, h, s)]
  BY <1>6, <1>7
<1>9. Totaux(f, S) = [s \in SUBSET S |-> Total(f, Totaux(f, S), s)]
  BY <1>8 DEF Totaux
<1>. QED
  BY <1>9 DEF Additionne

(* g[s] is a sum from which any element may be taken out.                   *)
Retire(f, g, s) ==
    /\ g[s] \in Int
    /\ (\A y \in s : f[y] \in Nat) => g[s] \in Nat
    /\ \A y \in s : g[s] = f[y] + g[s \ {y}]

(* This for the subsets of at most n elements.                             *)
RetireTout(f, S, g, n) ==
    \A s \in SUBSET S : Cardinality(s) <= n => Retire(f, g, s)

(* One may take any element of a set first.                                *)
LEMMA TotalSans ==
  ASSUME NEW S, IsFiniteSet(S), NEW f, \A x \in S : f[x] \in Int,
         NEW g, Additionne(f, g, S)
  PROVE  \A s \in SUBSET S : Retire(f, g, s)
<1>1. PICK N \in SUBSET Nat : \A n \in Nat : n \in N <=> RetireTout(f, S, g, n)
  <2>1. PICK N : N = {n \in Nat : RetireTout(f, S, g, n)}
    OBVIOUS
  <2>2. N \in SUBSET Nat
    BY <2>1
  <2>3. \A n \in Nat : n \in N <=> RetireTout(f, S, g, n)
    BY <2>1, Zenon
  <2>. QED
    BY <2>2, <2>3, Zenon
<1>2. Retire(f, g, {})
  <2>1. g[{}] = 0
    BY DEF Additionne, Total
  <2>2. \A y \in {} : g[{}] = f[y] + g[{} \ {y}]
    OBVIOUS
  <2>. QED
    BY <2>1, <2>2 DEF Retire
<1>3. 0 \in N
  <2>1. ASSUME NEW s \in SUBSET S, Cardinality(s) <= 0 PROVE s = {}
    BY <2>1, FS_Subset, FS_EmptySet, FS_CardinalityType
  <2>. QED
    BY <1>1, <1>2, <2>1 DEF RetireTout
<1>4. ASSUME NEW n \in N PROVE n + 1 \in N
  <2>1. ASSUME NEW s \in SUBSET S, Cardinality(s) <= n + 1, s # {} PROVE Retire(f, g, s)
    <3>1. PICK x \in s : x = CHOOSE z \in s : TRUE
      BY <2>1
    <3>2. g[s] = f[x] + g[s \ {x}]
      BY <2>1, <3>1 DEF Additionne, Total
    <3>3. \A y \in s : s \ {y} \in SUBSET S /\ Cardinality(s \ {y}) <= n
      BY <2>1, UnDeMoins
    <3>4. \A y \in s : Retire(f, g, s \ {y})
      BY <1>1, <3>3 DEF RetireTout
    <3>5. g[s] \in Int
      <4>1. f[x] \in Int /\ g[s \ {x}] \in Int
        BY <3>1, <3>4 DEF Retire
      <4>. QED
        BY <3>2, <4>1
    <3>7. ASSUME \A y \in s : f[y] \in Nat PROVE g[s] \in Nat
      <4>1. f[x] \in Nat /\ g[s \ {x}] \in Nat
        BY <3>1, <3>4, <3>7 DEF Retire
      <4>. QED
        BY <3>2, <4>1
    <3>6. ASSUME NEW y \in s, y # x PROVE g[s] = f[y] + g[s \ {y}]
      <4>1. (s \ {x}) \ {y} = (s \ {y}) \ {x}
        OBVIOUS
      <4>2. PICK r : r = (s \ {x}) \ {y}
        OBVIOUS
      <4>3. g[s \ {x}] = f[y] + g[r]
        BY <3>4, <3>6, <4>2 DEF Retire
      <4>4. g[s \ {y}] = f[x] + g[r]
        BY <3>4, <3>6, <4>1, <4>2 DEF Retire
      <4>5. g[r] \in Int
        <5>1. r \in SUBSET S /\ Cardinality(r) <= Cardinality(s \ {x})
          BY <3>3, <4>2, FS_Subset
        <5>2. Cardinality(r) \in Nat /\ Cardinality(s \ {x}) \in Nat
          BY <3>3, <4>2, FS_Subset, FS_CardinalityType
        <5>3. Retire(f, g, r)
          <6>1. Cardinality(s \ {x}) <= n /\ n \in Nat
            BY <3>3
          <6>2. Cardinality(r) <= n
            BY <5>1, <5>2, <6>1
          <6>. QED
            BY <1>1, <5>1, <6>2 DEF RetireTout
        <5>. QED
          BY <5>3 DEF Retire
      <4>. QED
        BY <3>2, <4>3, <4>4, <4>5
    <3>. QED
      BY <3>2, <3>5, <3>6, <3>7 DEF Retire
  <2>2. \A s \in SUBSET S : Cardinality(s) <= n + 1 => Retire(f, g, s)
    BY <1>2, <2>1
  <2>3. n + 1 \in Nat
    OBVIOUS
  <2>. QED
    BY <1>1, <2>2, <2>3 DEF RetireTout
<1>5. ASSUME NEW s \in SUBSET S PROVE Retire(f, g, s)
  <2>1. N = Nat
    BY <1>3, <1>4, Recurrence
  <2>2. Cardinality(s) \in Nat
    BY FS_Subset, FS_CardinalityType
  <2>3. RetireTout(f, S, g, Cardinality(s))
    BY <1>1, <2>1, <2>2
  <2>4. Cardinality(s) <= Cardinality(s)
    BY <2>2
  <2>. QED
    BY <2>3, <2>4, Zenon DEF RetireTout
<1>. QED
  BY <1>5

(* Two sums agree on the subsets of at most n elements.                    *)
EgauxJusqua(S, g, h, n) == \A s \in SUBSET S : Cardinality(s) <= n => g[s] = h[s]

(* The totals of a set are those of every set that holds it.               *)
LEMMA TotauxEgaux ==
  ASSUME NEW S, IsFiniteSet(S), NEW f, NEW g, NEW T, NEW h, NEW e,
         Additionne(f, g, S), Additionne(e, h, T),
         S \subseteq T, \A x \in S : e[x] = f[x]
  PROVE  \A s \in SUBSET S : g[s] = h[s]
<1>1. PICK N \in SUBSET Nat : \A n \in Nat : n \in N <=> EgauxJusqua(S, g, h, n)
  <2>1. PICK N : N = {n \in Nat : EgauxJusqua(S, g, h, n)}
    OBVIOUS
  <2>2. N \in SUBSET Nat
    BY <2>1
  <2>3. \A n \in Nat : n \in N <=> EgauxJusqua(S, g, h, n)
    BY <2>1, Zenon
  <2>. QED
    BY <2>2, <2>3, Zenon
<1>2. g[{}] = h[{}]
  BY DEF Additionne, Total
<1>3. 0 \in N
  <2>1. ASSUME NEW s \in SUBSET S, Cardinality(s) <= 0 PROVE g[s] = h[s]
    <3>1. s = {}
      BY <2>1, FS_Subset, FS_EmptySet, FS_CardinalityType
    <3>. QED
      BY <1>2, <3>1
  <2>. QED
    BY <1>1, <2>1 DEF EgauxJusqua
<1>4. ASSUME NEW n \in N PROVE n + 1 \in N
  <2>1. ASSUME NEW s \in SUBSET S, Cardinality(s) <= n + 1, s # {} PROVE g[s] = h[s]
    <3>1. PICK x \in s : x = CHOOSE y \in s : TRUE
      BY <2>1
    <3>2. /\ s \ {x} \in SUBSET S /\ Cardinality(s) \in Nat
          /\ Cardinality(s \ {x}) = Cardinality(s) - 1
      BY UnDeMoins
    <3>3. Cardinality(s \ {x}) <= n
      BY <2>1, <3>2
    <3>4. g[s \ {x}] = h[s \ {x}]
      BY <1>1, <3>2, <3>3 DEF EgauxJusqua
    <3>5. g[s] = f[x] + g[s \ {x}]
      BY <2>1, <3>1 DEF Additionne, Total
    <3>6. h[s] = e[x] + h[s \ {x}]
      <4>1. s \in SUBSET T
        OBVIOUS
      <4>2. h[s] = Total(e, h, s)
        BY <4>1 DEF Additionne
      <4>. QED
        BY <2>1, <3>1, <4>2 DEF Total
    <3>. QED
      BY <3>4, <3>5, <3>6
  <2>2. \A s \in SUBSET S : Cardinality(s) <= n + 1 => g[s] = h[s]
    BY <1>2, <2>1
  <2>3. n + 1 \in Nat
    OBVIOUS
  <2>. QED
    BY <1>1, <2>2, <2>3 DEF EgauxJusqua
<1>5. ASSUME NEW s \in SUBSET S PROVE g[s] = h[s]
  <2>1. N = Nat
    BY <1>3, <1>4, Recurrence
  <2>2. Cardinality(s) \in Nat /\ Cardinality(s) <= Cardinality(s)
    BY FS_Subset, FS_CardinalityType
  <2>3. EgauxJusqua(S, g, h, Cardinality(s))
    BY <1>1, <2>1, <2>2
  <2>. QED
    BY <2>2, <2>3 DEF EgauxJusqua
<1>. QED
  BY <1>5

(* A sum depends on the values it adds only.                               *)
LEMMA SommeEgale ==
  ASSUME NEW S, IsFiniteSet(S), NEW f, NEW e, \A x \in S : e[x] = f[x]
  PROVE  SumFunctionOnSet(f, S) = SumFunctionOnSet(e, S)
<1>1. Additionne(f, Totaux(f, S), S) /\ Additionne(e, Totaux(e, S), S)
  BY TotauxExistent
<1>2. \A s \in SUBSET S : Totaux(f, S)[s] = Totaux(e, S)[s]
  BY <1>1, TotauxEgaux
<1>. QED
  BY <1>2, SommeDef

(* The sum over the empty set.                                             *)
LEMMA SommeVide == \A f : SumFunctionOnSet(f, {}) = 0
<1>1. ASSUME NEW f PROVE SumFunctionOnSet(f, {}) = 0
  <2>1. Additionne(f, Totaux(f, {}), {})
    BY TotauxExistent, FS_EmptySet
  <2>2. Totaux(f, {})[{}] = 0
    BY <2>1 DEF Additionne, Total
  <2>. QED
    BY <2>2, SommeDef
<1>. QED
  BY <1>1

(* Any element of a set may be taken out of its sum.                       *)
LEMMA SommeSans ==
  ASSUME NEW S, IsFiniteSet(S), NEW f, \A x \in S : f[x] \in Int
  PROVE  /\ SumFunctionOnSet(f, S) \in Int
         /\ (\A x \in S : f[x] \in Nat) => SumFunctionOnSet(f, S) \in Nat
         /\ \A x \in S : SumFunctionOnSet(f, S) = f[x] + SumFunctionOnSet(f, S \ {x})
<1>1. PICK g : g = Totaux(f, S)
  OBVIOUS
<1>2. Additionne(f, g, S)
  BY <1>1, TotauxExistent
<1>3. Retire(f, g, S)
  BY <1>2, TotalSans
<1>4. ASSUME NEW x \in S PROVE Totaux(f, S \ {x})[S \ {x}] = g[S \ {x}]
  <2>1. IsFiniteSet(S \ {x}) /\ S \ {x} \subseteq S
    BY FS_RemoveElement
  <2>2. PICK h : h = Totaux(f, S \ {x})
    OBVIOUS
  <2>3. Additionne(f, h, S \ {x})
    BY <2>1, <2>2, TotauxExistent
  <2>4. PICK T : T = S \ {x}
    OBVIOUS
  <2>5. \A s \in SUBSET T : h[s] = g[s]
    BY <1>2, <2>1, <2>3, <2>4, TotauxEgaux
  <2>. QED
    BY <2>2, <2>4, <2>5
<1>. QED
  BY <1>1, <1>3, <1>4, SommeDef DEF Retire

(* An element that was not there adds its value.                           *)
LEMMA SommeAvec ==
  ASSUME NEW S, IsFiniteSet(S), NEW f, NEW z, z \notin S, f[z] \in Int,
         \A x \in S : f[x] \in Int
  PROVE  SumFunctionOnSet(f, S \cup {z}) = SumFunctionOnSet(f, S) + f[z]
<1>1. PICK T : T = S \cup {z}
  OBVIOUS
<1>2. IsFiniteSet(T) /\ z \in T /\ T \ {z} = S /\ \A x \in T : f[x] \in Int
  BY <1>1, FS_AddElement
<1>3. SumFunctionOnSet(f, T) = f[z] + SumFunctionOnSet(f, S)
  BY <1>2, SommeSans
<1>4. SumFunctionOnSet(f, S) \in Int
  BY SommeSans
<1>. QED
  BY <1>1, <1>2, <1>3, <1>4

(* A bounded set of naturals that is not empty has a greatest element.     *)
LEMMA PlusGrand ==
  ASSUME NEW T \in SUBSET Nat, T # {}, NEW n \in Nat, \A x \in T : x <= n
  PROVE  Max(T) \in T /\ \A y \in T : y <= Max(T)
<1>1. PICK U : U = {n - x : x \in T}
  OBVIOUS
<1>2. U \in SUBSET Nat /\ U # {}
  <2>1. \A x \in T : x \in Nat /\ n - x \in Nat
    OBVIOUS
  <2>2. PICK x : x \in T
    OBVIOUS
  <2>. QED
    BY <1>1, <2>1, <2>2
<1>3. PICK u \in U : \A v \in U : u <= v
  BY <1>2, PlusPetitElement
<1>4. PICK x \in T : u = n - x
  BY <1>1
<1>5. ASSUME NEW y \in T PROVE x >= y
  <2>1. n - y \in U
    BY <1>1
  <2>2. n - x <= n - y
    BY <1>3, <1>4, <2>1
  <2>. QED
    BY <2>2
<1>6. \E z \in T : \A y \in T : z >= y
  BY <1>5
<1>7. Max(T) \in T /\ \A y \in T : Max(T) >= y
  BY <1>6 DEF Max
<1>. QED
  BY <1>7
=============================================================================
