-------------------------------- MODULE Sums --------------------------------
(***************************************************************************)
(* Induction over finite sets and intervals, and what proofs need to know  *)
(* of the sums SumFunctionOnSet of module Functions.  Its definition is    *)
(* recursive and so a CHOOSE: first there must be a function that          *)
(* satisfies the equation.                                                 *)
(***************************************************************************)
EXTENDS Integers, Functions, FiniteSetTheorems, WellFoundedInduction, TLAPS

(* What fails for some part of a finite set fails for a smallest one.      *)
LEMMA SmallestSet ==
  ASSUME NEW S, IsFiniteSet(S), NEW F, F \subseteq SUBSET S, F # {}
  PROVE  \E T \in F : \A U \in F : U \subseteq T => U = T
<1> DEFINE R == StrictSubsetOrdering(S)
<1>1. IsWellFoundedOn(R, SUBSET S)
  BY FS_StrictSubsetOrderingWellFounded, FS_FiniteSubsetsOfFinite
<1>2. \A T, U \in SUBSET S : U \subseteq T /\ U # T => <<U, T>> \in R
  BY DEF StrictSubsetOrdering
<1> HIDE DEF R
<1>3. \E T \in F : \A U \in F : ~ (<<U, T>> \in R)
  BY <1>1, WFMin
<1> QED
  BY <1>2, <1>3

(* What holds at lo, and after every step, holds up to hi.                 *)
LEMMA IntervalInduction ==
  ASSUME NEW lo \in Int, NEW hi \in Int, NEW good, lo \in good,
         \A n \in lo + 1 .. hi : n - 1 \in good => n \in good
  PROVE  lo .. hi \subseteq good
<1> DEFINE bad == {n \in lo .. hi : n \notin good}
           F == {lo .. n : n \in bad}
<1>1. SUFFICES ASSUME bad # {} PROVE FALSE
  OBVIOUS
<1>2. PICK T \in F : \A U \in F : U \subseteq T => U = T
  <2> DEFINE S == lo .. hi
  <2>1. IsFiniteSet(S)
    BY FS_Interval
  <2>2. F \subseteq SUBSET S
    OBVIOUS
  <2>3. F # {}
    BY <1>1
  <2> HIDE DEF F, S
  <2> QED
    BY <2>1, <2>2, <2>3, SmallestSet
<1>3. PICK n \in bad : T = lo .. n
  OBVIOUS
<1>4. n # lo /\ n \in lo + 1 .. hi
  OBVIOUS
<1>5. n - 1 \in bad
  BY <1>4
<1>6. lo .. (n - 1) \in F /\ lo .. (n - 1) \subseteq T /\ n \in T /\ n \notin lo .. (n - 1)
  BY <1>3, <1>4, <1>5
<1> QED
  BY <1>2, <1>6

-----------------------------------------------------------------------------
(* The equation by which the sums of all parts of a set are defined.       *)
Picked(s) == CHOOSE x \in s : TRUE

Recurrence(f, s, g) == IF s = {} THEN 0 ELSE f[Picked(s)] + g[s \ {Picked(s)}]
PartSums(f, S, g) == [s \in SUBSET S |-> Recurrence(f, s, g)]

ArePartSums(f, S, g) == g = PartSums(f, S, g)

LEMMA SumIsPartSum ==
  ASSUME NEW f, NEW S
  PROVE  SumFunctionOnSet(f, S) = (CHOOSE g : ArePartSums(f, S, g))[S]
BY DEF SumFunctionOnSet, FoldFunctionOnSet, MapThenFoldSet, PartSums, ArePartSums, Recurrence,
   Picked

LEMMA PickedIsElement ==
  ASSUME NEW s, s # {}
  PROVE  Picked(s) \in s
BY DEF Picked

(* Whichever set they belong to, sums of the same part are the same.       *)
LEMMA PartSumsAgree ==
  ASSUME NEW f, NEW S, IsFiniteSet(S), NEW T \in SUBSET S, NEW g, NEW h,
         ArePartSums(f, S, g), ArePartSums(f, T, h)
  PROVE  g[T] = h[T]
<1> DEFINE F == {s \in SUBSET T : g[s] # h[s]}
<1>1. SUFFICES ASSUME F # {} PROVE FALSE
  OBVIOUS
<1>2. PICK s \in F : \A u \in F : u \subseteq s => u = s
  <2>1. F \subseteq SUBSET S
    OBVIOUS
  <2> HIDE DEF F
  <2> QED
    BY <1>1, <2>1, SmallestSet
<1>3. g[s] = Recurrence(f, s, g) /\ h[s] = Recurrence(f, s, h)
  BY DEF ArePartSums, PartSums
<1>4. s # {}
  BY <1>3 DEF Recurrence
<1>5. Picked(s) \in s
  BY <1>4, PickedIsElement
<1>6. s \ {Picked(s)} \notin F
  BY <1>2, <1>5
<1> QED
  BY <1>3, <1>4, <1>6 DEF Recurrence

(* Some function satisfies the equation, by the sums of smaller sets.      *)
LEMMA PartSumsExists ==
  ASSUME NEW f, NEW S, IsFiniteSet(S)
  PROVE  \E g : ArePartSums(f, S, g)
<1> DEFINE F == {T \in SUBSET S : ~ \E g : ArePartSums(f, T, g)}
<1>1. SUFFICES ASSUME F # {} PROVE FALSE
  OBVIOUS
<1>2. PICK T \in F : \A U \in F : U \subseteq T => U = T
  <2>1. F \subseteq SUBSET S
    OBVIOUS
  <2> HIDE DEF F
  <2> QED
    BY <1>1, <2>1, SmallestSet
<1> DEFINE sum(U) == (CHOOSE g : ArePartSums(f, U, g))[U]
           h == [U \in SUBSET T |-> IF U # T THEN sum(U)
                    ELSE IF T = {} THEN 0 ELSE f[Picked(T)] + sum(T \ {Picked(T)})]
<1>3. \A U \in SUBSET T : U # T => ArePartSums(f, U, CHOOSE g : ArePartSums(f, U, g))
  BY <1>2
<1>4. ASSUME NEW U \in SUBSET T, U # T, NEW V \in SUBSET U
      PROVE  (CHOOSE g : ArePartSums(f, U, g))[V] = sum(V)
  <2>1. IsFiniteSet(U)
    BY FS_Subset
  <2>2. V # T /\ V \in SUBSET T
    BY <1>4
  <2> QED
    BY <1>3, <1>4, <2>1, <2>2, PartSumsAgree
<1>5. ASSUME NEW U \in SUBSET T PROVE h[U] = Recurrence(f, U, h)
  <2>1. CASE U # T
    <3> DEFINE g == CHOOSE g : ArePartSums(f, U, g)
    <3>1. g[U] = Recurrence(f, U, g)
      BY <1>3, <2>1 DEF ArePartSums, PartSums
    <3>2. h[U] = g[U]
      BY <2>1
    <3>3. CASE U = {}
      BY <3>1, <3>2, <3>3 DEF Recurrence
    <3>4. CASE U # {}
      <4>1. Picked(U) \in U
        BY <3>4, PickedIsElement
      <4>2. g[U \ {Picked(U)}] = sum(U \ {Picked(U)})
        BY <1>4, <2>1
      <4>3. U \ {Picked(U)} \in SUBSET T /\ U \ {Picked(U)} # T
        BY <2>1, <4>1
      <4>4. h[U \ {Picked(U)}] = sum(U \ {Picked(U)})
        BY <4>3
      <4> QED
        BY <3>1, <3>2, <3>4, <4>2, <4>4 DEF Recurrence
    <3> QED
      BY <3>3, <3>4
  <2>2. CASE U = T
    <3>1. CASE T = {}
      BY <2>2, <3>1 DEF Recurrence
    <3>2. CASE T # {}
      <4>1. Picked(T) \in T
        BY <3>2, PickedIsElement
      <4>2. T \ {Picked(T)} \in SUBSET T /\ T \ {Picked(T)} # T
        BY <4>1
      <4>3. h[T \ {Picked(T)}] = sum(T \ {Picked(T)})
        BY <4>2
      <4> QED
        BY <2>2, <3>2, <4>3 DEF Recurrence
    <3> QED
      BY <3>1, <3>2
  <2> QED
    BY <2>1, <2>2
<1>6. ArePartSums(f, T, h)
  <2>1. h = [U \in SUBSET T |-> h[U]]
    OBVIOUS
  <2>2. [U \in SUBSET T |-> h[U]] = [U \in SUBSET T |-> Recurrence(f, U, h)]
    BY <1>5
  <2> QED
    BY <2>1, <2>2 DEF ArePartSums, PartSums
<1> QED
  BY <1>2, <1>6

(* So the sum does.                                                        *)
LEMMA SumPicked ==
  ASSUME NEW f, NEW S, IsFiniteSet(S)
  PROVE  SumFunctionOnSet(f, S) =
           IF S = {} THEN 0 ELSE f[Picked(S)] + SumFunctionOnSet(f, S \ {Picked(S)})
<1> DEFINE g == CHOOSE g : ArePartSums(f, S, g)
<1>1. ArePartSums(f, S, g)
  BY PartSumsExists
<1>2. SumFunctionOnSet(f, S) = g[S] /\ g[S] = Recurrence(f, S, g)
  BY <1>1, SumIsPartSum DEF ArePartSums, PartSums
<1>3. SUFFICES ASSUME S # {}
      PROVE g[S \ {Picked(S)}] = SumFunctionOnSet(f, S \ {Picked(S)})
  BY <1>2 DEF Recurrence
<1> DEFINE R == S \ {Picked(S)}
<1>4. IsFiniteSet(R) /\ R \in SUBSET S
  BY FS_Subset
<1>5. ArePartSums(f, R, CHOOSE h : ArePartSums(f, R, h))
  BY <1>4, PartSumsExists
<1> QED
  BY <1>1, <1>4, <1>5, PartSumsAgree, SumIsPartSum

-----------------------------------------------------------------------------
(* Sums, by the elements and parts of the set.                             *)

LEMMA SumOfNothing == ASSUME NEW f PROVE SumFunctionOnSet(f, {}) = 0
BY SumPicked, FS_EmptySet

LEMMA SumIsInt ==
  ASSUME NEW S, IsFiniteSet(S), NEW f, \A x \in S : f[x] \in Int
  PROVE  SumFunctionOnSet(f, S) \in Int
<1> DEFINE F == {T \in SUBSET S : SumFunctionOnSet(f, T) \notin Int}
<1>1. SUFFICES ASSUME F # {} PROVE FALSE
  OBVIOUS
<1>2. PICK T \in F : \A U \in F : U \subseteq T => U = T
  <2>1. F \subseteq SUBSET S
    OBVIOUS
  <2> HIDE DEF F
  <2> QED
    BY <1>1, <2>1, SmallestSet
<1>3. IsFiniteSet(T)
  BY FS_Subset
<1>4. T # {}
  BY <1>2, SumOfNothing
<1>5. Picked(T) \in T
  BY <1>4, PickedIsElement
<1>6. T \ {Picked(T)} \notin F
  BY <1>2, <1>5
<1>7. SumFunctionOnSet(f, T \ {Picked(T)}) \in Int
  BY <1>6
<1>8. SumFunctionOnSet(f, T) = f[Picked(T)] + SumFunctionOnSet(f, T \ {Picked(T)})
  BY <1>3, <1>4, SumPicked
<1> QED
  BY <1>5, <1>7, <1>8

(* Each element may be the one that is added last.                         *)
LEMMA SumWithElement ==
  ASSUME NEW S, IsFiniteSet(S), NEW f, \A x \in S : f[x] \in Int, NEW e \in S
  PROVE  SumFunctionOnSet(f, S) = f[e] + SumFunctionOnSet(f, S \ {e})
<1> DEFINE Last(T, x) == SumFunctionOnSet(f, T) = f[x] + SumFunctionOnSet(f, T \ {x})
           F == {T \in SUBSET S : \E x \in T : ~ Last(T, x)}
<1>1. SUFFICES ASSUME F # {} PROVE FALSE
  OBVIOUS
<1>2. PICK T \in F : \A U \in F : U \subseteq T => U = T
  <2>1. F \subseteq SUBSET S
    OBVIOUS
  <2> HIDE DEF F
  <2> QED
    BY <1>1, <2>1, SmallestSet
<1>3. PICK x \in T : ~ Last(T, x)
  OBVIOUS
<1>4. \A U \in SUBSET S : IsFiniteSet(U) /\ SumFunctionOnSet(f, U) \in Int
  BY FS_Subset, SumIsInt
<1>5. PICK y \in T : Last(T, y)
  BY <1>4, SumPicked, PickedIsElement
<1> DEFINE rest == (T \ {x}) \ {y}
<1>7. \A U \in SUBSET T : U # T => U \in SUBSET S /\ \A z \in U : Last(U, z)
  BY <1>2
<1>8. y # x
  BY <1>3, <1>5
<1>9. /\ SumFunctionOnSet(f, T \ {x}) = f[y] + SumFunctionOnSet(f, rest)
      /\ SumFunctionOnSet(f, T \ {y}) = f[x] + SumFunctionOnSet(f, rest)
  <2>1. Last(T \ {x}, y) /\ Last(T \ {y}, x) /\ (T \ {y}) \ {x} = rest
    BY <1>7, <1>8
  <2> QED
    BY <2>1
<1>10. rest \in SUBSET S /\ f[x] \in Int /\ f[y] \in Int
  OBVIOUS
<1>11. SumFunctionOnSet(f, rest) \in Int
  BY <1>4, <1>10
<1> HIDE DEF rest, F
<1> QED
  BY <1>3, <1>5, <1>9, <1>10, <1>11

LEMMA SumOfOne ==
  ASSUME NEW f, NEW e, f[e] \in Int
  PROVE  SumFunctionOnSet(f, {e}) = f[e]
<1>1. IsFiniteSet({e}) /\ {e} \ {e} = {}
  BY FS_Singleton
<1> QED
  BY <1>1, SumWithElement, SumOfNothing

(* Only the values on the set count.                                       *)
LEMMA SumOfSame ==
  ASSUME NEW S, IsFiniteSet(S), NEW f, NEW g,
         \A x \in S : f[x] \in Int /\ f[x] = g[x]
  PROVE  SumFunctionOnSet(f, S) = SumFunctionOnSet(g, S)
<1> DEFINE F == {T \in SUBSET S : SumFunctionOnSet(f, T) # SumFunctionOnSet(g, T)}
<1>1. SUFFICES ASSUME F # {} PROVE FALSE
  OBVIOUS
<1>2. PICK T \in F : \A U \in F : U \subseteq T => U = T
  <2>1. F \subseteq SUBSET S
    OBVIOUS
  <2> HIDE DEF F
  <2> QED
    BY <1>1, <2>1, SmallestSet
<1>3. IsFiniteSet(T) /\ T # {}
  BY <1>2, FS_Subset, SumOfNothing
<1>4. PICK x \in T : TRUE
  BY <1>3
<1>5. T \ {x} \notin F /\ T \ {x} \in SUBSET S
  BY <1>2, <1>4
<1>6. SumFunctionOnSet(f, T) = f[x] + SumFunctionOnSet(f, T \ {x})
  BY <1>3, SumWithElement
<1>7. SumFunctionOnSet(g, T) = g[x] + SumFunctionOnSet(g, T \ {x})
  BY <1>3, SumWithElement
<1> QED
  BY <1>5, <1>6, <1>7

LEMMA SumOfParts ==
  ASSUME NEW S, NEW T, IsFiniteSet(S), IsFiniteSet(T), S \intersect T = {},
         NEW f, \A x \in S \union T : f[x] \in Int
  PROVE  SumFunctionOnSet(f, S \union T) = SumFunctionOnSet(f, S) + SumFunctionOnSet(f, T)
<1> DEFINE Add(U) == SumFunctionOnSet(f, S \union U)
                       = SumFunctionOnSet(f, S) + SumFunctionOnSet(f, U)
           F == {U \in SUBSET T : ~ Add(U)}
<1>1. SUFFICES ASSUME F # {} PROVE FALSE
  OBVIOUS
<1>2. PICK U \in F : \A V \in F : V \subseteq U => V = U
  <2>1. F \subseteq SUBSET T
    OBVIOUS
  <2> HIDE DEF F
  <2> QED
    BY <1>1, <2>1, SmallestSet
<1>3. SumFunctionOnSet(f, S) \in Int
  BY SumIsInt
<1>4. U # {}
  <2>1. Add({})
    BY <1>3, SumOfNothing
  <2> QED
    BY <1>2, <2>1
<1>5. PICK x \in U : TRUE
  BY <1>4
<1>6. IsFiniteSet(S \union U) /\ IsFiniteSet(U) /\ IsFiniteSet(U \ {x})
  BY FS_Subset, FS_Union
<1>7. Add(U \ {x}) /\ (S \union U) \ {x} = S \union (U \ {x})
  BY <1>2, <1>5
<1>8. SumFunctionOnSet(f, S \union U) = f[x] + SumFunctionOnSet(f, (S \union U) \ {x})
  BY <1>5, <1>6, SumWithElement
<1>9. SumFunctionOnSet(f, U) = f[x] + SumFunctionOnSet(f, U \ {x})
  BY <1>5, <1>6, SumWithElement
<1>10. SumFunctionOnSet(f, U \ {x}) \in Int /\ f[x] \in Int
  BY <1>6, SumIsInt
<1> HIDE DEF F
<1> QED
  BY <1>2, <1>3, <1>7, <1>8, <1>9, <1>10 DEF F

LEMMA SumIsNat ==
  ASSUME NEW S, IsFiniteSet(S), NEW f, \A x \in S : f[x] \in Nat
  PROVE  SumFunctionOnSet(f, S) \in Nat
<1> DEFINE F == {T \in SUBSET S : SumFunctionOnSet(f, T) \notin Nat}
<1>1. SUFFICES ASSUME F # {} PROVE FALSE
  OBVIOUS
<1>2. PICK T \in F : \A U \in F : U \subseteq T => U = T
  <2>1. F \subseteq SUBSET S
    OBVIOUS
  <2> HIDE DEF F
  <2> QED
    BY <1>1, <2>1, SmallestSet
<1>3. IsFiniteSet(T) /\ T # {}
  <2>1. SumFunctionOnSet(f, {}) \in Nat
    BY SumOfNothing
  <2> QED
    BY <1>2, <2>1, FS_Subset
<1>4. PICK x \in T : TRUE
  BY <1>3
<1>5. T \ {x} \notin F /\ T \ {x} \in SUBSET S
  BY <1>2, <1>4
<1>6. SumFunctionOnSet(f, T) = f[x] + SumFunctionOnSet(f, T \ {x})
  BY <1>3, SumWithElement
<1> QED
  BY <1>5, <1>6

(* What has no negative part grows with the set.                           *)
LEMMA SumGrows ==
  ASSUME NEW T, IsFiniteSet(T), NEW S \in SUBSET T, NEW f, \A x \in T : f[x] \in Nat
  PROVE  SumFunctionOnSet(f, S) <= SumFunctionOnSet(f, T)
<1>1. IsFiniteSet(S) /\ IsFiniteSet(T \ S) /\ S \union (T \ S) = T
  BY FS_Subset
<1>2. SumFunctionOnSet(f, S) \in Nat /\ SumFunctionOnSet(f, T \ S) \in Nat
  BY <1>1, SumIsNat
<1>3. SumFunctionOnSet(f, T) = SumFunctionOnSet(f, S) + SumFunctionOnSet(f, T \ S)
  BY <1>1, SumOfParts, S \intersect (T \ S) = {}
<1> QED
  BY <1>2, <1>3
=============================================================================
