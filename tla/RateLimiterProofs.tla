------------------------- MODULE RateLimiterProofs --------------------------
(***************************************************************************)
(* Proofs about RateLimiter for every limit, window and tick, and about    *)
(* Logins for every lifetime, account and number of requests.              *)
(***************************************************************************)
EXTENDS Logins, WellFoundedInduction, FiniteSetTheorems, TLAPS

(* f is the end of the sequence g.                                         *)
IsEnd(f, g) ==
  /\ Len(f) <= Len(g)
  /\ \A i \in 1 .. Len(f) : f[i] = g[Len(g) - Len(f) + i]

Before(f, n, c) == \A i \in 1 .. n : f[i] < c
From(f, n, c)   == \A i \in 1 .. Len(f) : i > n => f[i] >= c
Sorted(f)       == \A i, j \in 1 .. Len(f) : i <= j => f[i] <= f[j]

TypeOK ==
  /\ now \in Nat
  /\ hits \in [Keys -> Seq(Nat)]
  /\ admitted \in [Keys -> Seq(Nat)]

(* The hits of a key are the end of its admissions, those it has forgotten *)
(* are older than the window, and all are in the order of time.            *)
RemembersWindow(k) ==
  /\ IsEnd(hits[k], admitted[k])
  /\ Before(admitted[k], Len(admitted[k]) - Len(hits[k]), Cutoff(k))

InOrder(k) ==
  /\ \A i \in 1 .. Len(admitted[k]) : admitted[k][i] <= now
  /\ Sorted(admitted[k])

LimitInv ==
  /\ TypeOK
  /\ \A k \in Keys : RemembersWindow(k) /\ InOrder(k)
  /\ WithinLimit

-----------------------------------------------------------------------------
LEMMA WindowTyped == ASSUME NEW k \in Keys  PROVE Window(k) \in Nat
<1>1. Seconds[k] \in Nat /\ TicksPerSecond \in Nat
  BY LimiterAssumption
<1>. QED  BY <1>1 DEF Window

LEMMA LeastOfNats ==
  ASSUME NEW T \in SUBSET Nat, T # {}
  PROVE  Min(T) \in T /\ \A n \in T : Min(T) <= n
<1>. DEFINE Less == {p \in Nat \X Nat : p[1] < p[2]}
<1>1. IsWellFoundedOn(Less, Nat)
  <2>1. OpToRel(<, Nat) = Less
    BY SMT DEF OpToRel
  <2>. QED  BY <2>1, NatLessThanWellFounded
<1>2. \E x \in T : \A y \in T : ~ (<<y, x>> \in Less)
  <2>. HIDE DEF Less
  <2>. QED  BY <1>1, WFMin
<1>3. PICK x \in T : \A y \in T : ~ (<<y, x>> \in Less)
  BY <1>2
<1>4. ASSUME NEW y \in T  PROVE x <= y
  <2>1. x \in Nat /\ y \in Nat
    OBVIOUS
  <2>2. ~ (<<y, x>> \in Less)
    BY <1>3
  <2>3. <<y, x>> \in Nat \X Nat /\ ~ (y < x)
    BY <2>1, <2>2
  <2>. QED  BY <2>1, <2>3
<1>. QED  BY <1>4 DEF Min

(* Where the kept hits begin: everything before is older than the window.  *)
LEMMA FirstKept ==
  ASSUME TypeOK, NEW k \in Keys
  PROVE  /\ Min(Kept(k)) \in 1 .. Len(hits[k]) + 1
         /\ Min(Kept(k)) <= Len(hits[k]) => hits[k][Min(Kept(k))] >= Cutoff(k)
         /\ \A i \in 1 .. Min(Kept(k)) - 1 : hits[k][i] < Cutoff(k)
<1>1. hits[k] \in Seq(Nat) /\ Len(hits[k]) \in Nat /\ Cutoff(k) \in Int
  BY WindowTyped DEF TypeOK, Cutoff
<1>2. Len(hits[k]) + 1 \in Kept(k) /\ Kept(k) \in SUBSET Nat
  BY <1>1 DEF Kept
<1>4. Min(Kept(k)) \in Kept(k) /\ \A m \in Kept(k) : Min(Kept(k)) <= m
  BY <1>2, LeastOfNats
<1>5. ASSUME NEW i \in 1 .. Min(Kept(k)) - 1  PROVE hits[k][i] < Cutoff(k)
  <2>1. Min(Kept(k)) \in Nat /\ Min(Kept(k)) <= Len(hits[k]) + 1
    BY <1>1, <1>4 DEF Kept
  <2>2. i \in 1 .. Len(hits[k]) /\ i \notin Kept(k)
    BY <1>1, <1>2, <1>4, <2>1
  <2>3. hits[k][i] \in Nat
    BY <1>1, <2>2
  <2>. QED  BY <1>1, <2>2, <2>3 DEF Kept
<1>. QED  BY <1>4, <1>5 DEF Kept

LEMMA EndOfSubSeq ==
  ASSUME NEW g \in Seq(Nat), NEW m \in 1 .. Len(g) + 1
  PROVE  /\ SubSeq(g, m, Len(g)) \in Seq(Nat)
         /\ Len(SubSeq(g, m, Len(g))) = Len(g) + 1 - m
         /\ IsEnd(SubSeq(g, m, Len(g)), g)
<1>1. Len(g) \in Nat
  OBVIOUS
<1>2. SubSeq(g, m, Len(g)) \in Seq(Nat) /\ Len(SubSeq(g, m, Len(g))) = Len(g) + 1 - m
  BY <1>1
<1>3. ASSUME NEW i \in 1 .. Len(g) + 1 - m
      PROVE  SubSeq(g, m, Len(g))[i] = g[m + i - 1]
  BY <1>1, <1>2
<1>4. ASSUME NEW i \in 1 .. Len(g) + 1 - m
      PROVE  Len(g) - (Len(g) + 1 - m) + i = m + i - 1
  BY <1>1
<1>5. Len(g) + 1 - m <= Len(g)
  BY <1>1
<1>. QED  BY <1>2, <1>3, <1>4, <1>5 DEF IsEnd

LEMMA EndOfEnd ==
  ASSUME NEW e \in Seq(Nat), NEW f \in Seq(Nat), NEW g \in Seq(Nat),
         IsEnd(e, f), IsEnd(f, g)
  PROVE  IsEnd(e, g)
<1>1. Len(e) \in Nat /\ Len(f) \in Nat /\ Len(g) \in Nat
  OBVIOUS
<1>2. ASSUME NEW i \in 1 .. Len(e)  PROVE e[i] = g[Len(g) - Len(e) + i]
  <2>1. Len(e) <= Len(f) /\ e[i] = f[Len(f) - Len(e) + i]
    BY DEF IsEnd
  <2>2. Len(f) - Len(e) + i \in 1 .. Len(f)
    BY <1>1, <2>1
  <2>3. f[Len(f) - Len(e) + i] = g[Len(g) - Len(f) + (Len(f) - Len(e) + i)]
    BY <2>2 DEF IsEnd
  <2>4. Len(g) - Len(f) + (Len(f) - Len(e) + i) = Len(g) - Len(e) + i
    BY <1>1
  <2>. QED  BY <2>1, <2>3, <2>4
<1>3. Len(e) <= Len(g)
  BY <1>1 DEF IsEnd
<1>. QED  BY <1>2, <1>3 DEF IsEnd

LEMMA BeforeEnd ==
  ASSUME NEW f \in Seq(Nat), NEW g \in Seq(Nat), IsEnd(f, g), NEW c \in Int,
         NEW n \in 0 .. Len(f),
         Before(g, Len(g) - Len(f), c), Before(f, n, c)
  PROVE  Before(g, Len(g) - Len(f) + n, c)
<1>1. Len(f) \in Nat /\ Len(g) \in Nat /\ Len(f) <= Len(g)
  BY DEF IsEnd
<1>2. SUFFICES ASSUME NEW i \in 1 .. Len(g) - Len(f) + n  PROVE g[i] < c
  BY DEF Before
<1>3. CASE i <= Len(g) - Len(f)
  BY <1>1, <1>3 DEF Before
<1>4. CASE i > Len(g) - Len(f)
  <2>. DEFINE j == i - (Len(g) - Len(f))
  <2>1. j \in 1 .. n /\ j \in 1 .. Len(f) /\ Len(g) - Len(f) + j = i
    BY <1>1, <1>4
  <2>2. f[j] = g[Len(g) - Len(f) + j]
    BY <2>1 DEF IsEnd
  <2>3. f[j] < c
    BY <2>1 DEF Before
  <2>. QED  BY <2>1, <2>2, <2>3
<1>. QED  BY <1>1, <1>3, <1>4

LEMMA FromFirst ==
  ASSUME NEW g \in Seq(Nat), Sorted(g), NEW c \in Int, NEW n \in 0 .. Len(g),
         n < Len(g) => g[n + 1] >= c
  PROVE  From(g, n, c)
<1>1. Len(g) \in Nat
  OBVIOUS
<1>2. SUFFICES ASSUME NEW i \in 1 .. Len(g), i > n  PROVE g[i] >= c
  BY DEF From
<1>3. n + 1 \in 1 .. Len(g) /\ n + 1 <= i
  BY <1>1, <1>2
<1>4. g[n + 1] <= g[i] /\ g[n + 1] \in Nat /\ g[i] \in Nat
  BY <1>3 DEF Sorted
<1>. QED  BY <1>1, <1>3, <1>4

(* What is left after forgetting: the end of the admissions that is not    *)
(* older than the window.                                                  *)
FreshIsWindow(k) ==
  /\ Fresh(k) \in Seq(Nat)
  /\ IsEnd(Fresh(k), admitted[k])
  /\ Before(admitted[k], Len(admitted[k]) - Len(Fresh(k)), Cutoff(k))
  /\ From(admitted[k], Len(admitted[k]) - Len(Fresh(k)), Cutoff(k))

LEMMA FreshSuffix ==
  ASSUME LimitInv, NEW k \in Keys
  PROVE  FreshIsWindow(k)
<1>1. /\ hits[k] \in Seq(Nat) /\ Len(hits[k]) \in Nat
      /\ admitted[k] \in Seq(Nat) /\ Len(admitted[k]) \in Nat
      /\ Cutoff(k) \in Int
  BY WindowTyped DEF LimitInv, TypeOK, Cutoff
<1>2. PICK m \in 1 .. Len(hits[k]) + 1 :
        /\ m = Min(Kept(k))
        /\ m <= Len(hits[k]) => hits[k][m] >= Cutoff(k)
        /\ Before(hits[k], m - 1, Cutoff(k))
  BY FirstKept DEF LimitInv, Before
<1>3. /\ IsEnd(hits[k], admitted[k])
      /\ Before(admitted[k], Len(admitted[k]) - Len(hits[k]), Cutoff(k))
      /\ Sorted(admitted[k])
  BY DEF LimitInv, RemembersWindow, InOrder
<1>4. /\ Fresh(k) \in Seq(Nat)
      /\ Len(Fresh(k)) = Len(hits[k]) + 1 - m
      /\ IsEnd(Fresh(k), hits[k])
  BY <1>1, <1>2, EndOfSubSeq DEF Fresh
<1>5. IsEnd(Fresh(k), admitted[k])
  BY <1>1, <1>3, <1>4, EndOfEnd
<1>6. PICK n \in 0 .. Len(admitted[k]) : n = Len(admitted[k]) - Len(Fresh(k))
  <2>1. Len(Fresh(k)) \in Nat /\ Len(Fresh(k)) <= Len(admitted[k])
    BY <1>4, <1>5 DEF IsEnd
  <2>2. Len(admitted[k]) - Len(Fresh(k)) \in 0 .. Len(admitted[k])
    BY <1>1, <2>1
  <2>. QED  BY <2>2
<1>7. Len(admitted[k]) - Len(hits[k]) + (m - 1) = n /\ m - 1 \in 0 .. Len(hits[k])
  BY <1>1, <1>4, <1>6
<1>8. Before(admitted[k], n, Cutoff(k))
  BY <1>1, <1>2, <1>3, <1>7, BeforeEnd
<1>9. From(admitted[k], n, Cutoff(k))
  <2>1. ASSUME n < Len(admitted[k])  PROVE admitted[k][n + 1] >= Cutoff(k)
    <3>1. m \in 1 .. Len(hits[k]) /\ Len(admitted[k]) - Len(hits[k]) + m = n + 1
      <4>1. PICK a \in Nat, h \in Nat : a = Len(admitted[k]) /\ h = Len(hits[k])
        BY <1>1
      <4>2. m \in 1 .. h + 1
        BY <4>1
      <4>3. a - h + (m - 1) = n
        BY <1>7, <4>1
      <4>4. n < a
        BY <2>1, <4>1
      <4>5. n \in Int
        OBVIOUS
      <4>6. m \in 1 .. h /\ a - h + m = n + 1
        BY <4>2, <4>3, <4>4, <4>5
      <4>. QED  BY <4>1, <4>6
    <3>2. hits[k][m] = admitted[k][Len(admitted[k]) - Len(hits[k]) + m]
      BY <1>3, <3>1 DEF IsEnd
    <3>3. hits[k][m] >= Cutoff(k)
      BY <1>1, <1>2, <3>1
    <3>. QED  BY <3>1, <3>2, <3>3
  <2>. QED  BY <1>1, <1>3, <2>1, FromFirst
<1>. QED  BY <1>4, <1>5, <1>6, <1>8, <1>9 DEF FreshIsWindow

LEMMA EndOfAppend ==
  ASSUME NEW f \in Seq(Nat), NEW g \in Seq(Nat), IsEnd(f, g), NEW x \in Nat
  PROVE  IsEnd(Append(f, x), Append(g, x))
<1>1. PICK lf \in Nat, lg \in Nat : lf = Len(f) /\ lg = Len(g)
  OBVIOUS
<1>2. lf <= lg /\ \A i \in 1 .. lf : f[i] = g[lg - lf + i]
  BY <1>1 DEF IsEnd
<1>3. /\ Len(Append(f, x)) = lf + 1
      /\ Len(Append(g, x)) = lg + 1
      /\ \A i \in 1 .. lf : Append(f, x)[i] = f[i]
      /\ \A i \in 1 .. lg : Append(g, x)[i] = g[i]
      /\ Append(f, x)[lf + 1] = x
      /\ Append(g, x)[lg + 1] = x
  BY <1>1
<1>4. ASSUME NEW i \in 1 .. lf + 1
      PROVE  Append(f, x)[i] = Append(g, x)[(lg + 1) - (lf + 1) + i]
  <2>1. CASE i = lf + 1
    <3>1. (lg + 1) - (lf + 1) + i = lg + 1
      BY <2>1
    <3>. QED  BY <1>3, <2>1, <3>1
  <2>2. CASE i # lf + 1
    <3>1. i \in 1 .. lf /\ (lg + 1) - (lf + 1) + i = lg - lf + i /\ lg - lf + i \in 1 .. lg
      BY <1>2, <2>2
    <3>. QED  BY <1>2, <1>3, <3>1
  <2>. QED  BY <2>1, <2>2
<1>5. lf + 1 <= lg + 1
  BY <1>2
<1>. QED  BY <1>3, <1>4, <1>5 DEF IsEnd

LEMMA SortedAppend ==
  ASSUME NEW g \in Seq(Nat), Sorted(g), NEW x \in Nat,
         \A i \in 1 .. Len(g) : g[i] <= x
  PROVE  Sorted(Append(g, x)) /\ \A i \in 1 .. Len(Append(g, x)) : Append(g, x)[i] <= x
<1>1. PICK lg \in Nat : lg = Len(g)
  OBVIOUS
<1>2. /\ Len(Append(g, x)) = lg + 1
      /\ \A i \in 1 .. lg : Append(g, x)[i] = g[i]
      /\ Append(g, x)[lg + 1] = x
  BY <1>1
<1>3. ASSUME NEW i \in 1 .. lg + 1  PROVE Append(g, x)[i] <= x
  <2>1. CASE i = lg + 1
    BY <1>2, <2>1
  <2>2. CASE i \in 1 .. lg
    BY <1>1, <1>2, <2>2
  <2>3. i = lg + 1 \/ i \in 1 .. lg
    OBVIOUS
  <2>. QED  BY <2>1, <2>2, <2>3
<1>4. ASSUME NEW i \in 1 .. lg + 1, NEW j \in 1 .. lg + 1, i <= j
      PROVE  Append(g, x)[i] <= Append(g, x)[j]
  <2>1. CASE j = lg + 1
    BY <1>2, <1>3, <2>1
  <2>2. CASE j # lg + 1
    <3>1. i \in 1 .. lg /\ j \in 1 .. lg
      BY <1>4, <2>2
    <3>2. g[i] <= g[j]
      BY <1>1, <1>4, <3>1 DEF Sorted
    <3>. QED  BY <1>2, <3>1, <3>2
  <2>. QED  BY <2>1, <2>2
<1>. QED  BY <1>2, <1>3, <1>4 DEF Sorted

-----------------------------------------------------------------------------
LEMMA NothingAdmitted ==
  ASSUME NEW f, NEW g, f = <<>>, g = <<>>, NEW c, NEW t
  PROVE  /\ IsEnd(f, g) /\ Before(g, Len(g) - Len(f), c)
         /\ Sorted(g) /\ \A i \in 1 .. Len(g) : g[i] <= t
<1>1. Len(f) = 0 /\ Len(g) = 0
  OBVIOUS
<1>2. Sorted(g) /\ \A i \in 1 .. Len(g) : g[i] <= t
  BY <1>1 DEF Sorted
<1>3. Len(g) - Len(f) = 0
  BY <1>1
<1>4. Before(g, 0, c)
  BY DEF Before
<1>5. IsEnd(f, g)
  <2>1. \A i \in 1 .. Len(f) : FALSE
    BY <1>1
  <2>2. Len(f) <= Len(g)
    BY <1>1
  <2>. QED  BY <2>1, <2>2 DEF IsEnd
<1>. QED  BY <1>2, <1>3, <1>4, <1>5

LEMMA LimitInit == Init => LimitInv
<1>. SUFFICES ASSUME Init  PROVE LimitInv
  OBVIOUS
<1>1. TypeOK
  BY DEF Init, TypeOK
<1>2. ASSUME NEW k \in Keys  PROVE hits[k] = <<>> /\ admitted[k] = <<>>
  BY DEF Init
<1>3. ASSUME NEW k \in Keys  PROVE RemembersWindow(k) /\ InOrder(k)
  BY <1>2, NothingAdmitted DEF RemembersWindow, InOrder
<1>4. WithinLimit
  <2>1. ASSUME NEW k \in Keys, NEW i \in 1 .. Len(admitted[k])  PROVE FALSE
    BY <1>2
  <2>. QED  BY <2>1 DEF WithinLimit
<1>. QED  BY <1>1, <1>3, <1>4 DEF LimitInv

(* A key that a step does not touch, whatever the clock does.              *)
LEMMA KeyKept ==
  ASSUME LimitInv, NEW k \in Keys, now' \in Nat, now' >= now,
         hits'[k] = hits[k], admitted'[k] = admitted[k]
  PROVE  RemembersWindow(k)' /\ InOrder(k)'
<1>1. /\ now \in Nat /\ Window(k) \in Nat
      /\ admitted[k] \in Seq(Nat) /\ hits[k] \in Seq(Nat)
      /\ RemembersWindow(k) /\ InOrder(k)
  BY WindowTyped DEF LimitInv, TypeOK
<1>2. Window(k)' = Window(k) /\ Cutoff(k) <= Cutoff(k)'
  BY <1>1 DEF Cutoff, Window
<1>3. IsEnd(hits[k], admitted[k])'
  BY <1>1 DEF RemembersWindow, IsEnd
<1>4. Before(admitted[k], Len(admitted[k]) - Len(hits[k]), Cutoff(k))'
  <2>1. PICK n \in Nat : n <= Len(admitted[k]) /\ n = Len(admitted[k]) - Len(hits[k])
    <3>1. Len(hits[k]) \in Nat /\ Len(admitted[k]) \in Nat /\ Len(hits[k]) <= Len(admitted[k])
      BY <1>1 DEF RemembersWindow, IsEnd
    <3>2. PICK a \in Nat, h \in Nat : a = Len(admitted[k]) /\ h = Len(hits[k])
      BY <3>1
    <3>3. h <= a
      BY <3>1, <3>2
    <3>4. a - h \in Nat /\ a - h <= a
      BY <3>3
    <3>. QED  BY <3>2, <3>4
  <2>2. Cutoff(k) \in Int /\ Cutoff(k)' \in Int
    BY <1>1, <1>2 DEF Cutoff
  <2>3. ASSUME NEW i \in 1 .. n  PROVE admitted[k][i] < Cutoff(k)'
    <3>1. i \in 1 .. Len(admitted[k])
      <4>1. Len(admitted[k]) \in Nat
        BY <1>1
      <4>. QED  BY <2>1, <4>1
    <3>2. admitted[k][i] \in Nat
      BY <1>1, <3>1
    <3>3. admitted[k][i] < Cutoff(k)
      <4>1. i \in 1 .. Len(admitted[k]) - Len(hits[k])
        BY <2>1
      <4>. QED  BY <1>1, <4>1 DEF RemembersWindow, Before
    <3>. QED  BY <1>2, <2>2, <3>2, <3>3
  <2>4. Len(admitted'[k]) - Len(hits'[k]) = n
    BY <2>1
  <2>. QED  BY <2>3, <2>4 DEF Before
<1>5. InOrder(k)'
  <2>1. ASSUME NEW i \in 1 .. Len(admitted[k])  PROVE admitted[k][i] <= now'
    BY <1>1 DEF InOrder
  <2>. QED  BY <1>1, <2>1 DEF InOrder, Sorted
<1>. QED  BY <1>3, <1>4, <1>5 DEF RemembersWindow

(* A key that forgets and is then admitted or refused.                     *)
LEMMA KeyForgets ==
  ASSUME LimitInv, NEW k \in Keys, now' = now,
         hits'[k] = Fresh(k), admitted'[k] = admitted[k]
  PROVE  RemembersWindow(k)' /\ InOrder(k)'
<1>1. FreshIsWindow(k) /\ InOrder(k)
  BY FreshSuffix DEF LimitInv
<1>2. Cutoff(k)' = Cutoff(k)
  BY DEF Cutoff, Window
<1>. QED  BY <1>1, <1>2 DEF FreshIsWindow, RemembersWindow, InOrder

LEMMA KeyAdmitted ==
  ASSUME LimitInv, NEW k \in Keys, now' = now,
         hits'[k] = Append(Fresh(k), now), admitted'[k] = Append(admitted[k], now)
  PROVE  RemembersWindow(k)' /\ InOrder(k)'
<1>1. FreshIsWindow(k) /\ InOrder(k) /\ now \in Nat /\ admitted[k] \in Seq(Nat)
  BY FreshSuffix DEF LimitInv, TypeOK
<1>2. Cutoff(k)' = Cutoff(k)
  BY DEF Cutoff, Window
<1>3. IsEnd(hits[k], admitted[k])'
  BY <1>1, EndOfAppend DEF FreshIsWindow
<1>4. InOrder(k)'
  BY <1>1, SortedAppend DEF InOrder
<1>5. Before(admitted[k], Len(admitted[k]) - Len(hits[k]), Cutoff(k))'
  <2>1. PICK n \in Nat : n <= Len(admitted[k]) /\ n = Len(admitted[k]) - Len(Fresh(k))
    <3>1. /\ Len(Fresh(k)) \in Nat /\ Len(admitted[k]) \in Nat
          /\ Len(Fresh(k)) <= Len(admitted[k])
      BY <1>1 DEF FreshIsWindow, IsEnd
    <3>2. /\ Len(admitted[k]) - Len(Fresh(k)) \in Nat
          /\ Len(admitted[k]) - Len(Fresh(k)) <= Len(admitted[k])
      BY <3>1
    <3>. QED  BY <3>2
  <2>2. Len(admitted'[k]) - Len(hits'[k]) = n
    <3>1. PICK a \in Nat, f \in Nat : a = Len(admitted[k]) /\ f = Len(Fresh(k))
      BY <1>1 DEF FreshIsWindow
    <3>2. Len(admitted'[k]) = a + 1 /\ Len(hits'[k]) = f + 1
      BY <1>1, <3>1 DEF FreshIsWindow
    <3>3. n = a - f
      BY <2>1, <3>1
    <3>. QED  BY <3>2, <3>3
  <2>3. ASSUME NEW i \in 1 .. n  PROVE admitted'[k][i] < Cutoff(k)
    <3>1. i \in 1 .. Len(admitted[k])
      <4>1. Len(admitted[k]) \in Nat
        BY <1>1
      <4>. QED  BY <2>1, <4>1
    <3>2. admitted'[k][i] = admitted[k][i]
      BY <1>1, <3>1
    <3>3. i \in 1 .. Len(admitted[k]) - Len(Fresh(k))
      BY <2>1
    <3>. QED  BY <1>1, <3>2, <3>3 DEF FreshIsWindow, Before
  <2>. QED  BY <1>2, <2>2, <2>3 DEF Before
<1>. QED  BY <1>3, <1>4, <1>5 DEF RemembersWindow

LEMMA RoomAbove ==
  ASSUME NEW a \in Nat, NEW l \in Nat \ {0}, NEW i \in 1 .. a + 1, i + l \in 1 .. a + 1
  PROVE  i \in 1 .. a /\ (i + l \in 1 .. a \/ i + l = a + 1)
OBVIOUS

(* The admission that is Limit[k] back from a new one has been forgotten.  *)
LEMMA AdmittedWithinLimit ==
  ASSUME LimitInv, NEW k \in Keys, now' = now, Len(Fresh(k)) < Limit[k],
         admitted'[k] = Append(admitted[k], now),
         NEW i \in 1 .. Len(admitted'[k]), i + Limit[k] \in 1 .. Len(admitted'[k])
  PROVE  admitted'[k][i + Limit[k]] - admitted'[k][i] > Window(k)
<1>1. /\ FreshIsWindow(k) /\ now \in Nat /\ admitted[k] \in Seq(Nat)
      /\ Window(k) \in Nat
  BY FreshSuffix, WindowTyped DEF LimitInv, TypeOK
<1>2. PICK a \in Nat, l \in Nat \ {0} : a = Len(admitted[k]) /\ l = Limit[k]
  BY <1>1, LimiterAssumption
<1>3. /\ Len(admitted'[k]) = a + 1
      /\ \A j \in 1 .. a : admitted'[k][j] = admitted[k][j] /\ admitted[k][j] \in Nat
      /\ admitted'[k][a + 1] = now
  <2>1. Len(admitted'[k]) = a + 1 /\ admitted'[k][a + 1] = now
    BY <1>1, <1>2
  <2>2. ASSUME NEW j \in 1 .. a
        PROVE  admitted'[k][j] = admitted[k][j] /\ admitted[k][j] \in Nat
    <3>1. j \in 1 .. Len(admitted[k])
      BY <1>2
    <3>2. admitted[k][j] \in Nat /\ Append(admitted[k], now)[j] = admitted[k][j]
      BY <1>1, <3>1
    <3>. QED  BY <3>2
  <2>. QED  BY <2>1, <2>2
<1>4. i \in 1 .. a /\ (i + l \in 1 .. a \/ i + l = a + 1)
  <2>1. i \in 1 .. a + 1
    BY <1>3
  <2>2. i + l \in 1 .. a + 1
    BY <1>2, <1>3
  <2>. QED  BY <2>1, <2>2, RoomAbove
<1>5. CASE i + l \in 1 .. a
  <2>1. i \in 1 .. Len(admitted[k]) /\ i + Limit[k] \in 1 .. Len(admitted[k])
    BY <1>2, <1>4, <1>5
  <2>2. admitted[k][i + Limit[k]] - admitted[k][i] > Window(k)
    BY <2>1 DEF LimitInv, WithinLimit
  <2>3. admitted'[k][i + l] = admitted[k][i + l] /\ admitted'[k][i] = admitted[k][i]
    BY <1>3, <1>4, <1>5
  <2>. QED  BY <1>2, <2>2, <2>3
<1>6. CASE i + l = a + 1
  <2>1. PICK f \in Nat : f = Len(Fresh(k)) /\ f < l
    <3>1. Fresh(k) \in Seq(Nat)
      BY <1>1 DEF FreshIsWindow
    <3>2. Len(Fresh(k)) \in Nat
      BY <3>1
    <3>. QED  BY <1>2, <3>2
  <2>2. i \in 1 .. a - f
    BY <1>4, <1>6, <2>1
  <2>3. admitted[k][i] < Cutoff(k)
    <3>1. i \in 1 .. Len(admitted[k]) - Len(Fresh(k))
      BY <1>2, <2>1, <2>2
    <3>. QED  BY <1>1, <3>1 DEF FreshIsWindow, Before
  <2>4. admitted'[k][i + Limit[k]] = now
    BY <1>2, <1>3, <1>6
  <2>5. admitted'[k][i] = admitted[k][i] /\ admitted[k][i] \in Nat
    BY <1>3, <1>4
  <2>. QED  BY <1>1, <2>3, <2>4, <2>5 DEF Cutoff
<1>. QED  BY <1>4, <1>5, <1>6

LEMMA LimitAdmit ==
  ASSUME LimitInv, NEW k \in Keys, Admit(k)  PROVE LimitInv'
<1>1. /\ TypeOK /\ FreshIsWindow(k)
      /\ now' = now /\ Len(Fresh(k)) < Limit[k]
      /\ hits' = [hits EXCEPT ![k] = Append(Fresh(k), now)]
      /\ admitted' = [admitted EXCEPT ![k] = Append(admitted[k], now)]
  BY FreshSuffix DEF LimitInv, Admit
<1>2. /\ hits'[k] = Append(Fresh(k), now)
      /\ admitted'[k] = Append(admitted[k], now)
      /\ \A j \in Keys \ {k} : hits'[j] = hits[j] /\ admitted'[j] = admitted[j]
  BY <1>1 DEF TypeOK
<1>3. TypeOK'
  <2>1. Append(Fresh(k), now) \in Seq(Nat) /\ Append(admitted[k], now) \in Seq(Nat)
    BY <1>1 DEF TypeOK, FreshIsWindow
  <2>. QED  BY <1>1, <2>1 DEF TypeOK
<1>4. ASSUME NEW j \in Keys  PROVE RemembersWindow(j)' /\ InOrder(j)'
  <2>1. CASE j = k
    BY <1>1, <1>2, <2>1, KeyAdmitted
  <2>2. CASE j # k
    <3>1. now' \in Nat /\ now' >= now
      BY <1>1 DEF TypeOK
    <3>. QED  BY <1>2, <2>2, <3>1, KeyKept
  <2>. QED  BY <2>1, <2>2
<1>5. WithinLimit'
  <2>1. SUFFICES ASSUME NEW j \in Keys, NEW i \in 1 .. Len(admitted'[j]),
                        i + Limit[j] \in 1 .. Len(admitted'[j])
                 PROVE  admitted'[j][i + Limit[j]] - admitted'[j][i] > Window(j)
    BY DEF WithinLimit, Window
  <2>2. CASE j = k
    BY <1>1, <1>2, <2>1, <2>2, AdmittedWithinLimit
  <2>3. CASE j # k
    BY <1>2, <2>1, <2>3 DEF LimitInv, WithinLimit
  <2>. QED  BY <2>2, <2>3
<1>. QED  BY <1>3, <1>4, <1>5 DEF LimitInv

LEMMA LimitDeny ==
  ASSUME LimitInv, NEW k \in Keys, Deny(k)  PROVE LimitInv'
<1>1. /\ TypeOK /\ FreshIsWindow(k)
      /\ now' = now /\ hits' = [hits EXCEPT ![k] = Fresh(k)] /\ admitted' = admitted
  BY FreshSuffix DEF LimitInv, Deny
<1>2. /\ hits'[k] = Fresh(k) /\ admitted'[k] = admitted[k]
      /\ \A j \in Keys \ {k} : hits'[j] = hits[j] /\ admitted'[j] = admitted[j]
  BY <1>1 DEF TypeOK
<1>3. TypeOK'
  BY <1>1 DEF TypeOK, FreshIsWindow
<1>4. ASSUME NEW j \in Keys  PROVE RemembersWindow(j)' /\ InOrder(j)'
  <2>1. CASE j = k
    BY <1>1, <1>2, <2>1, KeyForgets
  <2>2. CASE j # k
    <3>1. now' \in Nat /\ now' >= now
      BY <1>1 DEF TypeOK
    <3>. QED  BY <1>2, <2>2, <3>1, KeyKept
  <2>. QED  BY <2>1, <2>2
<1>5. WithinLimit'
  BY <1>1 DEF LimitInv, WithinLimit, Window
<1>. QED  BY <1>3, <1>4, <1>5 DEF LimitInv

LEMMA LimitNext ==
  ASSUME LimitInv, [Next]_vars  PROVE LimitInv'
<1>1. ASSUME NEW k \in Keys, Admit(k)  PROVE LimitInv'
  BY <1>1, LimitAdmit
<1>2. ASSUME NEW k \in Keys, Deny(k)  PROVE LimitInv'
  BY <1>2, LimitDeny
<1>3. CASE Reset
  <2>1. TypeOK'
    BY <1>3 DEF LimitInv, TypeOK, Reset
  <2>2. ASSUME NEW k \in Keys  PROVE hits'[k] = <<>> /\ admitted'[k] = <<>>
    BY <1>3 DEF Reset
  <2>3. ASSUME NEW k \in Keys  PROVE RemembersWindow(k)' /\ InOrder(k)'
    BY <2>2, NothingAdmitted DEF RemembersWindow, InOrder
  <2>4. WithinLimit'
    <3>1. ASSUME NEW k \in Keys, NEW i \in 1 .. Len(admitted'[k])  PROVE FALSE
      BY <2>2
    <3>. QED  BY <3>1 DEF WithinLimit
  <2>. QED  BY <2>1, <2>3, <2>4 DEF LimitInv
<1>4. CASE Tick \/ UNCHANGED vars
  <2>1. now' \in Nat /\ now' >= now /\ hits' = hits /\ admitted' = admitted
    BY <1>4 DEF LimitInv, TypeOK, Tick, vars
  <2>2. TypeOK' /\ WithinLimit'
    BY <2>1 DEF LimitInv, TypeOK, WithinLimit, Window
  <2>3. ASSUME NEW k \in Keys  PROVE RemembersWindow(k)' /\ InOrder(k)'
    BY <2>1, KeyKept
  <2>. QED  BY <2>2, <2>3 DEF LimitInv
<1>. QED  BY <1>1, <1>2, <1>3, <1>4 DEF Next

(* At most the limit of admissions in every window, for every limit,       *)
(* window and tick, although check() looks only at what it still holds.    *)
THEOREM LimitHolds == Spec => []WithinLimit
<1>1. LimitInv => WithinLimit
  BY DEF LimitInv
<1>. QED  BY LimitInit, LimitNext, <1>1, PTL DEF Spec

(* Those of the last window that a refusal counts are the hits it holds.   *)
LEMMA DenyHasReason ==
  ASSUME LimitInv, NEW k \in Keys, Deny(k)
  PROVE  Cardinality({i \in 1 .. Len(admitted[k]) : admitted[k][i] >= Cutoff(k)})
           >= Limit[k]
<1>. DEFINE C == {i \in 1 .. Len(admitted[k]) : admitted[k][i] >= Cutoff(k)}
<1>1. /\ FreshIsWindow(k) /\ Len(Fresh(k)) >= Limit[k] /\ Limit[k] \in Nat
      /\ admitted[k] \in Seq(Nat) /\ Cutoff(k) \in Int
  <2>1. FreshIsWindow(k) /\ Len(Fresh(k)) >= Limit[k]
    BY FreshSuffix DEF Deny
  <2>2. Limit[k] \in Nat
    BY LimiterAssumption
  <2>3. admitted[k] \in Seq(Nat) /\ Cutoff(k) \in Int
    BY WindowTyped DEF LimitInv, TypeOK, Cutoff
  <2>. QED  BY <2>1, <2>2, <2>3
<1>2. PICK a \in Nat, f \in Nat :
        a = Len(admitted[k]) /\ f = Len(Fresh(k)) /\ f <= a /\ f >= Limit[k]
  <2>1. Fresh(k) \in Seq(Nat) /\ Len(Fresh(k)) <= Len(admitted[k])
    BY <1>1 DEF FreshIsWindow, IsEnd
  <2>2. Len(Fresh(k)) \in Nat /\ Len(admitted[k]) \in Nat
    BY <1>1, <2>1
  <2>. QED  BY <1>1, <2>1, <2>2
<1>3. ASSUME NEW i \in 1 .. a  PROVE admitted[k][i] >= Cutoff(k) <=> i > a - f
  <2>1. admitted[k][i] \in Nat
    BY <1>1, <1>2
  <2>2. CASE i > a - f
    BY <1>1, <1>2, <2>2 DEF FreshIsWindow, From
  <2>3. CASE ~ (i > a - f)
    <3>1. i \in 1 .. Len(admitted[k]) - Len(Fresh(k))
      BY <1>2, <2>3
    <3>2. admitted[k][i] < Cutoff(k)
      BY <1>1, <3>1 DEF FreshIsWindow, Before
    <3>. QED  BY <1>1, <2>1, <2>3, <3>2
  <2>. QED  BY <2>2, <2>3
<1>4. C = (a - f + 1) .. a
  <2>1. C = {i \in 1 .. a : i > a - f}
    BY <1>2, <1>3
  <2>2. {i \in 1 .. a : i > a - f} = (a - f + 1) .. a
    BY <1>2
  <2>. QED  BY <2>1, <2>2
<1>5. Cardinality((a - f + 1) .. a) = f
  <2>1. /\ a - f + 1 \in Int /\ a \in Int
        /\ a - f + 1 > a <=> f = 0
        /\ a - (a - f + 1) + 1 = f
    OBVIOUS
  <2>. QED  BY <2>1, FS_Interval
<1>. QED  BY <1>2, <1>4, <1>5

(* A refusal always has its reason: the limit is used up.                  *)
THEOREM RefusalsHaveReason == Spec => RefusedForAReason
<1>1. ASSUME LimitInv, NEW k \in Keys
      PROVE  Deny(k) =>
               Cardinality({i \in 1 .. Len(admitted[k]) : admitted[k][i] >= Cutoff(k)})
                 >= Limit[k]
  BY <1>1, DenyHasReason
<1>2. LimitInv =>
        [\A k \in Keys : Deny(k) =>
           Cardinality({i \in 1 .. Len(admitted[k]) : admitted[k][i] >= Cutoff(k)})
             >= Limit[k]]_vars
  BY <1>1
<1>. QED  BY LimitInit, LimitNext, <1>2, PTL DEF Spec, RefusedForAReason

-----------------------------------------------------------------------------
LEMMA DivBounds ==
  ASSUME NEW t \in Int, NEW d \in Nat \ {0}
  PROVE  t \div d \in Int /\ (t \div d) * d <= t /\ t < (t \div d) * d + d
<1>1. t \div d \in Int /\ t % d \in 0 .. d - 1
  OBVIOUS
<1>2. t = d * (t \div d) + (t % d)
  OBVIOUS
<1>. QED  BY <1>1, <1>2

LEMMA MaxOfPair ==
  ASSUME NEW a \in Int, NEW b \in Int
  PROVE  Max({a, b}) \in Int /\ Max({a, b}) >= a /\ Max({a, b}) >= b
<1>1. PICK m \in {a, b} : \A y \in {a, b} : m >= y
  <2>1. CASE a >= b
    BY <2>1
  <2>2. CASE b >= a
    BY <2>2
  <2>. QED  BY <2>1, <2>2
<1>2. Max({a, b}) \in {a, b} /\ \A y \in {a, b} : Max({a, b}) >= y
  BY <1>1 DEF Max
<1>. QED  BY <1>2

(* The first hit held at a refusal has left the window when the seconds of *)
(* the refusal are over.                                                   *)
RefusalFits(k) ==
  /\ 1 <= Len(hits[k])
  /\ hits[k][1] + Window(k) < refusal[k].at + refusal[k].after * TicksPerSecond

WaitInv ==
  /\ refusal \in [Keys -> [at : Nat, after : Int]]
  /\ \A k \in Keys : /\ Len(hits[k]) <= Limit[k]
                     /\ refusal[k] # NoRefusal => RefusalFits(k)

LEMMA WaitIsEnough ==
  ASSUME LimitInv, WaitInv, NEW k \in Keys, refusal[k] # NoRefusal,
         now >= refusal[k].at + refusal[k].after * TicksPerSecond
  PROVE  Len(Fresh(k)) < Limit[k]
<1>1. TypeOK /\ RefusalFits(k) /\ Len(hits[k]) <= Limit[k]
  BY DEF LimitInv, WaitInv
<1>2. PICK h \in Nat, l \in Nat : h = Len(hits[k]) /\ l = Limit[k] /\ 1 <= h /\ h <= l
  BY <1>1, LimiterAssumption DEF TypeOK, RefusalFits
<1>3. /\ now \in Nat /\ Window(k) \in Nat /\ hits[k] \in Seq(Nat) /\ hits[k][1] \in Nat
      /\ refusal[k].at + refusal[k].after * TicksPerSecond \in Int
  <2>1. now \in Nat /\ Window(k) \in Nat /\ hits[k] \in Seq(Nat)
    BY <1>1, WindowTyped DEF TypeOK
  <2>2. hits[k][1] \in Nat
    BY <1>2, <2>1
  <2>3. refusal[k].at \in Nat /\ refusal[k].after \in Int /\ TicksPerSecond \in Int
    BY LimiterAssumption DEF WaitInv
  <2>. QED  BY <2>1, <2>2, <2>3
<1>4. hits[k][1] < Cutoff(k)
  BY <1>1, <1>3 DEF RefusalFits, Cutoff
<1>5. PICK m \in 1 .. h + 1 :
        m = Min(Kept(k)) /\ (m <= Len(hits[k]) => hits[k][m] >= Cutoff(k))
  BY <1>1, <1>2, FirstKept
<1>6. m # 1
  <2>1. Cutoff(k) \in Int
    BY <1>3 DEF Cutoff
  <2>. QED  BY <1>2, <1>3, <1>4, <1>5, <2>1
<1>7. Len(Fresh(k)) = h + 1 - m
  <2>1. m \in 1 .. Len(hits[k]) + 1
    BY <1>2, <1>5
  <2>. QED  BY <1>2, <1>3, <1>5, <2>1, EndOfSubSeq DEF Fresh
<1>. QED  BY <1>2, <1>5, <1>6, <1>7

LEMMA WaitAdmit ==
  ASSUME LimitInv, WaitInv, NEW k \in Keys, Admit(k)  PROVE WaitInv'
<1>1. /\ TypeOK /\ Fresh(k) \in Seq(Nat) /\ Len(Fresh(k)) < Limit[k]
      /\ hits' = [hits EXCEPT ![k] = Append(Fresh(k), now)]
      /\ refusal' = [refusal EXCEPT ![k] = NoRefusal]
  BY FreshSuffix DEF LimitInv, Admit, FreshIsWindow
<1>2. /\ hits'[k] = Append(Fresh(k), now) /\ refusal'[k] = NoRefusal
      /\ \A j \in Keys \ {k} : hits'[j] = hits[j] /\ refusal'[j] = refusal[j]
  BY <1>1 DEF TypeOK, WaitInv
<1>3. Len(hits'[k]) <= Limit[k]
  <2>1. PICK f \in Nat, l \in Nat : f = Len(Fresh(k)) /\ l = Limit[k] /\ f < l
    BY <1>1, LimiterAssumption
  <2>2. Len(hits'[k]) = f + 1
    BY <1>1, <1>2, <2>1
  <2>. QED  BY <2>1, <2>2
<1>4. refusal' \in [Keys -> [at : Nat, after : Int]]
  BY <1>1 DEF WaitInv, NoRefusal
<1>. QED  BY <1>2, <1>3, <1>4 DEF WaitInv, RefusalFits, Window

LEMMA WaitDeny ==
  ASSUME LimitInv, WaitInv, NEW k \in Keys, Deny(k)  PROVE WaitInv'
<1>1. /\ TypeOK /\ FreshIsWindow(k) /\ Len(Fresh(k)) >= Limit[k]
      /\ hits' = [hits EXCEPT ![k] = Fresh(k)]
      /\ refusal' = [refusal EXCEPT ![k] = [at |-> now, after |-> RetryAfter(k)]]
  BY FreshSuffix DEF LimitInv, Deny
<1>2. /\ hits'[k] = Fresh(k) /\ refusal'[k] = [at |-> now, after |-> RetryAfter(k)]
      /\ \A j \in Keys \ {k} : hits'[j] = hits[j] /\ refusal'[j] = refusal[j]
  BY <1>1 DEF TypeOK, WaitInv
<1>3. PICK f \in Nat, l \in Nat \ {0} : f = Len(Fresh(k)) /\ l = Limit[k] /\ f >= l
  BY <1>1, LimiterAssumption DEF FreshIsWindow
<1>4. /\ now \in Nat /\ Window(k) \in Nat /\ TicksPerSecond \in Nat \ {0}
      /\ Fresh(k)[1] \in Nat /\ Head(Fresh(k)) = Fresh(k)[1]
  <2>1. now \in Nat /\ Window(k) \in Nat /\ TicksPerSecond \in Nat \ {0}
    BY <1>1, WindowTyped, LimiterAssumption DEF TypeOK
  <2>2. Fresh(k) \in Seq(Nat) /\ 1 \in 1 .. Len(Fresh(k))
    BY <1>1, <1>3 DEF FreshIsWindow
  <2>. QED  BY <2>1, <2>2
<1>5. Len(hits'[k]) <= Limit[k]
  <2>1. PICK h \in Nat : h = Len(hits[k]) /\ h <= l
    BY <1>1, <1>3 DEF TypeOK, WaitInv
  <2>2. PICK m \in 1 .. h + 1 : m = Min(Kept(k))
    BY <1>1, <2>1, FirstKept
  <2>3. f = h + 1 - m
    <3>1. m \in 1 .. Len(hits[k]) + 1 /\ hits[k] \in Seq(Nat)
      BY <1>1, <2>1, <2>2 DEF TypeOK
    <3>. QED  BY <1>3, <2>1, <2>2, <3>1, EndOfSubSeq DEF Fresh
  <2>. QED  BY <1>2, <1>3, <2>1, <2>2, <2>3
<1>6. RetryAfter(k) \in Int /\ Fresh(k)[1] + Window(k) < now + RetryAfter(k) * TicksPerSecond
  <2>1. PICK x \in Int, d \in Nat \ {0} :
          x = Fresh(k)[1] + Window(k) - now /\ d = TicksPerSecond
    BY <1>4
  <2>2. x \div d \in Int /\ x < (x \div d) * d + d
    BY DivBounds
  <2>3. PICK q \in Int : q = x \div d
    BY <2>2
  <2>4. PICK a \in Int : a = RetryAfter(k) /\ a >= q + 1
    <3>1. RetryAfter(k) = Max({1, q + 1})
      BY <1>4, <2>1, <2>3 DEF RetryAfter
    <3>2. Max({1, q + 1}) \in Int /\ Max({1, q + 1}) >= q + 1
      BY MaxOfPair
    <3>. QED  BY <3>1, <3>2
  <2>5. a * d >= q * d + d
    <3>1. a * d >= (q + 1) * d
      BY <2>4
    <3>2. (q + 1) * d = q * d + d
      OBVIOUS
    <3>. QED  BY <3>1, <3>2
  <2>6. x < a * d
    BY <2>2, <2>3, <2>5
  <2>. QED  BY <1>4, <2>1, <2>4, <2>6
<1>7. RefusalFits(k)'
  <2>1. refusal'[k].at = now /\ refusal'[k].after = RetryAfter(k)
    BY <1>2
  <2>2. 1 <= Len(hits'[k])
    BY <1>2, <1>3
  <2>. QED  BY <1>2, <1>6, <2>1, <2>2 DEF RefusalFits, Window
<1>8. refusal' \in [Keys -> [at : Nat, after : Int]]
  BY <1>1, <1>4, <1>6 DEF WaitInv
<1>. QED  BY <1>2, <1>5, <1>7, <1>8 DEF WaitInv, RefusalFits, Window

LEMMA WaitNext ==
  ASSUME LimitInv, WaitInv, [Next]_vars  PROVE WaitInv'
<1>1. CASE \E k \in Keys : Admit(k) \/ Deny(k)
  BY <1>1, WaitAdmit, WaitDeny
<1>2. CASE Reset
  <2>1. refusal' \in [Keys -> [at : Nat, after : Int]]
    BY <1>2 DEF Reset, NoRefusal
  <2>2. ASSUME NEW k \in Keys  PROVE Len(hits'[k]) <= Limit[k] /\ refusal'[k] = NoRefusal
    <3>1. hits'[k] = <<>> /\ refusal'[k] = NoRefusal
      BY <1>2 DEF Reset
    <3>2. Limit[k] \in Nat
      BY LimiterAssumption
    <3>. QED  BY <3>1, <3>2
  <2>. QED  BY <2>1, <2>2 DEF WaitInv, NoRefusal
<1>3. CASE Tick \/ UNCHANGED vars
  BY <1>3 DEF Tick, vars, WaitInv, RefusalFits, Window
<1>. QED  BY <1>1, <1>2, <1>3 DEF Next

LEMMA WaitInit == Init => WaitInv
<1>. SUFFICES ASSUME Init  PROVE WaitInv
  OBVIOUS
<1>1. ASSUME NEW k \in Keys  PROVE Len(hits[k]) <= Limit[k] /\ refusal[k] = NoRefusal
  <2>1. Limit[k] \in Nat
    BY LimiterAssumption
  <2>2. hits[k] = <<>> /\ refusal[k] = NoRefusal
    BY DEF Init
  <2>. QED  BY <2>1, <2>2
<1>. QED  BY <1>1 DEF Init, WaitInv, NoRefusal

(* Whoever waits as many seconds as Retry-After says is admitted, for      *)
(* every limit, window and tick: what int() cuts off, the added second     *)
(* makes up for.                                                           *)
THEOREM WaitingIsEnough == Spec => []RetryAfterIsEnough
<1>1. LimitInv /\ WaitInv => RetryAfterIsEnough
  BY WaitIsEnough DEF RetryAfterIsEnough
<1>. QED  BY LimitInit, LimitNext, WaitInit, WaitNext, <1>1, PTL DEF Spec

-----------------------------------------------------------------------------
(* Logins and restarts use the limiter as its own steps do.                *)
LEMMA LoginsLimiterStep == LoginsNext => [Next]_vars
<1>. SUFFICES ASSUME LoginsNext  PROVE [Next]_vars
  OBVIOUS
<1>1. LoginKey \in Keys
  BY LoginsAssumption
<1>2. ASSUME NEW r \in Requests, NEW u \in Accounts,
             LoginWeb(r, u) \/ LoginApi(r, u)
                            \/ \E token \in Issued(u) : Decode(r, u, token)
      PROVE  [Next]_vars
  BY <1>1, <1>2 DEF LoginWeb, LoginApi, Decode, Next
<1>3. ASSUME NEW r \in Requests, FindAccount(r) \/ IssueToken(r) \/ UserFromToken(r)
      PROVE  UNCHANGED vars
  BY <1>3 DEF FindAccount, IssueToken, UserFromToken
<1>4. ASSUME NEW u \in Accounts, Operator(u)  PROVE UNCHANGED vars
  BY <1>4 DEF Operator
<1>5. CASE Restart \/ Others
  BY <1>5 DEF Restart, Others, Next
<1>. QED  BY <1>2, <1>3, <1>4, <1>5 DEF LoginsNext

(* Under logins, uses of tokens and restarts, the limiter keeps to its own *)
(* specification, and so to all that is proved of it.                      *)
THEOREM LoginsUseLimiter == LoginsSpec => Spec
<1>1. LoginsInit => Init
  BY DEF LoginsInit
<1>2. [LoginsNext]_loginsVars => [Next]_vars
  BY LoginsLimiterStep DEF loginsVars
<1>. QED  BY <1>1, <1>2, PTL DEF LoginsSpec, Spec

THEOREM LoginsAreLimited ==
  LoginsSpec => [](WithinLimit /\ RetryAfterIsEnough) /\ RefusedForAReason
BY LoginsUseLimiter, LimitHolds, WaitingIsEnough, RefusalsHaveReason, PTL

-----------------------------------------------------------------------------
Users == [active : BOOLEAN, cutoff : Nat \union {None}]

Tokens ==
  {t \in [iat : Int \union {None}, exp : Int, at : Int] :
     /\ t.iat = Iat(t.at) \/ (t.iat = None /\ t.at = -1)
     /\ t.exp = Second(t.at + Lifetime * TicksPerSecond)}

AllRequests ==
  [op : {None, "login", "use"}, account : Accounts \union {None},
   token : Tokens \union {None}, decoded : Nat \union {None},
   seen : Users \union {None}, phase : {"unsent", "find", "issue", "ended"},
   answer : {None, "limited", "issued", "refused", "accepted", "lost"}]

Current(q) == ~ (q.token.exp < Second(q.decoded))

(* What a request has found out when it has come that far.                 *)
RequestFits(q) ==
  /\ q.op = "use" /\ q.phase = "find" =>
       /\ q.account \in Accounts
       /\ q.token \in Tokens /\ q.decoded \in Nat /\ Current(q)
  /\ q.answer = "issued" => q.token \in Tokens
  /\ q.answer = "accepted" =>
       /\ q.token \in Tokens /\ q.decoded \in Nat /\ Current(q)
       /\ q.seen \in Users /\ ~ TokenRevoked(q.seen.cutoff, q.token)
  /\ q.op = "use" /\ q.answer = "refused" =>
       /\ q.token \in Tokens /\ q.decoded \in Nat
       /\ Current(q) => /\ q.seen \in Users
                        /\ ~ q.seen.active \/ TokenRevoked(q.seen.cutoff, q.token)

LoginsInv ==
  /\ now \in Nat
  /\ account \in [Accounts -> Users]
  /\ request \in [Requests -> AllRequests]
  /\ \A r \in Requests : RequestFits(request[r])

LEMMA SecondTyped == ASSUME NEW t \in Int  PROVE Second(t) \in Int
BY DivBounds, LimiterAssumption DEF Second

LEMMA TokenTyped ==
  /\ \A t \in Nat : Token(t) \in Tokens
  /\ OldToken \in Tokens
<1>1. ASSUME NEW t \in Int  PROVE t + Lifetime * TicksPerSecond \in Int
  BY LimiterAssumption, LoginsAssumption
<1>2. ASSUME NEW t \in Int
      PROVE  /\ Token(t) \in Tokens
             /\ Token(t).exp = Second(t + Lifetime * TicksPerSecond)
             /\ Token(t).exp \in Int /\ Token(t).at = t
  <2>1. Second(t) \in Int /\ Second(t + Lifetime * TicksPerSecond) \in Int
    BY <1>1, SecondTyped
  <2>. QED  BY <2>1 DEF Token, Iat, Tokens
<1>3. OldToken = [iat |-> None, exp |-> Token(-1).exp, at |-> -1]
  BY DEF OldToken, Token
<1>. QED  BY <1>2, <1>3 DEF Tokens

(* A step that changes one request and no account.                         *)
LEMMA OneRequest ==
  ASSUME LoginsInv, NEW r \in Requests, NEW q \in AllRequests, RequestFits(q),
         request' = [request EXCEPT ![r] = q], now' = now, account' = account
  PROVE  LoginsInv'
<1>1. /\ request'[r] = q /\ request' \in [Requests -> AllRequests]
      /\ \A p \in Requests \ {r} : request'[p] = request[p]
  BY DEF LoginsInv
<1>2. ASSUME NEW p \in Requests  PROVE RequestFits(request'[p])
  <2>1. CASE p = r
    BY <1>1, <2>1
  <2>2. CASE p # r
    BY <1>1, <2>2 DEF LoginsInv
  <2>. QED  BY <2>1, <2>2
<1>3. now' \in Nat /\ account' \in [Accounts -> Users]
  BY DEF LoginsInv
<1>. QED  BY <1>1, <1>2, <1>3 DEF LoginsInv

LEMMA IssuedTokens ==
  ASSUME LoginsInv, NEW u, NEW token \in Issued(u)  PROVE token \in Tokens
<1>1. CASE token = OldToken
  BY <1>1, TokenTyped
<1>2. ASSUME NEW q \in Requests, request[q].answer = "issued"
      PROVE  request[q].token \in Tokens
  BY <1>2 DEF LoginsInv, RequestFits
<1>. QED  BY <1>1, <1>2 DEF Issued

LEMMA LoginsInvWeb ==
  ASSUME LoginsInv, NEW r \in Requests, NEW u \in Accounts,
         LoginWeb(r, u) \/ LoginApi(r, u)
  PROVE  LoginsInv'
<1>1. PICK f : f = Login(u, "find", None)
  OBVIOUS
<1>2. PICK e : e = Login(u, "ended", "limited")
  OBVIOUS
<1>3. f \in AllRequests /\ e \in AllRequests
  BY <1>1, <1>2 DEF Login, AllRequests
<1>4. RequestFits(f)
  BY <1>1, LoginsAssumption DEF RequestFits, Login
<1>5. RequestFits(e)
  BY <1>2 DEF RequestFits, Login
<1>6. PICK q \in {f, e} : /\ request' = [request EXCEPT ![r] = q]
                          /\ now' = now /\ account' = account
  BY <1>1, <1>2 DEF LoginWeb, LoginApi, Admit, Deny, vars
<1>. QED  BY <1>3, <1>4, <1>5, <1>6, OneRequest

LEMMA LoginsInvFind ==
  ASSUME LoginsInv, NEW r \in Requests, FindAccount(r)  PROVE LoginsInv'
<1>1. PICK o \in AllRequests :
        o = request[r] /\ RequestFits(o) /\ o.op = "login" /\ o.phase = "find"
  BY DEF LoginsInv, FindAccount
<1>2. PICK e : e = [o EXCEPT !.phase = "ended", !.answer = "refused"]
  OBVIOUS
<1>3. PICK i : i = [o EXCEPT !.phase = "issue"]
  OBVIOUS
<1>4. /\ e \in AllRequests /\ e.op = "login" /\ e.answer = "refused"
      /\ i \in AllRequests /\ i.op = "login" /\ i.answer = o.answer
      /\ i.token = o.token /\ i.decoded = o.decoded /\ i.seen = o.seen
  BY <1>1, <1>2, <1>3 DEF AllRequests
<1>5. RequestFits(e) /\ RequestFits(i)
  BY <1>1, <1>4 DEF RequestFits, Current
<1>6. PICK q \in {e, i} : /\ request' = [request EXCEPT ![r] = q]
                          /\ now' = now /\ account' = account
  BY <1>1, <1>2, <1>3 DEF FindAccount, Answer, vars
<1>. QED  BY <1>4, <1>5, <1>6, OneRequest

LEMMA LoginsInvIssue ==
  ASSUME LoginsInv, NEW r \in Requests, IssueToken(r)  PROVE LoginsInv'
<1>1. PICK o \in AllRequests : o = request[r]
  BY DEF LoginsInv
<1>2. PICK i : i = [o EXCEPT !.phase = "ended", !.answer = "issued", !.token = Token(now)]
  OBVIOUS
<1>3. Token(now) \in Tokens
  BY TokenTyped DEF LoginsInv
<1>4. /\ i \in AllRequests /\ i.phase = "ended" /\ i.answer = "issued"
      /\ i.token = Token(now)
  BY <1>2, <1>3 DEF AllRequests
<1>5. RequestFits(i)
  BY <1>3, <1>4 DEF RequestFits
<1>6. request' = [request EXCEPT ![r] = i] /\ now' = now /\ account' = account
  BY <1>1, <1>2 DEF IssueToken, vars
<1>. QED  BY <1>4, <1>5, <1>6, OneRequest

LEMMA LoginsInvDecode ==
  ASSUME LoginsInv, NEW r \in Requests, NEW u \in Accounts, NEW token \in Issued(u),
         Decode(r, u, token)
  PROVE  LoginsInv'
<1>1. token \in Tokens /\ now \in Nat
  BY IssuedTokens DEF LoginsInv
<1>2. PICK q : q = IF Expired(token) THEN Use(u, token, "ended", "refused")
                                     ELSE Use(u, token, "find", None)
  OBVIOUS
<1>3. q \in AllRequests /\ q.account = u /\ q.token = token /\ q.decoded = now
  BY <1>1, <1>2 DEF Use, AllRequests
<1>4. Expired(token) <=> ~ Current(q)
  BY <1>3 DEF Expired, Current
<1>5. /\ q.answer # "issued" /\ q.answer # "accepted"
      /\ q.phase = "find" => Current(q)
      /\ q.answer = "refused" => ~ Current(q)
  BY <1>2, <1>4, LoginsAssumption DEF Use
<1>6. RequestFits(q)
  BY <1>1, <1>3, <1>5 DEF RequestFits
<1>7. request' = [request EXCEPT ![r] = q] /\ now' = now /\ account' = account
  BY <1>2 DEF Decode, vars
<1>. QED  BY <1>3, <1>6, <1>7, OneRequest

LEMMA LoginsInvUser ==
  ASSUME LoginsInv, NEW r \in Requests, UserFromToken(r)  PROVE LoginsInv'
<1>1. PICK o \in AllRequests :
        o = request[r] /\ RequestFits(o) /\ o.op = "use" /\ o.phase = "find"
  BY DEF LoginsInv, UserFromToken
<1>2. o.account \in Accounts /\ o.token \in Tokens /\ o.decoded \in Nat /\ Current(o)
  BY <1>1 DEF RequestFits
<1>3. PICK user : user = account[o.account]
  OBVIOUS
<1>4. user \in Users
  BY <1>2, <1>3 DEF LoginsInv
<1>5. PICK a \in {"accepted", "refused"} :
        a = IF user.active /\ ~ TokenRevoked(user.cutoff, o.token)
            THEN "accepted" ELSE "refused"
  OBVIOUS
<1>6. PICK q : q = [o EXCEPT !.phase = "ended", !.seen = user, !.answer = a]
  OBVIOUS
<1>7. /\ q \in AllRequests /\ q.op = "use" /\ q.phase = "ended" /\ q.answer = a
      /\ q.token = o.token /\ q.decoded = o.decoded /\ q.seen = user
  BY <1>1, <1>4, <1>6 DEF AllRequests
<1>8. RequestFits(q)
  <2>1. Current(q)
    BY <1>2, <1>7 DEF Current
  <2>2. (a = "accepted" => ~ TokenRevoked(user.cutoff, o.token))
    BY <1>5
  <2>3. a = "refused" => ~ user.active \/ TokenRevoked(user.cutoff, o.token)
    BY <1>5
  <2>. QED  BY <1>2, <1>4, <1>7, <2>1, <2>2, <2>3 DEF RequestFits
<1>9. request' = [request EXCEPT ![r] = q] /\ now' = now /\ account' = account
  BY <1>1, <1>3, <1>5, <1>6 DEF UserFromToken, vars
<1>. QED  BY <1>7, <1>8, <1>9, OneRequest

LEMMA LoginsInvRestart == ASSUME LoginsInv, Restart  PROVE LoginsInv'
<1>1. now' = now /\ account' = account
  BY DEF Restart, Reset
<1>2. ASSUME NEW r \in Requests
      PROVE  request'[r] \in AllRequests /\ RequestFits(request'[r])
  <2>1. PICK o \in AllRequests : o = request[r] /\ RequestFits(o)
    BY DEF LoginsInv
  <2>2. PICK e : e = [o EXCEPT !.phase = "ended", !.answer = "lost"]
    OBVIOUS
  <2>3. e \in AllRequests /\ e.phase = "ended" /\ e.answer = "lost"
    BY <2>1, <2>2 DEF AllRequests
  <2>4. RequestFits(e)
    BY <2>3 DEF RequestFits
  <2>5. request'[r] = e \/ request'[r] = o
    BY <2>1, <2>2 DEF Restart
  <2>. QED  BY <2>1, <2>3, <2>4, <2>5
<1>3. request' \in [Requests -> AllRequests]
  BY <1>2 DEF Restart
<1>4. now' \in Nat /\ account' \in [Accounts -> Users]
  BY <1>1 DEF LoginsInv
<1>. QED  BY <1>2, <1>3, <1>4 DEF LoginsInv

LEMMA LoginsInvOperator ==
  ASSUME LoginsInv, NEW u \in Accounts, Operator(u)  PROVE LoginsInv'
<1>1. now' = now /\ request' = request
  BY DEF Operator, vars
<1>2. PICK old \in Users : old = account[u]
  BY DEF LoginsInv
<1>3. PICK new \in Users : account' = [account EXCEPT ![u] = new]
  <2>1. CASE Revoke(u)
    <3>1. [old EXCEPT !.cutoff = now] \in Users
      BY DEF LoginsInv, Users
    <3>. QED  BY <1>2, <2>1, <3>1 DEF Revoke
  <2>2. ASSUME NEW active \in BOOLEAN, Activate(u, active)
        PROVE  \E n \in Users : account' = [account EXCEPT ![u] = n]
    <3>1. [old EXCEPT !.active = active] \in Users
      BY DEF Users
    <3>. QED  BY <1>2, <2>2, <3>1 DEF Activate
  <2>. QED  BY <2>1, <2>2 DEF Operator
<1>4. account' \in [Accounts -> Users]
  BY <1>3 DEF LoginsInv
<1>5. (\A r \in Requests : RequestFits(request[r]))'
  BY <1>1 DEF LoginsInv
<1>. QED  BY <1>1, <1>4, <1>5 DEF LoginsInv

LEMMA LoginsInvKept ==
  ASSUME LoginsInv, Others \/ UNCHANGED loginsVars  PROVE LoginsInv'
<1>1. now' \in Nat /\ account' = account /\ request' = request
  BY DEF LoginsInv, Others, Tick, Admit, Deny, loginVars, loginsVars, vars
<1>. QED  BY <1>1 DEF LoginsInv

LEMMA LoginsInvInit == LoginsInit => LoginsInv
<1>. SUFFICES ASSUME LoginsInit  PROVE LoginsInv
  OBVIOUS
<1>1. now \in Nat /\ account \in [Accounts -> Users]
  BY DEF LoginsInit, Init, Users
<1>2. NoRequest \in AllRequests
  BY DEF NoRequest, AllRequests
<1>3. RequestFits(NoRequest)
  BY LoginsAssumption DEF NoRequest, RequestFits
<1>. QED  BY <1>1, <1>2, <1>3 DEF LoginsInv, LoginsInit

LEMMA LoginsInvNext == ASSUME LoginsInv, [LoginsNext]_loginsVars  PROVE LoginsInv'
<1>1. ASSUME NEW r \in Requests, NEW u \in Accounts,
             \/ LoginWeb(r, u) \/ LoginApi(r, u)
             \/ \E token \in Issued(u) : Decode(r, u, token)
      PROVE  LoginsInv'
  BY <1>1, LoginsInvWeb, LoginsInvDecode
<1>2. ASSUME NEW r \in Requests, FindAccount(r) \/ IssueToken(r) \/ UserFromToken(r)
      PROVE  LoginsInv'
  BY <1>2, LoginsInvFind, LoginsInvIssue, LoginsInvUser
<1>3. ASSUME NEW u \in Accounts, Operator(u)  PROVE LoginsInv'
  BY <1>3, LoginsInvOperator
<1>4. CASE Restart
  BY <1>4, LoginsInvRestart
<1>5. CASE Others \/ UNCHANGED loginsVars
  BY <1>5, LoginsInvKept
<1>. QED  BY <1>1, <1>2, <1>3, <1>4, <1>5 DEF LoginsNext

-----------------------------------------------------------------------------
(* What a cutoff and an expiry say of the moment a token was created.      *)
LEMMA TokenAge ==
  ASSUME NEW t \in Tokens, NEW c \in Nat, NEW d \in Nat
  PROVE  /\ ~ TokenRevoked(c, t) => t.at >= c
         /\ TokenRevoked(c, t) => t.at < c + TicksPerSecond
         /\ t.exp < Second(d) => d > t.at + Lifetime * TicksPerSecond
         /\ ~ (t.exp < Second(d)) => d < t.at + (Lifetime + 1) * TicksPerSecond
<1>1. PICK a \in Int, k \in Nat \ {0}, n \in Nat \ {0} :
        a = t.at /\ k = TicksPerSecond /\ n = Lifetime
  BY LimiterAssumption, LoginsAssumption DEF Tokens
<1>2. PICK i \in Int : i = Second(a) /\ i * k <= a /\ a < i * k + k
  BY <1>1, DivBounds DEF Second
<1>3. c # None
  BY LoginsAssumption
<1>4. t.iat = None => t.at = -1
  BY LoginsAssumption, <1>1, <1>2 DEF Tokens, Iat
<1>5. t.iat # None => t.iat = i
  BY <1>1, <1>2 DEF Tokens, Iat
<1>6. ~ TokenRevoked(c, t) => t.at >= c
  BY <1>1, <1>2, <1>3, <1>5 DEF TokenRevoked
<1>7. TokenRevoked(c, t) => t.at < c + TicksPerSecond
  BY <1>1, <1>2, <1>4, <1>5 DEF TokenRevoked
<1>8. PICK b \in Int : b = a + n * k
  OBVIOUS
<1>9. PICK e \in Int : e = t.exp /\ e * k <= b /\ b < e * k + k
  BY <1>1, <1>8, DivBounds DEF Tokens, Second
<1>10. PICK s \in Int : s = Second(d) /\ s * k <= d /\ d < s * k + k
  BY <1>1, DivBounds DEF Second
<1>11. e < s => d > b
  <2>1. SUFFICES ASSUME e + 1 <= s  PROVE d > b
    OBVIOUS
  <2>2. (e + 1) * k <= s * k
    BY <2>1
  <2>3. (e + 1) * k = e * k + k
    OBVIOUS
  <2>. QED  BY <1>9, <1>10, <2>2, <2>3
<1>12. ~ (e < s) => d < b + k
  <2>1. SUFFICES ASSUME s <= e  PROVE d < b + k
    OBVIOUS
  <2>2. s * k <= e * k
    BY <2>1
  <2>. QED  BY <1>9, <1>10, <2>2
<1>13. (n + 1) * k = n * k + k
  OBVIOUS
<1>14. t.exp < Second(d) => d > t.at + Lifetime * TicksPerSecond
  BY <1>1, <1>8, <1>9, <1>10, <1>11
<1>15. ~ (t.exp < Second(d)) => d < t.at + (Lifetime + 1) * TicksPerSecond
  BY <1>1, <1>8, <1>9, <1>10, <1>12, <1>13
<1>. QED  BY <1>6, <1>7, <1>14, <1>15

LEMMA RevokedIsRefusedStep == LoginsInv => RevokedIsRefused
<1>. SUFFICES ASSUME LoginsInv, NEW r \in Requests, request[r].answer = "accepted"
              PROVE  LET q == request[r] IN
                       /\ q.seen.cutoff # None => q.token.at >= q.seen.cutoff
                       /\ q.decoded < q.token.at + (Lifetime + 1) * TicksPerSecond
  BY DEF RevokedIsRefused
<1>1. PICK q : q = request[r]
  OBVIOUS
<1>2. /\ q.token \in Tokens /\ q.decoded \in Nat /\ Current(q)
      /\ q.seen \in Users /\ ~ TokenRevoked(q.seen.cutoff, q.token)
  BY <1>1 DEF LoginsInv, RequestFits
<1>3. q.decoded < q.token.at + (Lifetime + 1) * TicksPerSecond
  BY <1>2, TokenAge DEF Current
<1>4. ASSUME q.seen.cutoff # None  PROVE q.token.at >= q.seen.cutoff
  <2>1. q.seen.cutoff \in Nat
    BY <1>2, <1>4 DEF Users
  <2>. QED  BY <1>2, <2>1, TokenAge
<1>. QED  BY <1>1, <1>3, <1>4

LEMMA ValidIsAcceptedStep == LoginsInv => ValidIsAccepted
<1>. SUFFICES ASSUME LoginsInv, NEW r \in Requests,
                     request[r].op = "use", request[r].answer = "refused"
              PROVE  LET q == request[r] IN
                       \/ q.decoded > q.token.at + Lifetime * TicksPerSecond
                       \/ ~ q.seen.active
                       \/ /\ q.seen.cutoff # None
                          /\ q.token.at < q.seen.cutoff + TicksPerSecond
  BY DEF ValidIsAccepted
<1>1. PICK q : q = request[r]
  OBVIOUS
<1>2. /\ q.token \in Tokens /\ q.decoded \in Nat
      /\ Current(q) => /\ q.seen \in Users
                       /\ ~ q.seen.active \/ TokenRevoked(q.seen.cutoff, q.token)
  BY <1>1 DEF LoginsInv, RequestFits
<1>3. CASE ~ Current(q)
  <2>1. q.decoded > q.token.at + Lifetime * TicksPerSecond
    BY <1>2, <1>3, TokenAge DEF Current
  <2>. QED  BY <1>1, <2>1
<1>4. CASE Current(q) /\ TokenRevoked(q.seen.cutoff, q.token)
  <2>1. q.seen.cutoff # None
    BY <1>4 DEF TokenRevoked
  <2>2. q.seen.cutoff \in Nat
    BY <1>2, <1>4, <2>1 DEF Users
  <2>3. q.token.at < q.seen.cutoff + TicksPerSecond
    BY <1>2, <1>4, <2>2, TokenAge
  <2>. QED  BY <1>1, <2>1, <2>3
<1>. QED  BY <1>1, <1>2, <1>3, <1>4

(* For every lifetime and every tick: no token created before the cutoff,  *)
(* and none older than its lifetime and a second, gets a request in.       *)
THEOREM RevokedTokensAreRefused == LoginsSpec => []RevokedIsRefused
BY LoginsInvInit, LoginsInvNext, RevokedIsRefusedStep, PTL DEF LoginsSpec

(* And none created a second after the cutoff, and within its lifetime, is *)
(* refused to an active account: the truncated iat costs no more.          *)
THEOREM ValidTokensAreAccepted == LoginsSpec => []ValidIsAccepted
BY LoginsInvInit, LoginsInvNext, ValidIsAcceptedStep, PTL DEF LoginsSpec

=============================================================================
