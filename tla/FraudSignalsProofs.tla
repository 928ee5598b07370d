-------------------------- MODULE FraudSignalsProofs -------------------------
(***************************************************************************)
(* What purchases must be reported, and what the reported totals are worth *)
(* for any prices, windows and limits, and any number of top-ups at once.  *)
(***************************************************************************)
EXTENDS FraudSignals, Sums

RowType == [at : Int, amount : Nat, bought : BOOLEAN]

Events ==
  {"booking", "rapid_bookings", "booking_spend", "order", "rapid_orders", "order_spend",
   "failed_booking", "failed_order", "large_top_up", "top_up", "top_up_total"}

SignalType == [event : Events, score : Int, at : Int, number : Int, amount : Nat]

TopUpType ==
  [amount : Nat, since : Int, observed : Int, adds : Seq(SignalType) \union {None}]

TypeInv ==
  /\ now \in Nat
  /\ bookings \in Seq(RowType) /\ orders \in Seq(RowType)
  /\ signals \in Seq(SignalType)
  /\ topUp \in [Targets -> TopUpType]

-----------------------------------------------------------------------------
(* Operators.                                                              *)

LEMMA IndicesAreFinite ==
  ASSUME NEW n \in Nat, NEW S, S \subseteq 1 .. n
  PROVE  IsFiniteSet(S) /\ Cardinality(S) \in Nat
<1>1. IsFiniteSet(1 .. n)
  BY FS_Interval
<1>2. IsFiniteSet(S)
  BY <1>1, FS_Subset
<1> QED
  BY <1>2, FS_CardinalityType

(* The amounts of some of the rows are those of a part of 1 .. n.          *)
LEMMA AmountIsSum ==
  ASSUME NEW n \in Nat, NEW S, S \subseteq 1 .. n,
         NEW rows, NEW f, \A i \in S : rows[i].amount \in Nat /\ f[i] = rows[i].amount
  PROVE  Amount(rows, S) = SumFunctionOnSet(f, S) /\ Amount(rows, S) \in Nat
<1> DEFINE g == [i \in S |-> rows[i].amount]
<1>1. Amount(rows, S) = SumFunctionOnSet(g, S)
  BY DEF Amount, SumFunction
<1>2. IsFiniteSet(S)
  BY IndicesAreFinite
<1>3. (\A i \in S : g[i] \in Nat) /\ \A i \in S : g[i] \in Int /\ g[i] = f[i]
  OBVIOUS
<1> HIDE DEF g
<1>4. SumFunctionOnSet(g, S) = SumFunctionOnSet(f, S)
  BY <1>2, <1>3, SumOfSame
<1>5. SumFunctionOnSet(g, S) \in Nat
  BY <1>2, <1>3, SumIsNat
<1> QED
  BY <1>1, <1>4, <1>5

LEMMA AmountGrows ==
  ASSUME NEW n \in Nat, NEW T, T \subseteq 1 .. n, NEW S \in SUBSET T,
         NEW rows, \A i \in T : rows[i].amount \in Nat
  PROVE  Amount(rows, S) <= Amount(rows, T)
<1> DEFINE f == [i \in T |-> rows[i].amount]
<1>1. \A i \in T : f[i] \in Nat /\ f[i] = rows[i].amount
  OBVIOUS
<1> HIDE DEF f
<1>2. Amount(rows, S) = SumFunctionOnSet(f, S) /\ Amount(rows, T) = SumFunctionOnSet(f, T)
  BY <1>1, AmountIsSum
<1> QED
  BY <1>1, <1>2, IndicesAreFinite, SumGrows

LEMMA AmountOfSame ==
  ASSUME NEW n \in Nat, NEW S, S \subseteq 1 .. n, NEW rows, NEW more,
         \A i \in S : rows[i].amount \in Nat /\ more[i] = rows[i]
  PROVE  Amount(more, S) = Amount(rows, S)
<1> DEFINE f == [i \in S |-> rows[i].amount]
<1>1. \A i \in S : f[i] = rows[i].amount /\ f[i] = more[i].amount /\ more[i].amount \in Nat
  OBVIOUS
<1> HIDE DEF f
<1>2. Amount(rows, S) = SumFunctionOnSet(f, S)
  BY <1>1, AmountIsSum
<1>3. Amount(more, S) = SumFunctionOnSet(f, S)
  BY <1>1, AmountIsSum
<1> QED
  BY <1>2, <1>3

LEMMA AmountWithRow ==
  ASSUME NEW n \in Nat, NEW S, S \subseteq 1 .. n, NEW k \in (1 .. n) \ S,
         NEW rows, \A i \in S \union {k} : rows[i].amount \in Nat
  PROVE  Amount(rows, S \union {k}) = rows[k].amount + Amount(rows, S)
<1> DEFINE f == [i \in S \union {k} |-> rows[i].amount]
<1>1. /\ \A i \in S \union {k} : f[i] = rows[i].amount /\ f[i] \in Nat
      /\ \A i \in S \union {k} : f[i] \in Int
  OBVIOUS
<1> HIDE DEF f
<1>2. /\ Amount(rows, S \union {k}) = SumFunctionOnSet(f, S \union {k})
      /\ Amount(rows, S) = SumFunctionOnSet(f, S)
  BY <1>1, AmountIsSum
<1>3. IsFiniteSet(S \union {k}) /\ (S \union {k}) \ {k} = S
  BY IndicesAreFinite
<1>4. SumFunctionOnSet(f, S \union {k}) = f[k] + SumFunctionOnSet(f, (S \union {k}) \ {k})
  BY <1>1, <1>3, SumWithElement
<1> QED
  BY <1>1, <1>2, <1>3, <1>4

Has(s, x) == \E i \in DOMAIN s : s[i] = x

LEMMA ConcatHas ==
  ASSUME NEW T, NEW a \in Seq(T), NEW b \in Seq(T), NEW x
  PROVE  Has(a \o b, x) <=> Has(a, x) \/ Has(b, x)
<1> DEFINE d == a \o b
<1>1. /\ \A i \in DOMAIN a : i \in DOMAIN d /\ d[i] = a[i]
      /\ \A i \in DOMAIN b : Len(a) + i \in DOMAIN d /\ d[Len(a) + i] = b[i]
      /\ \A i \in DOMAIN d : \/ i \in DOMAIN a /\ d[i] = a[i]
                             \/ i - Len(a) \in DOMAIN b /\ d[i] = b[i - Len(a)]
  OBVIOUS
<1> HIDE DEF d
<1>2. ASSUME NEW i \in DOMAIN a, a[i] = x PROVE Has(d, x)
  BY <1>1, <1>2 DEF Has
<1>3. ASSUME NEW i \in DOMAIN b, b[i] = x PROVE Has(d, x)
  BY <1>1, <1>3 DEF Has
<1>4. ASSUME NEW i \in DOMAIN d, d[i] = x PROVE Has(a, x) \/ Has(b, x)
  BY <1>1, <1>4 DEF Has
<1>5. Has(d, x) <=> Has(a, x) \/ Has(b, x)
  BY <1>2, <1>3, <1>4 DEF Has
<1> QED
  BY <1>5 DEF d

(* A signal whose condition may hold.                                      *)
OneOrNone(q, s) == q = <<>> \/ q = <<s>>

LEMMA OneOrNoneHas ==
  ASSUME NEW T, NEW s \in T, NEW q, OneOrNone(q, s)
  PROVE  /\ q \in Seq(T)
         /\ \A x : Has(q, x) => x = s
         /\ q = <<s>> => Has(q, s)
<1>1. CASE q = <<>>
  <2>1. <<>> # <<s>>
    OBVIOUS
  <2> QED
    BY <1>1, <2>1 DEF Has
<1>2. CASE q = <<s>>
  <2>1. DOMAIN q = {1} /\ q[1] = s
    BY <1>2
  <2>2. q \in Seq(T)
    BY <1>2
  <2> QED
    BY <2>1, <2>2 DEF Has
<1> QED
  BY <1>1, <1>2 DEF OneOrNone

LEMMA RowFields ==
  ASSUME NEW rows \in Seq(RowType), NEW i \in DOMAIN rows
  PROVE  rows[i].at \in Int /\ rows[i].amount \in Nat /\ rows[i].bought \in BOOLEAN
<1>1. rows[i] \in RowType
  OBVIOUS
<1> QED
  BY <1>1 DEF RowType

LEMMA ConcatThree ==
  ASSUME NEW T, NEW a \in Seq(T), NEW b \in Seq(T), NEW c \in Seq(T)
  PROVE  /\ a \o b \o c \in Seq(T)
         /\ \A x : Has(a \o b \o c, x) <=> Has(a, x) \/ Has(b, x) \/ Has(c, x)
<1>1. a \o b \in Seq(T) /\ a \o b \o c \in Seq(T)
  OBVIOUS
<1>2. ASSUME NEW x PROVE Has(a \o b \o c, x) <=> Has(a, x) \/ Has(b, x) \/ Has(c, x)
  <2>1. Has(a \o b, x) <=> Has(a, x) \/ Has(b, x)
    BY ConcatHas
  <2>2. Has(a \o b \o c, x) <=> Has(a \o b, x) \/ Has(c, x)
    BY <1>1, ConcatHas
  <2> QED
    BY <2>1, <2>2
<1> QED
  BY <1>1, <1>2

(* The signals of a purchase.                                              *)
LEMMA ThreeSignals ==
  ASSUME NEW s1 \in SignalType, NEW s2 \in SignalType, NEW s3 \in SignalType,
         NEW a, NEW b, NEW c, OneOrNone(a, s1), OneOrNone(b, s2), OneOrNone(c, s3)
  PROVE  /\ a \o b \o c \in Seq(SignalType)
         /\ \A x : Has(a \o b \o c, x) => x \in {s1, s2, s3}
         /\ b = <<s2>> => Has(a \o b \o c, s2)
         /\ c = <<s3>> => Has(a \o b \o c, s3)
<1>1. a \in Seq(SignalType) /\ (\A x : Has(a, x) => x = s1)
  BY OneOrNoneHas
<1>2. b \in Seq(SignalType) /\ (\A x : Has(b, x) => x = s2) /\ (b = <<s2>> => Has(b, s2))
  BY OneOrNoneHas
<1>3. c \in Seq(SignalType) /\ (\A x : Has(c, x) => x = s3) /\ (c = <<s3>> => Has(c, s3))
  BY OneOrNoneHas
<1>4. /\ a \o b \o c \in Seq(SignalType)
      /\ \A x : Has(a \o b \o c, x) <=> Has(a, x) \/ Has(b, x) \/ Has(c, x)
  BY <1>1, <1>2, <1>3, ConcatThree
<1> QED
  BY <1>1, <1>2, <1>3, <1>4

-----------------------------------------------------------------------------
(* The claims about a table, by what signals there are.                    *)
Told(sigs, event, t) == \E s \in DOMAIN sigs : sigs[s].event = event /\ sigs[s].at = t

CoveredAt(i, sigs, rows, span, limit, burst, sum, split) ==
  rows[i].bought =>
    /\ Cardinality(BoughtBy(rows, i, span)) >= limit => Told(sigs, burst, rows[i].at)
    /\ Amount(rows, BoughtBy(rows, i, span)) >= sum => Told(sigs, split, rows[i].at)

Covered(sigs, rows, span, limit, burst, sum, split) ==
  \A i \in DOMAIN rows : CoveredAt(i, sigs, rows, span, limit, burst, sum, split)

BookingSpan == BookingWindow - Lag
OrderSpan == OrderWindow - Lag

Reported ==
  /\ Covered(signals, bookings, BookingSpan, RapidBookingLimit, "rapid_bookings",
             CumulativeBooking, "booking_spend")
  /\ Covered(signals, orders, OrderSpan, RapidOrderLimit, "rapid_orders",
             CumulativeOrder, "order_spend")

LEMMA ReportedMeans == Reported <=> BurstsAreReported /\ SplitsAreReported
BY DEF Reported, Covered, CoveredAt, Told, BurstsAreReported, SplitsAreReported, Bursts, Splits,
   ReportedAt, BookingSpan, OrderSpan

(* Signals are only added.                                                 *)
LEMMA ToldStays ==
  ASSUME NEW sigs \in Seq(SignalType), NEW new \in Seq(SignalType)
  PROVE  /\ \A e, t : Told(sigs, e, t) => Told(sigs \o new, e, t)
         /\ \A s : Has(new, s) => Told(sigs \o new, s.event, s.at)
<1> DEFINE more == sigs \o new
<1>1. /\ \A i \in DOMAIN sigs : i \in DOMAIN more /\ more[i] = sigs[i]
      /\ \A i \in DOMAIN new : Len(sigs) + i \in DOMAIN more /\ more[Len(sigs) + i] = new[i]
  OBVIOUS
<1> HIDE DEF more
<1>2. \A e, t : Told(sigs, e, t) => Told(more, e, t)
  BY <1>1 DEF Told
<1>3. \A s : Has(new, s) => Told(more, s.event, s.at)
  BY <1>1 DEF Told, Has
<1> QED
  BY <1>2, <1>3 DEF more

LEMMA CoveredStays ==
  ASSUME NEW sigs \in Seq(SignalType), NEW new \in Seq(SignalType),
         NEW rows, NEW span, NEW limit, NEW burst, NEW sum, NEW split,
         Covered(sigs, rows, span, limit, burst, sum, split)
  PROVE  Covered(sigs \o new, rows, span, limit, burst, sum, split)
BY ToldStays DEF Covered, CoveredAt

-----------------------------------------------------------------------------
RowAdded(rows, more) ==
  /\ rows \in Seq(RowType) /\ more \in Seq(RowType)
  /\ Len(more) = Len(rows) + 1
  /\ \A i \in DOMAIN rows : more[i] = rows[i]

LEMMA AppendAddsRow ==
  ASSUME NEW rows \in Seq(RowType), NEW row \in RowType
  PROVE  RowAdded(rows, Append(rows, row)) /\ Append(rows, row)[Len(rows) + 1] = row
BY DEF RowAdded

(* What was bought with a row, and what it was bought after, are settled:  *)
(* it is enough to report the new row.                                     *)
LEMMA OldPurchasesStay ==
  ASSUME NEW rows, NEW more, RowAdded(rows, more), NEW i \in DOMAIN rows, NEW span
  PROVE  /\ i \in DOMAIN more /\ more[i] = rows[i]
         /\ BoughtBy(more, i, span) = BoughtBy(rows, i, span)
         /\ Amount(more, BoughtBy(more, i, span)) = Amount(rows, BoughtBy(rows, i, span))
<1>1. /\ rows \in Seq(RowType) /\ more \in Seq(RowType) /\ Len(more) = Len(rows) + 1
      /\ \A j \in DOMAIN rows : more[j] = rows[j]
  BY DEF RowAdded
<1>2. 1 .. i \subseteq DOMAIN rows /\ i \in DOMAIN more /\ i \in Nat
  BY <1>1
<1>3. BoughtBy(more, i, span) = BoughtBy(rows, i, span)
  BY <1>1, <1>2 DEF BoughtBy
<1> DEFINE S == BoughtBy(rows, i, span)
<1>4. S \subseteq 1 .. i
  BY DEF BoughtBy
<1> HIDE DEF S
<1>5. \A j \in S : rows[j].amount \in Nat /\ more[j] = rows[j]
  BY <1>1, <1>2, <1>4, RowFields
<1>6. Amount(more, S) = Amount(rows, S)
  BY <1>2, <1>4, <1>5, AmountOfSame
<1> QED
  BY <1>1, <1>2, <1>3, <1>6 DEF S

LEMMA OneRowMore ==
  ASSUME NEW sigs \in Seq(SignalType), NEW new \in Seq(SignalType),
         NEW rows, NEW more, RowAdded(rows, more),
         NEW span, NEW limit, NEW burst, NEW sum, NEW split,
         Covered(sigs, rows, span, limit, burst, sum, split),
         CoveredAt(Len(more), sigs \o new, more, span, limit, burst, sum, split)
  PROVE  Covered(sigs \o new, more, span, limit, burst, sum, split)
<1> DEFINE all == sigs \o new
<1>1. \A e, t : Told(sigs, e, t) => Told(all, e, t)
  BY ToldStays
<1> HIDE DEF all
<1>2. ASSUME NEW i \in DOMAIN rows
      PROVE  CoveredAt(i, all, more, span, limit, burst, sum, split)
  <2>1. CoveredAt(i, sigs, rows, span, limit, burst, sum, split)
    BY DEF Covered
  <2>2. /\ more[i] = rows[i]
        /\ BoughtBy(more, i, span) = BoughtBy(rows, i, span)
        /\ Amount(more, BoughtBy(more, i, span)) = Amount(rows, BoughtBy(rows, i, span))
    BY OldPurchasesStay
  <2> QED
    BY <1>1, <2>1, <2>2 DEF CoveredAt
<1>3. \A i \in DOMAIN more : i \in DOMAIN rows \/ i = Len(more)
  BY DEF RowAdded
<1> QED
  BY <1>2, <1>3 DEF Covered, all

-----------------------------------------------------------------------------
(* The queries of a purchase find all that was bought before it, and its   *)
(* own row, as far back as they look.                                      *)
IsPurchase(rows, more, price) ==
  RowAdded(rows, more) /\ more[Len(more)].at = now /\ price \in Nat

LEMMA AppendIsPurchase ==
  ASSUME TypeInv, NEW rows \in Seq(RowType), NEW price \in Nat
  PROVE  IsPurchase(rows, Append(rows, [at |-> now, amount |-> price, bought |-> TRUE]), price)
<1> DEFINE row == [at |-> now, amount |-> price, bought |-> TRUE]
<1>1. row \in RowType /\ row.at = now
  BY DEF RowType, TypeInv
<1> HIDE DEF row
<1>2. RowAdded(rows, Append(rows, row)) /\ Append(rows, row)[Len(rows) + 1] = row
  BY <1>1, AppendAddsRow
<1>3. Len(Append(rows, row)) = Len(rows) + 1
  BY <1>2 DEF RowAdded
<1>4. IsPurchase(rows, Append(rows, row), price)
  BY <1>1, <1>2, <1>3 DEF IsPurchase
<1> QED
  BY <1>4 DEF row

LEMMA QueriesFindPurchases ==
  ASSUME TypeInv, NEW rows, NEW more, NEW price, IsPurchase(rows, more, price),
         NEW since \in Int, NEW span \in Int, since <= now - span
  PROVE  /\ Recent(more, since) \in Nat /\ Spent(more, since, price) \in Nat
         /\ Cardinality(BoughtBy(more, Len(more), span)) \in 0 .. Recent(more, since)
         /\ Amount(more, BoughtBy(more, Len(more), span)) \in 0 .. Spent(more, since, price)
<1> DEFINE S == BoughtBy(more, Len(more), span)
           T == Since(more, since)
<1>1. more \in Seq(RowType) /\ Len(more) \in Nat /\ price \in Nat /\ more[Len(more)].at = now
  BY DEF IsPurchase, RowAdded
<1>2. T \subseteq 1 .. Len(more) /\ S \in SUBSET T
  <2>1. ASSUME NEW j \in S PROVE j \in T
    <3>1. j \in DOMAIN more /\ more[j].at >= now - span
      BY <1>1 DEF BoughtBy
    <3>2. more[j].at \in Int /\ now \in Int
      BY <1>1, <3>1, RowFields DEF TypeInv
    <3>3. more[j].at >= since
      BY <3>1, <3>2
    <3> QED
      BY <3>1, <3>3 DEF Since
  <2> QED
    BY <1>1, <2>1 DEF Since
<1>3. \A i \in 1 .. Len(more) : more[i].amount \in Nat
  BY <1>1, RowFields
<1> HIDE DEF S, T
<1>4. Cardinality(S) <= Cardinality(T) /\ Cardinality(T) \in Nat /\ Cardinality(S) \in Nat
  BY <1>1, <1>2, IndicesAreFinite, FS_Subset
<1>5. Amount(more, T) \in Nat
  <2> DEFINE f == [i \in T |-> more[i].amount]
  <2>1. \A i \in T : more[i].amount \in Nat /\ f[i] = more[i].amount
    BY <1>2, <1>3
  <2> HIDE DEF f
  <2> QED
    BY <1>1, <1>2, <2>1, AmountIsSum
<1>6. Amount(more, S) <= Amount(more, T) /\ Amount(more, S) \in Nat
  <2> DEFINE f == [i \in S |-> more[i].amount]
  <2>1. \A i \in S : more[i].amount \in Nat /\ f[i] = more[i].amount
    BY <1>2, <1>3
  <2> HIDE DEF f
  <2>2. Amount(more, S) \in Nat
    BY <1>1, <1>2, <2>1, AmountIsSum
  <2>3. \A i \in T : more[i].amount \in Nat
    BY <1>2, <1>3
  <2> QED
    BY <1>1, <1>2, <2>2, <2>3, AmountGrows
<1>7. /\ Recent(more, since) = Cardinality(T) + 1
      /\ Spent(more, since, price) = Amount(more, T) + price
  BY DEF Recent, Spent, T
<1> QED
  BY <1>1, <1>4, <1>5, <1>6, <1>7 DEF S

(* A burst that is now complete, and a sum that is now reached, are        *)
(* reported with this purchase.                                            *)
LEMMA PurchaseReports ==
  ASSUME TypeInv, NEW rows, NEW more, NEW price, IsPurchase(rows, more, price),
         NEW since \in Int, NEW span \in Int, since <= now - span,
         NEW limit \in Nat, NEW sum \in Nat,
         NEW s1 \in SignalType, NEW s2 \in SignalType, NEW s3 \in SignalType,
         s2.at = now, s3.at = now,
         NEW a, NEW b, NEW c, OneOrNone(a, s1), OneOrNone(b, s2), OneOrNone(c, s3),
         Recent(more, since) >= limit => b = <<s2>>,
         Spent(more, since, price) >= sum => c = <<s3>>,
         Covered(signals, rows, span, limit, s2.event, sum, s3.event)
  PROVE  /\ a \o b \o c \in Seq(SignalType)
         /\ \A x : Has(a \o b \o c, x) => x \in {s1, s2, s3}
         /\ Covered(signals \o (a \o b \o c), more, span, limit, s2.event, sum, s3.event)
<1> DEFINE recent == Recent(more, since)
           spent == Spent(more, since, price)
           burst == Cardinality(BoughtBy(more, Len(more), span))
           split == Amount(more, BoughtBy(more, Len(more), span))
           new == a \o b \o c
<1>1. /\ recent \in Nat /\ spent \in Nat
      /\ burst \in 0 .. recent /\ split \in 0 .. spent
  BY QueriesFindPurchases
<1>2. /\ recent >= limit => b = <<s2>>
      /\ spent >= sum => c = <<s3>>
  OBVIOUS
<1>3. /\ new \in Seq(SignalType)
      /\ \A x : Has(new, x) => x \in {s1, s2, s3}
      /\ b = <<s2>> => Has(new, s2)
      /\ c = <<s3>> => Has(new, s3)
  BY ThreeSignals
<1>4. signals \in Seq(SignalType) /\ RowAdded(rows, more) /\ more[Len(more)].at = now
  BY DEF TypeInv, IsPurchase
<1>5. \A s : Has(new, s) => Told(signals \o new, s.event, s.at)
  BY <1>3, <1>4, ToldStays
<1> HIDE DEF recent, spent, burst, split, new
<1>6. (burst >= limit => recent >= limit) /\ (split >= sum => spent >= sum)
  BY <1>1
<1>7. /\ burst >= limit => Told(signals \o new, s2.event, now)
      /\ split >= sum => Told(signals \o new, s3.event, now)
  <2>1. burst >= limit => Has(new, s2)
    BY <1>2, <1>3, <1>6, Zenon
  <2>2. split >= sum => Has(new, s3)
    BY <1>2, <1>3, <1>6, Zenon
  <2> QED
    BY <1>5, <2>1, <2>2
<1>8. CoveredAt(Len(more), signals \o new, more, span, limit, s2.event, sum, s3.event)
  BY <1>4, <1>7 DEF CoveredAt, burst, split
<1>9. Covered(signals \o new, more, span, limit, s2.event, sum, s3.event)
  BY <1>3, <1>4, <1>8, OneRowMore
<1> QED
  BY <1>3, <1>9 DEF new

-----------------------------------------------------------------------------
(* The totals of the alarms about top-ups.                                 *)
TopUpsUpTo(sigs, i) == {j \in 1 .. i : sigs[j].event = "top_up"}

TotalsBacked(sigs) ==
  \A i \in DOMAIN sigs :
    sigs[i].event = "top_up_total" => sigs[i].amount <= Amount(sigs, TopUpsUpTo(sigs, i))

(* A total among new signals is that of a top-up before it and of those in *)
(* the table.                                                              *)
BackedBy(sigs, new, k, j) ==
  /\ new[j].event = "top_up"
  /\ new[k].amount <= new[j].amount + Amount(sigs, TopUpsUpTo(sigs, Len(sigs)))

Backed(sigs, new) ==
  \A k \in DOMAIN new :
    new[k].event = "top_up_total" => \E j \in 1 .. (k - 1) : BackedBy(sigs, new, k, j)

(* A top-up that waits for its commit stays backed.                        *)
AddsInv == \A u \in Targets : topUp[u].adds # None => Backed(signals, topUp[u].adds)

LEMMA SignalFields ==
  ASSUME NEW sigs \in Seq(SignalType), NEW i \in DOMAIN sigs
  PROVE  sigs[i].at \in Int /\ sigs[i].amount \in Nat
<1>1. sigs[i] \in SignalType
  OBVIOUS
<1> QED
  BY <1>1 DEF SignalType

LEMMA AmountIsNat ==
  ASSUME NEW sigs \in Seq(SignalType), NEW S, S \subseteq 1 .. Len(sigs)
  PROVE  Amount(sigs, S) \in Nat
<1> DEFINE f == [i \in S |-> sigs[i].amount]
<1>1. \A i \in S : sigs[i].amount \in Nat /\ f[i] = sigs[i].amount
  BY SignalFields
<1>2. Len(sigs) \in Nat
  OBVIOUS
<1> HIDE DEF f
<1> QED
  BY <1>1, <1>2, AmountIsSum

LEMMA TopUpsStay ==
  ASSUME NEW sigs \in Seq(SignalType), NEW new \in Seq(SignalType), NEW i \in 0 .. Len(sigs)
  PROVE  /\ TopUpsUpTo(sigs \o new, i) = TopUpsUpTo(sigs, i)
         /\ Amount(sigs \o new, TopUpsUpTo(sigs, i)) = Amount(sigs, TopUpsUpTo(sigs, i))
<1> DEFINE more == sigs \o new
           S == TopUpsUpTo(sigs, i)
<1>1. \A j \in 1 .. i : j \in DOMAIN sigs /\ more[j] = sigs[j]
  OBVIOUS
<1>2. S \subseteq 1 .. i
  BY DEF TopUpsUpTo
<1>3. TopUpsUpTo(more, i) = S
  BY <1>1 DEF TopUpsUpTo
<1> HIDE DEF more, S
<1>4. \A j \in S : sigs[j].amount \in Nat /\ more[j] = sigs[j]
  BY <1>1, <1>2, SignalFields
<1>5. i \in Nat
  OBVIOUS
<1>6. Amount(more, S) = Amount(sigs, S)
  BY <1>2, <1>4, <1>5, AmountOfSame
<1> QED
  BY <1>3, <1>6 DEF more, S

LEMMA TopUpsGrow ==
  ASSUME NEW sigs \in Seq(SignalType), NEW S, NEW i \in 0 .. Len(sigs),
         S \subseteq TopUpsUpTo(sigs, i)
  PROVE  /\ Amount(sigs, S) \in Nat /\ Amount(sigs, TopUpsUpTo(sigs, i)) \in Nat
         /\ Amount(sigs, S) <= Amount(sigs, TopUpsUpTo(sigs, i))
<1> DEFINE T == TopUpsUpTo(sigs, i)
<1>1. T \subseteq 1 .. Len(sigs) /\ S \in SUBSET T /\ Len(sigs) \in Nat
  BY DEF TopUpsUpTo
<1> HIDE DEF T
<1>2. \A j \in T : sigs[j].amount \in Nat
  BY <1>1, SignalFields
<1>3. Amount(sigs, S) <= Amount(sigs, T)
  BY <1>1, <1>2, AmountGrows
<1>4. Amount(sigs, S) \in Nat /\ Amount(sigs, T) \in Nat
  BY <1>1, AmountIsNat
<1> QED
  BY <1>3, <1>4 DEF T

LEMMA NewTotalsAreBacked ==
  ASSUME NEW sigs \in Seq(SignalType), NEW new \in Seq(SignalType),
         TotalsBacked(sigs), Backed(sigs, new)
  PROVE  TotalsBacked(sigs \o new)
<1> DEFINE more == sigs \o new
           n == Len(sigs)
<1>1. /\ more \in Seq(SignalType) /\ n \in Nat
      /\ Len(more) = n + Len(new)
      /\ \A i \in DOMAIN sigs : more[i] = sigs[i]
      /\ \A k \in DOMAIN new : more[n + k] = new[k]
      /\ \A i \in DOMAIN more : i \in DOMAIN sigs \/ i - n \in DOMAIN new
  OBVIOUS
<1>2. \A i \in 0 .. n :
        /\ TopUpsUpTo(more, i) = TopUpsUpTo(sigs, i)
        /\ Amount(more, TopUpsUpTo(sigs, i)) = Amount(sigs, TopUpsUpTo(sigs, i))
  BY TopUpsStay
<1> HIDE DEF more
<1>3. ASSUME NEW i \in DOMAIN sigs, more[i].event = "top_up_total"
      PROVE  more[i].amount <= Amount(more, TopUpsUpTo(more, i))
  BY <1>1, <1>2, <1>3 DEF TotalsBacked
<1>4. ASSUME NEW k \in DOMAIN new, new[k].event = "top_up_total"
      PROVE  new[k].amount <= Amount(more, TopUpsUpTo(more, n + k))
  <2>1. PICK j \in 1 .. (k - 1) : BackedBy(sigs, new, k, j)
    BY <1>4 DEF Backed
  <2> DEFINE S == TopUpsUpTo(sigs, n)
             T == TopUpsUpTo(more, n + k)
  <2>2. S \subseteq 1 .. n /\ j \in DOMAIN new /\ n + k \in 0 .. Len(more)
    BY <1>1 DEF TopUpsUpTo
  <2>3. S \union {n + j} \subseteq T
    BY <1>1, <2>1, <2>2 DEF TopUpsUpTo, BackedBy
  <2>4. /\ S \subseteq 1 .. Len(more) /\ Len(more) \in Nat
        /\ n + j \in (1 .. Len(more)) \ S
    BY <1>1, <2>2
  <2>5. new[k].amount <= new[j].amount + Amount(sigs, S)
    BY <2>1 DEF BackedBy
  <2>6. Amount(more, S) = Amount(sigs, S)
    BY <1>1, <1>2
  <2> HIDE DEF S, T
  <2>7. \A i \in S \union {n + j} : more[i].amount \in Nat
    BY <1>1, <2>4, SignalFields
  <2>8. Amount(more, S \union {n + j}) = more[n + j].amount + Amount(more, S)
    BY <2>4, <2>7, AmountWithRow
  <2>9. Amount(more, S \union {n + j}) <= Amount(more, T)
    BY <1>1, <2>2, <2>3, TopUpsGrow DEF T
  <2>10. more[n + j].amount = new[j].amount
    BY <1>1, <2>2
  <2>11. new[k].amount \in Nat /\ new[j].amount \in Nat
    BY <2>2, SignalFields
  <2>12. Amount(more, S) \in Nat /\ Amount(more, T) \in Nat
    <3>1. T \subseteq 1 .. Len(more)
      BY <1>1, <2>2 DEF T, TopUpsUpTo
    <3> QED
      BY <1>1, <2>4, <3>1, AmountIsNat
  <2> QED
    BY <2>5, <2>6, <2>8, <2>9, <2>10, <2>11, <2>12 DEF T
<1>5. ASSUME NEW i \in DOMAIN more, more[i].event = "top_up_total"
      PROVE  more[i].amount <= Amount(more, TopUpsUpTo(more, i))
  <2>1. CASE i \in DOMAIN sigs
    BY <1>3, <1>5, <2>1
  <2>2. CASE i - n \in DOMAIN new
    <3> DEFINE k == i - n
    <3>1. i \in Int /\ n + k = i
      BY <1>1
    <3>2. more[n + k] = new[k]
      BY <1>1, <2>2
    <3> QED
      BY <1>4, <1>5, <2>2, <3>1, <3>2
  <2> QED
    BY <1>1, <2>1, <2>2
<1> QED
  BY <1>5 DEF TotalsBacked, more

LEMMA AddsStayBacked ==
  ASSUME NEW sigs \in Seq(SignalType), NEW new \in Seq(SignalType),
         NEW adds \in Seq(SignalType), Backed(sigs, adds)
  PROVE  Backed(sigs \o new, adds)
<1> DEFINE more == sigs \o new
           S == TopUpsUpTo(sigs, Len(sigs))
           T == TopUpsUpTo(more, Len(more))
<1>1. more \in Seq(SignalType) /\ Len(more) >= Len(sigs) /\ Len(sigs) \in Nat
  OBVIOUS
<1>2. TopUpsUpTo(more, Len(sigs)) = S /\ Amount(more, S) = Amount(sigs, S)
  BY <1>1, TopUpsStay
<1>3. S \subseteq T
  BY <1>1, <1>2 DEF TopUpsUpTo
<1> HIDE DEF more, S
<1>4. /\ Amount(more, S) \in Nat /\ Amount(more, T) \in Nat
      /\ Amount(more, S) <= Amount(more, T)
  BY <1>1, <1>3, TopUpsGrow
<1> HIDE DEF T
<1>5. ASSUME NEW k \in DOMAIN adds, NEW j \in 1 .. (k - 1), BackedBy(sigs, adds, k, j)
      PROVE  BackedBy(more, adds, k, j)
  <2>1. adds[k].amount \in Nat /\ adds[j].amount \in Nat
    BY SignalFields
  <2> QED
    BY <1>2, <1>4, <1>5, <2>1 DEF BackedBy, S, T
<1> QED
  BY <1>5 DEF Backed, more

-----------------------------------------------------------------------------
(* The inductive invariant, and the steps.                                 *)
Inv == TypeInv /\ Reported /\ AddsInv /\ TotalsBacked(signals)

NoTotals(new) == \A k \in DOMAIN new : new[k].event # "top_up_total"

LEMMA SignalIsSignal ==
  ASSUME TypeInv, NEW event \in Events, NEW score \in Int, NEW number \in Int,
         NEW amount \in Nat
  PROVE  /\ Signal(event, score, number, amount) \in SignalType
         /\ Signal(event, score, number, amount).event = event
         /\ Signal(event, score, number, amount).at = now
         /\ Signal(event, score, number, amount).amount = amount
BY DEF Signal, SignalType, TypeInv

LEMMA IfIsOneOrNone ==
  ASSUME NEW condition, NEW s
  PROVE  OneOrNone(If(condition, s), s) /\ (condition => If(condition, s) = <<s>>)
BY DEF OneOrNone, If

(* What a player does leaves the top-ups in progress alone.                *)
LEMMA PlayersLeaveTotals ==
  ASSUME Inv, NEW new \in Seq(SignalType), NoTotals(new),
         signals' = signals \o new, topUp' = topUp
  PROVE  (AddsInv /\ TotalsBacked(signals))'
<1>1. Backed(signals, new)
  BY DEF Backed, NoTotals
<1>2. signals \in Seq(SignalType) /\ TotalsBacked(signals)
  BY DEF Inv, TypeInv
<1>3. TotalsBacked(signals \o new)
  BY <1>1, <1>2, NewTotalsAreBacked
<1>4. ASSUME NEW u \in Targets, topUp[u].adds # None
      PROVE  Backed(signals \o new, topUp[u].adds)
  <2>1. topUp[u].adds \in Seq(SignalType)
    BY <1>4 DEF Inv, TypeInv, TopUpType
  <2>2. Backed(signals, topUp[u].adds)
    BY <1>4 DEF Inv, AddsInv
  <2> QED
    BY <1>2, <2>1, <2>2, AddsStayBacked
<1> QED
  BY <1>3, <1>4 DEF AddsInv

LEMMA BookStep ==
  ASSUME Inv, NEW price \in BookingPrices, NEW lag \in 0 .. Lag, Book(price, lag)
  PROVE  Inv'
<1> DEFINE since == BookingSince(lag)
           row == [at |-> now, amount |-> price, bought |-> TRUE]
           rows == Append(bookings, row)
           s1 == Signal("booking", 65, 0, price)
           s2 == Signal("rapid_bookings", 70, Recent(rows, since), price)
           s3 == Signal("booking_spend", 75, 0, Spent(rows, since, price))
           a == If(price >= HighValueBooking, s1)
           b == If(Recent(rows, since) >= RapidBookingLimit, s2)
           c == If(Spent(rows, since, price) >= CumulativeBooking, s3)
           new == a \o b \o c
<1>1. /\ bookings' = rows /\ signals' = signals \o new
      /\ now' = now /\ orders' = orders /\ topUp' = topUp
  BY DEF Book, BookingSignals
<1>2. /\ TypeInv /\ bookings \in Seq(RowType) /\ price \in Nat
      /\ since \in Int /\ BookingSpan \in Int
      /\ since <= now - BookingSpan
  BY FraudAssumption DEF Inv, TypeInv, BookingSpan, BookingSince
<1>3. IsPurchase(bookings, rows, price)
  BY <1>2, AppendIsPurchase
<1>4. Recent(rows, since) \in Nat /\ Spent(rows, since, price) \in Nat
  <2> HIDE DEF since, rows
  <2> QED
    BY <1>2, <1>3, QueriesFindPurchases
<1>5. /\ s1 \in SignalType /\ s1.event = "booking"
      /\ s2 \in SignalType /\ s2.event = "rapid_bookings" /\ s2.at = now
      /\ s3 \in SignalType /\ s3.event = "booking_spend" /\ s3.at = now
  <2> HIDE DEF since, rows
  <2>1. now \in Int /\ price \in Nat
    BY <1>2 DEF TypeInv
  <2>2. s1 \in SignalType /\ s1.event = "booking"
    BY <2>1 DEF Signal, SignalType, Events
  <2>3. s2 \in SignalType /\ s2.event = "rapid_bookings" /\ s2.at = now
    BY <1>4, <2>1 DEF Signal, SignalType, Events
  <2>4. s3 \in SignalType /\ s3.event = "booking_spend" /\ s3.at = now
    BY <1>4, <2>1 DEF Signal, SignalType, Events
  <2> QED
    BY <2>2, <2>3, <2>4
<1>6. /\ OneOrNone(a, s1) /\ OneOrNone(b, s2) /\ OneOrNone(c, s3)
      /\ Recent(rows, since) >= RapidBookingLimit => b = <<s2>>
      /\ Spent(rows, since, price) >= CumulativeBooking => c = <<s3>>
  <2> HIDE DEF since, rows, s1, s2, s3
  <2> QED
    BY IfIsOneOrNone
<1>7. /\ Covered(signals, bookings, BookingSpan, RapidBookingLimit, "rapid_bookings",
                 CumulativeBooking, "booking_spend")
      /\ Covered(signals, orders, OrderSpan, RapidOrderLimit, "rapid_orders",
                 CumulativeOrder, "order_spend")
  BY DEF Inv, Reported
<1>8. RapidBookingLimit \in Nat /\ CumulativeBooking \in Nat
  BY DEF RapidBookingLimit, CumulativeBooking
<1>9. rows \in Seq(RowType)
  BY <1>3 DEF IsPurchase, RowAdded
<1> HIDE DEF since, rows, s1, s2, s3, a, b, c
<1>10. Covered(signals, bookings, BookingSpan, RapidBookingLimit, s2.event,
               CumulativeBooking, s3.event)
  BY <1>5, <1>7
<1>11. /\ new \in Seq(SignalType)
       /\ \A x : Has(new, x) => x \in {s1, s2, s3}
       /\ Covered(signals \o new, rows, BookingSpan, RapidBookingLimit, s2.event,
                  CumulativeBooking, s3.event)
  BY <1>2, <1>3, <1>5, <1>6, <1>8, <1>10, PurchaseReports
<1> HIDE DEF new
<1>12. NoTotals(new)
  BY <1>5, <1>11 DEF NoTotals, Has
<1>13. signals \in Seq(SignalType)
  BY DEF Inv, TypeInv
<1>14. Covered(signals \o new, orders, OrderSpan, RapidOrderLimit, "rapid_orders",
               CumulativeOrder, "order_spend")
  BY <1>7, <1>11, <1>13, CoveredStays
<1>15. Reported'
  BY <1>1, <1>5, <1>11, <1>14 DEF Reported
<1>16. TypeInv'
  BY <1>1, <1>2, <1>9, <1>11, <1>13 DEF TypeInv
<1>17. (AddsInv /\ TotalsBacked(signals))'
  BY <1>1, <1>11, <1>12, PlayersLeaveTotals
<1> QED
  BY <1>15, <1>16, <1>17 DEF Inv

LEMMA OrderStep ==
  ASSUME Inv, NEW price \in OrderPrices, NEW lag \in 0 .. Lag, Order(price, lag)
  PROVE  Inv'
<1> DEFINE since == now + lag - OrderWindow
           row == [at |-> now, amount |-> price, bought |-> TRUE]
           rows == Append(orders, row)
           s1 == Signal("order", 60, 0, price)
           s2 == Signal("rapid_orders", 75, Recent(rows, since), price)
           s3 == Signal("order_spend", 75, 0, Spent(rows, since, price))
           a == If(price >= HighValueOrder, s1)
           b == If(Recent(rows, since) >= RapidOrderLimit, s2)
           c == If(Spent(rows, since, price) >= CumulativeOrder, s3)
           new == a \o b \o c
<1>1. /\ orders' = rows /\ signals' = signals \o new
      /\ now' = now /\ bookings' = bookings /\ topUp' = topUp
  BY DEF Order, OrderSignals
<1>2. /\ TypeInv /\ orders \in Seq(RowType) /\ price \in Nat
      /\ since \in Int /\ OrderSpan \in Int
      /\ since <= now - OrderSpan
  BY FraudAssumption DEF Inv, TypeInv, OrderSpan
<1>3. IsPurchase(orders, rows, price)
  BY <1>2, AppendIsPurchase
<1>4. Recent(rows, since) \in Nat /\ Spent(rows, since, price) \in Nat
  <2> HIDE DEF since, rows
  <2> QED
    BY <1>2, <1>3, QueriesFindPurchases
<1>5. /\ s1 \in SignalType /\ s1.event = "order"
      /\ s2 \in SignalType /\ s2.event = "rapid_orders" /\ s2.at = now
      /\ s3 \in SignalType /\ s3.event = "order_spend" /\ s3.at = now
  <2> HIDE DEF since, rows
  <2>1. now \in Int /\ price \in Nat
    BY <1>2 DEF TypeInv
  <2>2. s1 \in SignalType /\ s1.event = "order"
    BY <2>1 DEF Signal, SignalType, Events
  <2>3. s2 \in SignalType /\ s2.event = "rapid_orders" /\ s2.at = now
    BY <1>4, <2>1 DEF Signal, SignalType, Events
  <2>4. s3 \in SignalType /\ s3.event = "order_spend" /\ s3.at = now
    BY <1>4, <2>1 DEF Signal, SignalType, Events
  <2> QED
    BY <2>2, <2>3, <2>4
<1>6. /\ OneOrNone(a, s1) /\ OneOrNone(b, s2) /\ OneOrNone(c, s3)
      /\ Recent(rows, since) >= RapidOrderLimit => b = <<s2>>
      /\ Spent(rows, since, price) >= CumulativeOrder => c = <<s3>>
  <2> HIDE DEF since, rows, s1, s2, s3
  <2> QED
    BY IfIsOneOrNone
<1>7. /\ Covered(signals, orders, OrderSpan, RapidOrderLimit, "rapid_orders",
                 CumulativeOrder, "order_spend")
      /\ Covered(signals, bookings, BookingSpan, RapidBookingLimit, "rapid_bookings",
                 CumulativeBooking, "booking_spend")
  BY DEF Inv, Reported
<1>8. RapidOrderLimit \in Nat /\ CumulativeOrder \in Nat
  BY FraudAssumption DEF CumulativeOrder
<1>9. rows \in Seq(RowType)
  BY <1>3 DEF IsPurchase, RowAdded
<1> HIDE DEF since, rows, s1, s2, s3, a, b, c
<1>10. Covered(signals, orders, OrderSpan, RapidOrderLimit, s2.event,
               CumulativeOrder, s3.event)
  BY <1>5, <1>7
<1>11. /\ new \in Seq(SignalType)
       /\ \A x : Has(new, x) => x \in {s1, s2, s3}
       /\ Covered(signals \o new, rows, OrderSpan, RapidOrderLimit, s2.event,
                  CumulativeOrder, s3.event)
  BY <1>2, <1>3, <1>5, <1>6, <1>8, <1>10, PurchaseReports
<1> HIDE DEF new
<1>12. NoTotals(new)
  BY <1>5, <1>11 DEF NoTotals, Has
<1>13. signals \in Seq(SignalType)
  BY DEF Inv, TypeInv
<1>14. Covered(signals \o new, bookings, BookingSpan, RapidBookingLimit, "rapid_bookings",
               CumulativeBooking, "booking_spend")
  BY <1>7, <1>11, <1>13, CoveredStays
<1>15. Reported'
  BY <1>1, <1>5, <1>11, <1>14 DEF Reported
<1>16. TypeInv'
  BY <1>1, <1>2, <1>9, <1>11, <1>13 DEF TypeInv
<1>17. (AddsInv /\ TotalsBacked(signals))'
  BY <1>1, <1>11, <1>12, PlayersLeaveTotals
<1> QED
  BY <1>15, <1>16, <1>17 DEF Inv

(* A request is not bought, and needs no report.                           *)
LEMMA RequestStep ==
  ASSUME Inv, NEW offset \in Offsets, NEW deposit \in Deposits, Request(offset, deposit)
  PROVE  Inv'
<1> DEFINE row == [at |-> now + offset, amount |-> deposit, bought |-> FALSE]
           rows == Append(bookings, row)
<1>1. /\ bookings' = rows /\ signals' = signals
      /\ now' = now /\ orders' = orders /\ topUp' = topUp
  BY DEF Request
<1>2. /\ TypeInv /\ bookings \in Seq(RowType) /\ signals \in Seq(SignalType)
      /\ <<>> \in Seq(SignalType) /\ signals \o <<>> = signals
  BY DEF Inv, TypeInv
<1>3. row \in RowType /\ row.bought = FALSE
  BY <1>2, FraudAssumption DEF TypeInv, RowType
<1> HIDE DEF row
<1>4. RowAdded(bookings, rows) /\ rows[Len(bookings) + 1] = row
  BY <1>2, <1>3, AppendAddsRow
<1>5. Len(rows) = Len(bookings) + 1 /\ rows \in Seq(RowType)
  BY <1>4 DEF RowAdded
<1> HIDE DEF rows
<1>6. CoveredAt(Len(rows), signals \o <<>>, rows, BookingSpan, RapidBookingLimit,
                "rapid_bookings", CumulativeBooking, "booking_spend")
  BY <1>3, <1>4, <1>5 DEF CoveredAt
<1>7. Covered(signals, bookings, BookingSpan, RapidBookingLimit, "rapid_bookings",
              CumulativeBooking, "booking_spend")
  BY DEF Inv, Reported
<1>8. Covered(signals \o <<>>, rows, BookingSpan, RapidBookingLimit, "rapid_bookings",
              CumulativeBooking, "booking_spend")
  BY <1>2, <1>4, <1>6, <1>7, OneRowMore
<1>9. Reported'
  BY <1>1, <1>2, <1>8 DEF Inv, Reported
<1>10. TypeInv'
  BY <1>1, <1>2, <1>5 DEF TypeInv
<1> QED
  BY <1>1, <1>9, <1>10 DEF Inv, AddsInv

(* More signals, and neither rows nor top-ups.                             *)
LEMMA SignalsOnly ==
  ASSUME Inv, NEW new \in Seq(SignalType), NoTotals(new),
         signals' = signals \o new, UNCHANGED <<now, bookings, orders, topUp>>
  PROVE  Inv'
<1>1. signals \in Seq(SignalType)
  BY DEF Inv, TypeInv
<1>2. Covered(signals \o new, bookings, BookingSpan, RapidBookingLimit, "rapid_bookings",
              CumulativeBooking, "booking_spend")
  BY <1>1, CoveredStays DEF Inv, Reported
<1>3. Covered(signals \o new, orders, OrderSpan, RapidOrderLimit, "rapid_orders",
              CumulativeOrder, "order_spend")
  BY <1>1, CoveredStays DEF Inv, Reported
<1>4. Reported'
  BY <1>2, <1>3 DEF Reported
<1>5. signals \o new \in Seq(SignalType)
  BY <1>1
<1>6. TypeInv'
  BY <1>5 DEF Inv, TypeInv
<1>7. (AddsInv /\ TotalsBacked(signals))'
  BY PlayersLeaveTotals
<1> QED
  BY <1>4, <1>6, <1>7 DEF Inv

LEMMA ObservedIsCounted ==
  ASSUME TypeInv, NEW event, NEW since PROVE Cardinality(Observed(event, since)) \in Nat
<1>1. Observed(event, since) \subseteq 1 .. Len(signals) /\ Len(signals) \in Nat
  BY DEF Observed, Since, TypeInv
<1> QED
  BY <1>1, IndicesAreFinite

LEMMA FailedPaymentStep ==
  ASSUME Inv, NEW event \in {"failed_booking", "failed_order"}, NEW price \in Nat,
         FailedPayment(event, price)
  PROVE  Inv'
<1> DEFINE previous == Cardinality(Observed(event, now - BookingWindow))
           s == Signal(event, FailureScore(previous), previous + 1, price)
<1>1. signals' = Append(signals, s) /\ UNCHANGED <<now, bookings, orders, topUp>>
  BY DEF FailedPayment
<1>2. previous \in Nat /\ TypeInv /\ now \in Int
  BY ObservedIsCounted DEF Inv, TypeInv
<1> HIDE DEF previous
<1>3. FailureScore(previous) \in Int
  <2> DEFINE m == Min({previous * 15, 45})
  <2>1. PICK x \in {previous * 15, 45} : \A y \in {previous * 15, 45} : x <= y
    BY <1>2
  <2>2. m \in {previous * 15, 45}
    BY <2>1, Zenon DEF Min
  <2>3. m \in Int
    BY <1>2, <2>2
  <2> HIDE DEF m
  <2>4. 35 + m \in Int
    BY <2>3
  <2> QED
    BY <2>4 DEF FailureScore, m
<1>4. s \in SignalType /\ s.event # "top_up_total"
  <2> HIDE DEF s
  <2>1. event \in Events /\ event # "top_up_total" /\ previous + 1 \in Int
    BY <1>2 DEF Events
  <2> QED
    BY <1>2, <1>3, <2>1 DEF s, Signal, SignalType
<1> HIDE DEF s
<1>5. /\ <<s>> \in Seq(SignalType) /\ NoTotals(<<s>>)
      /\ signals \in Seq(SignalType)
  BY <1>4 DEF NoTotals, Inv, TypeInv
<1>6. Append(signals, s) = signals \o <<s>>
  BY <1>4, <1>5
<1> QED
  BY <1>1, <1>5, <1>6, SignalsOnly

LEMMA TickStep == ASSUME Inv, Tick PROVE Inv'
BY DEF Inv, Tick, TypeInv, Reported, AddsInv

-----------------------------------------------------------------------------
(* Top-ups.                                                                *)
LEMMA TopUpsOnly ==
  ASSUME Inv, NEW u \in Targets, NEW t \in TopUpType,
         topUp' = [topUp EXCEPT ![u] = t],
         t.adds # None => Backed(signals, t.adds),
         UNCHANGED <<now, bookings, orders, signals>>
  PROVE  Inv'
<1>1. topUp \in [Targets -> TopUpType]
  BY DEF Inv, TypeInv
<1>2. topUp' \in [Targets -> TopUpType]
  BY <1>1
<1>3. TypeInv'
  BY <1>2 DEF Inv, TypeInv
<1>4. \A v \in Targets : topUp'[v] = IF v = u THEN t ELSE topUp[v]
  BY <1>1
<1>5. AddsInv'
  BY <1>4 DEF Inv, AddsInv
<1> QED
  BY <1>3, <1>5 DEF Inv, Reported

LEMMA IdleIsTopUp == Idle \in TopUpType /\ Idle.adds = None
BY DEF Idle, TopUpType

LEMMA TopUpFields ==
  ASSUME TypeInv, NEW u \in Targets
  PROVE  /\ topUp[u] \in TopUpType
         /\ topUp[u].amount \in Nat /\ topUp[u].since \in Int /\ topUp[u].observed \in Int
         /\ topUp[u].adds \in Seq(SignalType) \union {None}
<1>1. topUp[u] \in TopUpType
  BY DEF TypeInv
<1> QED
  BY <1>1 DEF TopUpType

LEMMA TopUpStep ==
  ASSUME Inv, NEW u \in Targets, NEW amount \in TopUpAmounts, TopUp(u, amount)
  PROVE  Inv'
<1> DEFINE since == now - TopUpWindow
           observed == Cardinality(TopUps(since)) + 1
           t == [amount |-> amount, since |-> since, adds |-> None, observed |-> observed]
<1>1. TypeInv /\ UNCHANGED <<now, bookings, orders, signals>>
  BY DEF Inv, TopUp
<1>2. topUp' = [topUp EXCEPT ![u] = t]
  BY DEF TopUp
<1>3. observed \in Int /\ since \in Int /\ amount \in Nat
  BY <1>1, ObservedIsCounted, FraudAssumption DEF TopUps, TypeInv
<1> HIDE DEF since, observed
<1>4. t \in TopUpType /\ t.adds = None
  BY <1>3 DEF TopUpType
<1> HIDE DEF t
<1> QED
  BY <1>1, <1>2, <1>4, TopUpsOnly

LEMMA TopUpFailsStep == ASSUME Inv, NEW u \in Targets, TopUpFails(u) PROVE Inv'
<1>1. topUp' = [topUp EXCEPT ![u] = Idle] /\ UNCHANGED <<now, bookings, orders, signals>>
  BY DEF TopUpFails
<1> QED
  BY <1>1, IdleIsTopUp, TopUpsOnly

(* The alarm comes after the entry of its own top-up.                      *)
LEMMA TotalIsBacked ==
  ASSUME TypeInv, NEW amount \in Nat, NEW since \in Int, NEW observed \in Int
  PROVE  /\ TopUpSignals(amount, since, observed) \in Seq(SignalType)
         /\ Backed(signals, TopUpSignals(amount, since, observed))
<1> DEFINE sum == Amount(signals, TopUpsUpTo(signals, Len(signals)))
           found == Amount(signals, TopUps(since))
           s1 == Signal("large_top_up", 80, 0, amount)
           s2 == Signal("top_up", IF observed < FrequentTopUpLimit THEN 25 ELSE 55, observed,
                        amount)
           s3 == Signal("top_up_total", 80, observed, TopUpTotal(amount, since))
           a == If(amount >= HighValueTopUp, s1)
           c == If(TopUpTotal(amount, since) >= CumulativeTopUp, s3)
<1>1. found <= sum /\ found \in Nat /\ sum \in Nat
  <2>1. signals \in Seq(SignalType) /\ TopUps(since) \subseteq TopUpsUpTo(signals, Len(signals))
    BY DEF TypeInv, TopUps, TopUpsUpTo, Observed, Since
  <2>2. Len(signals) \in 0 .. Len(signals)
    BY <2>1
  <2> QED
    BY <2>1, <2>2, TopUpsGrow
<1>2. TopUpTotal(amount, since) = amount + found
  BY DEF TopUpTotal
<1> HIDE DEF sum, found
<1>3. TopUpTotal(amount, since) \in Nat /\ TopUpTotal(amount, since) <= amount + sum
  BY <1>1, <1>2
<1>4. now \in Int
  BY DEF TypeInv
<1>5. s1 \in SignalType /\ s1.event = "large_top_up"
  BY <1>4 DEF Signal, SignalType, Events
<1>6. s2 \in SignalType /\ s2.event = "top_up" /\ s2.amount = amount
  BY <1>4 DEF Signal, SignalType, Events
<1>7. s3 \in SignalType /\ s3.event = "top_up_total" /\ s3.amount = TopUpTotal(amount, since)
  BY <1>3, <1>4 DEF Signal, SignalType, Events
<1>8. TopUpSignals(amount, since, observed) = a \o <<s2>> \o c
  BY DEF TopUpSignals
<1>9. OneOrNone(a, s1) /\ OneOrNone(c, s3)
  <2> HIDE DEF s1, s3
  <2> QED
    BY IfIsOneOrNone
<1> HIDE DEF s1, s2, s3, a, c
<1>10. a \in Seq(SignalType) /\ \A i \in DOMAIN a : a[i] = s1
  <2>1. CASE a = <<>>
    BY <2>1
  <2>2. CASE a = <<s1>>
    BY <1>5, <2>2
  <2> QED
    BY <1>9, <2>1, <2>2 DEF OneOrNone
<1>11. c \in Seq(SignalType) /\ \A i \in DOMAIN c : i = 1 /\ c[i] = s3
  <2>1. CASE c = <<>>
    BY <2>1
  <2>2. CASE c = <<s3>>
    BY <1>7, <2>2
  <2> QED
    BY <1>9, <2>1, <2>2 DEF OneOrNone
<1> DEFINE b == Append(a, s2)
           d == b \o c
           n == Len(a)
<1>12. a \o <<s2>> = b
  BY <1>6, <1>10
<1>13. /\ b \in Seq(SignalType) /\ Len(b) = n + 1 /\ b[n + 1] = s2
       /\ \A i \in 1 .. n : b[i] = s1
  BY <1>6, <1>10
<1> HIDE DEF b
<1>14. /\ d \in Seq(SignalType) /\ n \in Nat
       /\ \A i \in 1 .. n + 1 : d[i] = b[i]
       /\ \A k \in DOMAIN d : \/ k \in 1 .. n + 1
                              \/ k - (n + 1) \in DOMAIN c /\ d[k] = c[k - (n + 1)]
  BY <1>10, <1>11, <1>13
<1> HIDE DEF d
<1>15. ASSUME NEW k \in DOMAIN d, d[k].event = "top_up_total"
       PROVE  k = n + 2 /\ d[k] = s3
  <2>1. ~ k \in 1 .. n
    BY <1>5, <1>13, <1>14, <1>15
  <2>2. k # n + 1
    BY <1>6, <1>13, <1>14, <1>15
  <2>3. k - (n + 1) = 1 /\ d[k] = s3
    BY <1>11, <1>14, <2>1, <2>2
  <2> QED
    BY <1>14, <2>3
<1>16. ASSUME NEW k \in DOMAIN d, d[k].event = "top_up_total"
       PROVE  BackedBy(signals, d, k, n + 1) /\ n + 1 \in 1 .. (k - 1)
  <2>1. d[n + 1] = s2
    BY <1>13, <1>14
  <2>2. k = n + 2 /\ d[k] = s3
    BY <1>15, <1>16
  <2> QED
    BY <1>3, <1>6, <1>7, <1>14, <2>1, <2>2 DEF BackedBy, sum
<1>17. Backed(signals, d)
  BY <1>16 DEF Backed
<1> QED
  BY <1>8, <1>12, <1>14, <1>17 DEF d

LEMMA AddUpStep == ASSUME Inv, NEW u \in Targets, AddUp(u) PROVE Inv'
<1> DEFINE adds == TopUpSignals(topUp[u].amount, topUp[u].since, topUp[u].observed)
           t == [topUp[u] EXCEPT !.adds = adds]
<1>1. TypeInv /\ UNCHANGED <<now, bookings, orders, signals>>
  BY DEF Inv, AddUp
<1>2. adds \in Seq(SignalType) /\ Backed(signals, adds)
  BY <1>1, TopUpFields, TotalIsBacked
<1>3. topUp' = [topUp EXCEPT ![u].adds = adds]
  BY DEF AddUp
<1> HIDE DEF adds
<1>4. topUp' = [topUp EXCEPT ![u] = t]
  BY <1>3
<1>5. t \in TopUpType /\ t.adds = adds
  <2>1. topUp[u] \in TopUpType
    BY <1>1, TopUpFields
  <2> QED
    BY <1>2, <2>1 DEF TopUpType
<1> HIDE DEF t
<1> QED
  BY <1>1, <1>2, <1>4, <1>5, TopUpsOnly

(* The entries are committed with the time of the commit, and say the same.*)
LEMMA DatedIsBacked ==
  ASSUME NEW sigs \in Seq(SignalType), NEW adds \in Seq(SignalType), Backed(sigs, adds),
         NEW t \in Int, NEW new, new = [i \in DOMAIN adds |-> [adds[i] EXCEPT !.at = t]]
  PROVE  new \in Seq(SignalType) /\ Backed(sigs, new)
<1>1. ASSUME NEW i \in DOMAIN adds
      PROVE  /\ new[i] \in SignalType
             /\ new[i].event = adds[i].event /\ new[i].amount = adds[i].amount
  <2>1. adds[i] \in SignalType
    OBVIOUS
  <2>2. new[i] = [adds[i] EXCEPT !.at = t]
    OBVIOUS
  <2> QED
    BY <2>1, <2>2 DEF SignalType
<1>2. DOMAIN new = DOMAIN adds
  OBVIOUS
<1>3. new \in Seq(SignalType)
  <2>1. Len(adds) \in Nat /\ DOMAIN adds = 1 .. Len(adds)
    OBVIOUS
  <2>2. new = [i \in 1 .. Len(adds) |-> new[i]]
    BY <2>1
  <2> QED
    BY <1>1, <2>1, <2>2
<1>4. ASSUME NEW k \in DOMAIN adds, NEW j \in 1 .. (k - 1), BackedBy(sigs, adds, k, j)
      PROVE  BackedBy(sigs, new, k, j)
  <2>1. j \in DOMAIN adds
    OBVIOUS
  <2> QED
    BY <1>1, <1>4, <2>1 DEF BackedBy
<1> QED
  BY <1>1, <1>2, <1>3, <1>4 DEF Backed

LEMMA CommitTopUpStep == ASSUME Inv, NEW u \in Targets, CommitTopUp(u) PROVE Inv'
<1> DEFINE adds == topUp[u].adds
           new == [i \in DOMAIN adds |-> [adds[i] EXCEPT !.at = now]]
<1>1. /\ TypeInv /\ signals \in Seq(SignalType) /\ now \in Int /\ TotalsBacked(signals)
      /\ adds # None /\ UNCHANGED <<now, bookings, orders>>
  BY DEF Inv, TypeInv, CommitTopUp
<1>2. signals' = signals \o new /\ topUp' = [topUp EXCEPT ![u] = Idle]
  BY DEF CommitTopUp
<1>3. adds \in Seq(SignalType) /\ Backed(signals, adds)
  BY <1>1, TopUpFields DEF Inv, AddsInv
<1> HIDE DEF adds
<1>4. new \in Seq(SignalType) /\ Backed(signals, new)
  BY <1>1, <1>3, DatedIsBacked
<1> HIDE DEF new
<1>5. TotalsBacked(signals \o new) /\ signals \o new \in Seq(SignalType)
  BY <1>1, <1>4, NewTotalsAreBacked
<1>6. Covered(signals \o new, bookings, BookingSpan, RapidBookingLimit, "rapid_bookings",
              CumulativeBooking, "booking_spend")
  BY <1>1, <1>4, CoveredStays DEF Inv, Reported
<1>7. Covered(signals \o new, orders, OrderSpan, RapidOrderLimit, "rapid_orders",
              CumulativeOrder, "order_spend")
  BY <1>1, <1>4, CoveredStays DEF Inv, Reported
<1>8. Reported'
  BY <1>1, <1>2, <1>6, <1>7 DEF Reported
<1>9. topUp \in [Targets -> TopUpType] /\ Idle \in TopUpType /\ Idle.adds = None
  BY <1>1, IdleIsTopUp DEF TypeInv
<1>10. \A v \in Targets : topUp'[v] = IF v = u THEN Idle ELSE topUp[v]
  BY <1>2, <1>9
<1>11. topUp' \in [Targets -> TopUpType]
  BY <1>2, <1>9
<1>12. TypeInv'
  BY <1>1, <1>2, <1>5, <1>11 DEF TypeInv
<1>13. ASSUME NEW v \in Targets, topUp'[v].adds # None
       PROVE  Backed(signals \o new, topUp'[v].adds)
  <2>1. topUp'[v] = topUp[v]
    BY <1>9, <1>10, <1>13
  <2>2. topUp[v].adds \in Seq(SignalType) /\ Backed(signals, topUp[v].adds)
    BY <1>1, <1>13, <2>1, TopUpFields DEF Inv, AddsInv
  <2> QED
    BY <1>1, <1>4, <2>1, <2>2, AddsStayBacked
<1>14. AddsInv'
  BY <1>2, <1>13 DEF AddsInv
<1> QED
  BY <1>2, <1>5, <1>8, <1>12, <1>14 DEF Inv

LEMMA InitInv == Init => Inv
<1> SUFFICES ASSUME Init PROVE Inv
  OBVIOUS
<1>1. now = 0 /\ bookings = <<>> /\ orders = <<>> /\ signals = <<>>
  BY DEF Init
<1>2. topUp = [u \in Targets |-> Idle] /\ Idle \in TopUpType /\ Idle.adds = None
  BY IdleIsTopUp DEF Init
<1>3. TypeInv
  BY <1>1, <1>2 DEF TypeInv
<1>4. Reported /\ TotalsBacked(signals)
  BY <1>1 DEF Reported, Covered, TotalsBacked
<1>5. AddsInv
  BY <1>2 DEF AddsInv
<1> QED
  BY <1>3, <1>4, <1>5 DEF Inv

LEMMA StepInv == Inv /\ [Next]_vars => Inv'
<1> SUFFICES ASSUME Inv, [Next]_vars PROVE Inv'
  OBVIOUS
<1>1. ASSUME NEW price \in BookingPrices, FailedPayment("failed_booking", price) PROVE Inv'
  <2>1. price \in Nat
    BY FraudAssumption
  <2> QED
    BY <1>1, <2>1, FailedPaymentStep
<1>2. ASSUME NEW price \in OrderPrices, FailedPayment("failed_order", price) PROVE Inv'
  <2>1. price \in Nat
    BY FraudAssumption
  <2> QED
    BY <1>2, <2>1, FailedPaymentStep
<1>3. CASE UNCHANGED vars
  BY <1>3 DEF vars, Inv, TypeInv, Reported, AddsInv
<1> QED
  BY <1>1, <1>2, <1>3, BookStep, OrderStep, RequestStep, TopUpStep, AddUpStep, CommitTopUpStep,
     TopUpFailsStep, TickStep DEF Next

(* The strengthening that is inductive.                                    *)
THEOREM FraudInvariant == Spec => []Inv
<1> QED
  BY InitInv, StepInv, PTL DEF Spec

-----------------------------------------------------------------------------
(* A purchase that makes a burst complete is reported with its own time,   *)
(* though the query counts more rows than were bought (start times that a  *)
(* client chose, the row itself twice): over a time that is shorter than   *)
(* the window by what the flush takes, what it counts is never less.       *)
THEOREM BurstsAreReportedHolds == Spec => []BurstsAreReported
<1>1. Inv => BurstsAreReported
  BY ReportedMeans DEF Inv
<1> QED
  BY <1>1, FraudInvariant, PTL

(* Nor can a sum be hidden in several purchases of that time.              *)
THEOREM SplitsAreReportedHolds == Spec => []SplitsAreReported
<1>1. Inv => SplitsAreReported
  BY ReportedMeans DEF Inv
<1> QED
  BY <1>1, FraudInvariant, PTL

(* However many top-ups overlap, and whichever of them fail, the total an  *)
(* alarm states was topped up by the time the alarm is in the table.       *)
THEOREM TotalsWereToppedUpHolds == Spec => []TotalsWereToppedUp
<1>1. Inv => TotalsWereToppedUp
  BY DEF Inv, TotalsBacked, TopUpsUpTo, TotalsWereToppedUp
<1> QED
  BY <1>1, FraudInvariant, PTL
=============================================================================
