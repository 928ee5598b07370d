---------------------------- MODULE FraudSignals ----------------------------
(***************************************************************************)
(* core/fraud.py: the signals that purchases of one player and manual      *)
(* top-ups by one superadmin leave.                                        *)
(*                                                                         *)
(* The purchases and booking requests of a player are one after the other, *)
(* because each holds the player's row until its commit.  A top-up holds   *)
(* the row of the user it is for, so those for different users overlap:    *)
(* each reads the signals committed before it and commits its own later.   *)
(* Amounts are in thousands, times in ticks.  The rule of a purchase takes *)
(* the time after the row has taken its own and was flushed, up to Lag     *)
(* later; the player has nothing else to do in between.                    *)
(***************************************************************************)
EXTENDS Integers, Sequences, FiniteSetsExt, Functions

CONSTANTS
  BookingPrices, OrderPrices, TopUpAmounts,
  Offsets,          \* how far from now a booking request may start
  Deposits,         \* what a request is paid with, 0 if nothing
  Targets,          \* users whose balance is topped up
  None,
  BookingWindow,    \* 15 minutes, for failed payments, too
  OrderWindow,      \* 10 minutes
  TopUpWindow,      \* 24 hours
  Lag,              \* how long a purchase waits for its flush
  RapidOrderLimit,  \* 5 in the code
  MaxTime, MaxRows, MaxSignals   \* bounds

ASSUME FraudAssumption ==
  /\ BookingPrices \union OrderPrices \union TopUpAmounts \union Deposits \subseteq Nat
  /\ Offsets \subseteq Int
  /\ BookingWindow \in Nat /\ OrderWindow \in Nat /\ TopUpWindow \in Nat
  /\ Lag \in Nat /\ RapidOrderLimit \in Nat

HighValueBooking  == 20
HighValueOrder    == 10
HighValueTopUp    == 50
CumulativeBooking == 35
CumulativeOrder   == 25
CumulativeTopUp   == 100
RapidBookingLimit == 3
FrequentTopUpLimit == 5

VARIABLES
  now,
  bookings, orders, \* rows: when (starts_at, created_at), amount, and if bought at once
  signals,          \* fraud_signals: event, score, at, and the numbers of the metadata
  topUp             \* for each target the top-up in progress

vars == <<now, bookings, orders, signals, topUp>>

Since(rows, since) == {i \in DOMAIN rows : rows[i].at >= since}

(* func.sum(...amount...) over some of the rows, 0 for none.               *)
Amount(rows, some) == SumFunction([i \in some |-> rows[i].amount])

Observed(event, since) == {i \in Since(signals, since) : signals[i].event = event}

Signal(event, score, number, amount) ==
  [event |-> event, score |-> score, at |-> now, number |-> number, amount |-> amount]

If(condition, signal) == IF condition THEN <<signal>> ELSE <<>>

-----------------------------------------------------------------------------
(* evaluate_failed_payment, committed before the error is raised.          *)
FailureScore(previous) == 35 + Min({previous * 15, 45})

FailedPayment(event, price) ==
  LET previous == Cardinality(Observed(event, now - BookingWindow)) IN
  /\ Len(bookings) + Len(orders) + Len(signals) < MaxSignals
  /\ signals' = Append(signals, Signal(event, FailureScore(previous), previous + 1, price))
  /\ UNCHANGED <<now, bookings, orders, topUp>>

-----------------------------------------------------------------------------
(* The row of the purchase has been flushed, and is in the counts and sums *)
(* already, when the purchase is added to them once more.                  *)
Recent(rows, since) == Cardinality(Since(rows, since)) + 1
Spent(rows, since, price) == Amount(rows, Since(rows, since)) + price

(* A slip: bookings are looked at for as long as orders.                   *)
BookingSinceOfOrders(lag) == now + lag - OrderWindow

BookingSince(lag) == now + lag - BookingWindow

BookingSignals(rows, since, price) ==
  If(price >= HighValueBooking, Signal("booking", 65, 0, price))
  \o If(Recent(rows, since) >= RapidBookingLimit,
        Signal("rapid_bookings", 70, Recent(rows, since), price))
  \o If(Spent(rows, since, price) >= CumulativeBooking,
        Signal("booking_spend", 75, 0, Spent(rows, since, price)))

(* book_seat takes starts_at and then flushes.  Its signals are told apart *)
(* by the time of their purchase.                                          *)
Book(price, lag) ==
  LET rows == Append(bookings, [at |-> now, amount |-> price, bought |-> TRUE]) IN
  /\ Len(bookings) + Len(orders) < MaxRows
  /\ bookings' = rows
  /\ signals' = signals \o BookingSignals(rows, BookingSince(lag), price)
  /\ UNCHANGED <<now, orders, topUp>>

(* create_booking_request: a row with a start of the client's choice; it   *)
(* is not evaluated, and stays as it is when it is rejected.               *)
Request(offset, deposit) ==
  /\ Len(bookings) + Len(orders) < MaxRows
  /\ bookings' = Append(bookings, [at |-> now + offset, amount |-> deposit, bought |-> FALSE])
  /\ UNCHANGED <<now, orders, signals, topUp>>

(* A slip: of a burst the amount is not looked at.                         *)
OrderSignalsEither(rows, since, price) ==
  If(price >= HighValueOrder, Signal("order", 60, 0, price))
  \o IF Recent(rows, since) >= RapidOrderLimit
     THEN <<Signal("rapid_orders", 75, Recent(rows, since), price)>>
     ELSE If(Spent(rows, since, price) >= CumulativeOrder,
             Signal("order_spend", 75, 0, Spent(rows, since, price)))

OrderSignals(rows, since, price) ==
  If(price >= HighValueOrder, Signal("order", 60, 0, price))
  \o If(Recent(rows, since) >= RapidOrderLimit,
        Signal("rapid_orders", 75, Recent(rows, since), price))
  \o If(Spent(rows, since, price) >= CumulativeOrder,
        Signal("order_spend", 75, 0, Spent(rows, since, price)))

(* created_at is taken at the flush.                                       *)
Order(price, lag) ==
  LET rows == Append(orders, [at |-> now, amount |-> price, bought |-> TRUE]) IN
  /\ Len(bookings) + Len(orders) < MaxRows
  /\ orders' = rows
  /\ signals' = signals \o OrderSignals(rows, now + lag - OrderWindow, price)
  /\ UNCHANGED <<now, bookings, topUp>>

-----------------------------------------------------------------------------
(* evaluate_admin_top_up.  Nothing is flushed between its statements, so   *)
(* the signal it has just added is in neither of its two queries.          *)
TopUps(since) == Observed("top_up", since)

(* A slip: the signal was flushed, as the rows of purchases are.           *)
TopUpTotalTwice(amount, since) == 2 * amount + Amount(signals, TopUps(since))

TopUpTotal(amount, since) == amount + Amount(signals, TopUps(since))

Idle == [amount |-> 0, since |-> 0, observed |-> 0, adds |-> None]

(* The target's row is locked, and the top-ups observed are counted.       *)
TopUp(u, amount) ==
  /\ Len(bookings) + Len(orders) + Len(signals) < MaxSignals
  /\ topUp[u] = Idle
  /\ LET since == now - TopUpWindow IN
     topUp' = [topUp EXCEPT ![u] = [amount |-> amount, since |-> since, adds |-> None,
                                    observed |-> Cardinality(TopUps(since)) + 1]]
  /\ UNCHANGED <<now, bookings, orders, signals>>

TopUpSignals(amount, since, observed) ==
  If(amount >= HighValueTopUp, Signal("large_top_up", 80, 0, amount))
  \o <<Signal("top_up", IF observed < FrequentTopUpLimit THEN 25 ELSE 55, observed, amount)>>
  \o If(TopUpTotal(amount, since) >= CumulativeTopUp,
        Signal("top_up_total", 80, observed, TopUpTotal(amount, since)))

(* Then their amounts are read, with those committed in between.           *)
AddUp(u) ==
  LET t == topUp[u] IN
  /\ t # Idle /\ t.adds = None
  /\ topUp' = [topUp EXCEPT ![u].adds = TopUpSignals(t.amount, t.since, t.observed)]
  /\ UNCHANGED <<now, bookings, orders, signals>>

(* created_at is the time of the flush, which is in the commit.            *)
CommitTopUp(u) ==
  /\ topUp[u].adds # None
  /\ signals' = signals \o [i \in DOMAIN topUp[u].adds |-> [topUp[u].adds[i] EXCEPT !.at = now]]
  /\ topUp' = [topUp EXCEPT ![u] = Idle]
  /\ UNCHANGED <<now, bookings, orders>>

(* The request ends in an error, and the top-up is undone.                 *)
TopUpFails(u) ==
  /\ topUp[u] # Idle
  /\ topUp' = [topUp EXCEPT ![u] = Idle]
  /\ UNCHANGED <<now, bookings, orders, signals>>

Tick ==
  /\ now < MaxTime
  /\ now' = now + 1
  /\ UNCHANGED <<bookings, orders, signals, topUp>>

Init ==
  /\ now = 0
  /\ bookings = <<>> /\ orders = <<>> /\ signals = <<>>
  /\ topUp = [u \in Targets |-> Idle]

Next ==
  \/ \E price \in BookingPrices : \/ \E lag \in 0 .. Lag : Book(price, lag)
                                  \/ FailedPayment("failed_booking", price)
  \/ \E price \in OrderPrices : \/ \E lag \in 0 .. Lag : Order(price, lag)
                                \/ FailedPayment("failed_order", price)
  \/ \E offset \in Offsets, deposit \in Deposits : Request(offset, deposit)
  \/ \E u \in Targets : \/ \E amount \in TopUpAmounts : TopUp(u, amount)
                         \/ AddUp(u) \/ CommitTopUp(u) \/ TopUpFails(u)
  \/ Tick

Spec == Init /\ [][Next]_vars

-----------------------------------------------------------------------------
BoughtBy(rows, i, span) ==
  {j \in 1 .. i : rows[j].bought /\ rows[j].at >= rows[i].at - span}

ReportedAt(event, t) == \E s \in DOMAIN signals : signals[s].event = event /\ signals[s].at = t

Bursts(rows, span, least, event) ==
  \A i \in DOMAIN rows :
    rows[i].bought /\ Cardinality(BoughtBy(rows, i, span)) >= least
      => ReportedAt(event, rows[i].at)

Splits(rows, span, least, event) ==
  \A i \in DOMAIN rows :
    rows[i].bought /\ Amount(rows, BoughtBy(rows, i, span)) >= least
      => ReportedAt(event, rows[i].at)

(* As many bookings in a quarter of an hour, or orders in ten minutes, as  *)
(* the limits name are reported with the last of them, whatever the player *)
(* does in between.  The rule looks back from after the last one's flush   *)
(* (fraud.py:123): the first must be as much younger than the window.      *)
BurstsAreReported ==
  /\ Bursts(bookings, BookingWindow - Lag, RapidBookingLimit, "rapid_bookings")
  /\ Bursts(orders, OrderWindow - Lag, RapidOrderLimit, "rapid_orders")

(* An amount that would be reported if it were spent at once is reported   *)
(* when it is split into several purchases in that time, be they a burst   *)
(* or not.                                                                 *)
SplitsAreReported ==
  /\ Splits(bookings, BookingWindow - Lag, CumulativeBooking, "booking_spend")
  /\ Splits(orders, OrderWindow - Lag, CumulativeOrder, "order_spend")

(* The total an alarm about a superadmin states was really topped up: the  *)
(* top-up at hand is not among those observed and counted once only, and   *)
(* those that failed are not counted.                                      *)
TotalsWereToppedUp ==
  \A i \in DOMAIN signals : signals[i].event = "top_up_total" =>
    signals[i].amount <= Amount(signals, {j \in 1 .. i : signals[j].event = "top_up"})

=============================================================================
