------------------------------ MODULE GameClubs -----------------------------
(***************************************************************************)
(* The service: every request that has arrived runs its handler, any of    *)
(* them may fail, the cleanup task runs beside them and the clock ticks.   *)
(***************************************************************************)
EXTENDS BookingService, Payments, Cleanup, ClubModeration, SequencesExt

Tick ==
  /\ now < MaxTime
  /\ now' = now + 1
  /\ UNCHANGED <<tables, lockedBy, call, at, orm, answer, screen, sweep>>

Step(r) == BookingStep(r) \/ PaymentStep(r) \/ ModerationStep(r) \/ DebitFails(r)

Next ==
  \/ \E r \in Requests : \E c \in Calls[r] : Arrive(r, c)
  \/ \E r \in Requests : Step(r) \/ Fail(r)
  \/ CleanupStep \/ AbandonSweep
  \/ Tick

(* PostgreSQL's deadlock detector: the transactions of a set wait for one  *)
(* another.                                                                *)
BlockersOf(h) == IF h = Cleaner THEN SweepBlockers ELSE Blockers(h)

Waiting == {h \in Holders : BlockersOf(h) # {}}

InCircle(S) == S # {} /\ \A h \in S : BlockersOf(h) \cap S # {}

Deadlocked(r) == \E S \in SUBSET Waiting : r \in S /\ InCircle(S)

Init == TablesInit

Spec == Init /\ [][Next]_vars

(* The event loop runs every handler that can go on, PostgreSQL aborts a   *)
(* transaction of every deadlock, the supervisor starts the cleanup task   *)
(* again and again until it stops failing, and time passes.  Nothing is    *)
(* said of arrivals or of the other failures of requests.                  *)
Fairness ==
  /\ \A r \in Requests : WF_vars(Step(r)) /\ WF_vars(Deadlocked(r) /\ Fail(r))
  /\ WF_vars(CleanupStep) /\ <>[][~AbandonSweep]_vars
  /\ WF_vars(Tick)

FairSpec == Spec /\ Fairness

-----------------------------------------------------------------------------
(* revenue_total of build_finance_summary, which /admin shows an owner.    *)
IncomeOfOrder(o) ==
  IF orders[o].paid # 0 THEN orders[o].paid ELSE ProductPrice[orders[o].product]

(* A slip: rejected requests, which cost nothing in the end, are left out. *)
ClubBookingsKept(c) ==
  {b \in Requests : /\ bookings[b] # Null /\ ClubOf[bookings[b].pc] = c
                    /\ bookings[b].status # "rejected"}

ClubBookings(c) ==
  {b \in Requests : bookings[b] # Null /\ ClubOf[bookings[b].pc] = c}

ClubOrders(c) ==
  {o \in Requests : orders[o] # Null /\ ProductClub[orders[o].product] = c}

Income(c) ==
  SumFunction([o \in ClubOrders(c) |-> IncomeOfOrder(o)])
    + SumFunction([b \in ClubBookings(c) |-> bookings[b].paid])

-----------------------------------------------------------------------------
(* Type invariant.  That no balance becomes negative rests on              *)
(* debit_user_balance checking and changing the same, possibly stale, User *)
(* object: ck_users_balance_non_negative of models.py never fires.         *)
TypeOK == TablesType

(* Row locks of the requests about to write: two handlers are never at the *)
(* same time past the SELECT ... FOR UPDATE of the same user's row, past   *)
(* the SELECT ... FOR UPDATE or the UPDATE of the same computer's row, or  *)
(* past the SELECT ... FOR UPDATE of the same booking's row.               *)

PaysFor(r, u) ==
  \/ /\ call[r].op \in {"book_seat", "create_booking_request", "buy_product"}
     /\ at[r] \in {"user", "commit"} /\ call[r].actor = u
  \/ Doing(r, {"kaspi_test_top_up"}, "commit") /\ call[r].actor = u
  \/ Doing(r, {"top_up_balance"}, "commit") /\ call[r].user = u
  \/ /\ Doing(r, {"reject_request"}, "commit")
     /\ bookings[call[r].booking].paid > 0 /\ Holder(call[r].booking) = u

KeepsPc(r, p) ==
  \/ Doing(r, {"book_seat", "create_booking_request"}, "commit") /\ call[r].pc = p
  \/ Doing(r, {"confirm_request"}, "commit") /\ bookings[call[r].booking].pc = p
  \/ /\ Doing(r, {"free_seat", "update_computer_status"}, "commit") /\ call[r].pc = p
     /\ PcSetBy(r) # orm[r].pc

Moderates(r, b) ==
  /\ call[r].op \in {"confirm_request", "reject_request"}
  /\ at[r] \in {"booking", "refund", "commit"}
  /\ call[r].booking = b

LockedSections ==
  \A r, s \in Requests : r # s /\ at[r] # "new" /\ at[s] # "new" =>
    /\ \A u \in Users : ~(PaysFor(r, u) /\ PaysFor(s, u))
    /\ \A p \in Pcs : ~(KeepsPc(r, p) /\ KeepsPc(s, p))
    /\ \A b \in Requests : ~(Moderates(r, b) /\ Moderates(s, b))

(* A client has at most one pending request per computer, however many of  *)
(* its create_booking_request calls overlap.                               *)
OnePendingPerSeat ==
  \A u \in Users, p \in Pcs : \A a, b \in PendingOf(u, p) : a = b

(* Every booking was charged exactly once, to its client and by the sum it *)
(* records, and was refunded exactly once if it was rejected and never     *)
(* otherwise; an order was charged once and a payment credited once; and   *)
(* no money moved for a row that was not inserted.                         *)
LedgerOf(ref, kinds) ==
  {i \in 1 .. Len(ledger) : ledger[i].ref = ref /\ ledger[i].kind \in kinds}

MovedOnce(ref, kinds, user, amount) ==
  \E i \in LedgerOf(ref, kinds) :
    /\ LedgerOf(ref, kinds) = {i}
    /\ ledger[i].user = user /\ ledger[i].amount = amount

BookingKinds == {"booking_debit", "booking_deposit", "booking_refund"}

BookingMoney(b) ==
  /\ IF bookings[b] # Null /\ bookings[b].paid > 0
     THEN MovedOnce(b, {"booking_debit", "booking_deposit"}, Holder(b), -bookings[b].paid)
     ELSE LedgerOf(b, {"booking_debit", "booking_deposit"}) = {}
  /\ IF bookings[b] # Null /\ bookings[b].paid > 0 /\ bookings[b].status = "rejected"
     THEN MovedOnce(b, {"booking_refund"}, Holder(b), bookings[b].paid)
     ELSE LedgerOf(b, {"booking_refund"}) = {}

OrderMoney(o) ==
  IF orders[o] # Null
  THEN MovedOnce(o, {"order_debit"}, orders[o].user, -orders[o].paid)
  ELSE LedgerOf(o, {"order_debit"}) = {}

PaymentMoney(p) ==
  IF payments[p] # Null
  THEN MovedOnce(p, {"kaspi_test_top_up"}, payments[p].user, payments[p].amount)
  ELSE LedgerOf(p, {"kaspi_test_top_up"}) = {}

ChargedAndRefundedOnce ==
  \A r \in Requests : BookingMoney(r) /\ OrderMoney(r) /\ PaymentMoney(r)

LedgerSumOf(ref, kinds) == SumFunction([i \in LedgerOf(ref, kinds) |-> ledger[i].amount])

(* What the ledger says was charged for bookings and orders of a club.     *)
ChargeKinds == {"booking_debit", "booking_deposit", "order_debit"}

SoldBy(c) ==
  {r \in Requests : \/ bookings[r] # Null /\ ClubOf[bookings[r].pc] = c
                    \/ orders[r] # Null /\ ProductClub[orders[r].product] = c}

ChargedFor(c) == SumFunction([r \in SoldBy(c) |-> -LedgerSumOf(r, ChargeKinds)])

(* The income shown to an owner is what his customers were charged, each   *)
(* sum once: deposits that were given back are part of it, since their     *)
(* bookings keep amount_paid, and nothing is added for what has been paid. *)
IncomeWasCharged == \A c \in Clubs : Income(c) = ChargedFor(c)

(* Whoever the table shows as sitting at a computer was granted it: by a   *)
(* booking of that client for that computer which was paid directly or     *)
(* confirmed, never one still pending or rejected.                         *)
SeatWasGranted ==
  \A p \in Pcs : pcs[p].occupant # Null =>
    \E b \in Requests :
      /\ bookings[b] # Null
      /\ bookings[b].user = pcs[p].occupant /\ bookings[b].pc = p
      /\ bookings[b].status \in {"active", "completed", "expired"}
      /\ pcs[p].endTime \in {bookings[b].endsAt, Null}

(* Where administrators override it by "free" only and no session without  *)
(* an end is confirmed, a computer's row is all of a session or nothing of *)
(* one, whichever of the overlapping writes came last.                     *)
SeatIsWhole ==
  \A p \in Pcs :
    \/ pcs[p] = FreePc
    \/ pcs[p].status = "busy" /\ pcs[p].occupant # Null /\ pcs[p].endTime # Null

(* Clients and the cleanup task never deadlock among themselves: whenever  *)
(* transactions wait for each other's row locks in a circle, a manager or  *)
(* a superadmin is in it, whose last flush waits, with the rows it has     *)
(* changed locked, for a user's row that a foreign key refers to.          *)
StaffOps ==
  {"free_seat", "update_computer_status", "confirm_request", "reject_request", "top_up_balance"}

CirclesNeedForeignKeys ==
  \A S \in SUBSET Waiting :
    InCircle(S) => \E r \in S \cap Requests : at[r] = "commit" /\ call[r].op \in StaffOps

(* book_seat sells only a computer that is free at the very moment the     *)
(* sale commits, whatever ran between its check and its commit.            *)
SoldWhileFree ==
  [][\A b \in Requests :
       /\ bookings[b] = Null /\ bookings'[b] # Null
       /\ bookings'[b].status = "active"
       => pcs[bookings'[b].pc].status = "free"]_vars

(* Money that somebody else gives a user (a refund by the club, a top-up   *)
(* by a superadmin) is added to the balance the user has at that moment.   *)
OthersCreditsAreExact ==
  [][Len(ledger') > Len(ledger) =>
       LET row == ledger'[Len(ledger')] IN
       row.actor \notin {Null, row.user} =>
         balance'[row.user] = balance[row.user] + row.amount]_vars

(* Every request that arrives is answered, deadlocks included.             *)
RequestsFinish == \A r \in Requests : at[r] = "start" ~> at[r] = "done"

(* A session that has ended leaves the computer: the cleanup task, or      *)
(* somebody before it, releases it.                                        *)
Overdue(p) ==
  pcs[p].status = "busy" /\ pcs[p].endTime # Null /\ pcs[p].endTime <= now

ExpiredSeatReleased == \A p \in Pcs : Overdue(p) ~> ~Overdue(p)

-----------------------------------------------------------------------------
(* What the repository says of the program and the code does not keep.     *)

(* README.md:115: bookings and orders debit the balance.  The balance of   *)
(* every user is what it was plus all its ledger rows.                     *)
LedgerSum(u) ==
  FoldSeq(LAMBDA row, sum : sum + (IF row.user = u THEN row.amount ELSE 0), 0, ledger)

LedgerReconciles == \A u \in Users : balance[u] = OpeningBalance[u] + LedgerSum(u)

(* README.md:119: SELECT FOR UPDATE guarantees that there are no double    *)
(* bookings.  At most one booking of a computer is active.                 *)
NoDoubleBooking ==
  \A a, b \in Requests :
    /\ bookings[a] # Null /\ bookings[b] # Null
    /\ bookings[a].status = "active" /\ bookings[b].status = "active"
    /\ bookings[a].pc = bookings[b].pc
    => a = b

(* README.md:118: booking and freeing a seat command its client to unlock  *)
(* and to lock.  When nothing is under way, a free computer is locked.     *)
FreeSeatIsLocked ==
  (\A r \in Requests : at[r] \in {"new", "done"}) /\ sweep.at = "idle" =>
    \A p \in Pcs : pcs[p].status = "free" => screen[p] = "locked"

=============================================================================
