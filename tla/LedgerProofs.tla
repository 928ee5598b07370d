---------------------------- MODULE LedgerProofs ----------------------------
(***************************************************************************)
(* What the ledger of GameClubs is worth, for every value of its           *)
(* constants: every sum moved once, the income an owner is shown, and the  *)
(* bookings as BookingLifecycle promises them.  The argument: the locks of *)
(* GameClubsProofs, under which each row of money is decided once          *)
(* (MoneyInv).                                                             *)
(***************************************************************************)
EXTENDS LifecycleRefinement, GameClubsProofs, Sums

-----------------------------------------------------------------------------
(* Money.                                                                  *)

(* Who holds the lock of a booking decides it, or found it active.         *)
LockerInv ==
  \A b \in Requests : lockedBy[b] # Null =>
    \/ bookings[b].status = "active"
    \/ \E r \in Requests : lockedBy[b] = r /\ at[r] # "new" /\ call[r].op \in Moderating

(* Orders and payments, too, are inserted with their request's commit.     *)
PaidInsertInv ==
  \A r \in Requests : at[r] \notin {"send", "done"} => orders[r] = Null /\ payments[r] = Null

MoneyInv ==
  /\ LockInv /\ PendingInv /\ LockerInv /\ PaidInsertInv
  /\ ChargedAndRefundedOnce

LEMMA NeededBookings ==
  ASSUME TypeInv, NEW r \in Requests, NEW b \in Requests, b \in Needs(r),
         at[r] \in {"start", "user", "booking", "refund", "update", "flush"}
  PROVE  call[r].op \in Moderating \/ bookings[b].status = "active"
<1>0. call[r] \in CallType /\ HandlerOk(r)
  BY Typed
<1>1. CASE at[r] = "update"
  BY <1>1, NeedsOf DEF ActiveOn
<1>2. CASE at[r] \in {"booking", "refund"}
  BY <1>0, <1>2 DEF HandlerOk, Moderating
<1>3. CASE at[r] \in {"start", "user", "flush"} /\ call[r].op \notin Moderating
  <2>1. /\ call[r].actor \in Users
        /\ call[r].op = "top_up_balance" => call[r].user \in Users
        /\ call[r].op \in {"book_seat", "create_booking_request"} \/ at[r] = "flush" =>
             call[r].pc \in Pcs
    BY <1>0, <1>3, CallFields DEF HandlerOk
  <2>2. Needs(r) \subseteq Users \cup Pcs
    BY <1>3, <2>1 DEF Needs, LockOrder, Moderating
  <2>. QED  BY <2>2, NamesAssumption
<1>. QED  BY <1>1, <1>2, <1>3

LEMMA NextLockerInv == LockInv /\ PendingInv /\ LockerInv /\ [Next]_vars => LockerInv'
<1>. SUFFICES ASSUME LockInv, PendingInv, LockerInv, [Next]_vars,
                     NEW b \in Requests, lockedBy'[b] # Null
              PROVE  \/ bookings'[b].status = "active"
                     \/ \E r \in Requests :
                          lockedBy'[b] = r /\ at'[r] # "new" /\ call'[r].op \in Moderating
  BY DEF LockerInv
<1>0. b \in Rows
  BY DEF Rows
<1>1. CASE lockedBy'[b] = lockedBy[b] /\ bookings[b].status = "active"
  <2>0. bookings[b] # Null /\ bookings[b] \in BookingRow
    BY <1>1 DEF LockInv, TypeInv, LockedRowsInv, TypeOK, TablesType
  <2>1. ASSUME NEW r \in Requests, BookSeat(r) \/ CreateRequest(r)
        PROVE  bookings'[b] = bookings[b]
    <3>1. b # r
      BY <2>0, <2>1 DEF LockInv, InsertInv, BookSeat, CreateRequest, Doing
    <3>. QED  BY <2>1, <3>1 DEF BookSeat, CreateRequest, LockInv, TypeInv, TypeOK, TablesType
  <2>2. ASSUME NEW r \in Requests, SetSeat(r)  PROVE bookings'[b] = bookings[b]
    BY <1>0, <1>1, <2>2 DEF SetSeat, Commit, Released, ClosedBy
  <2>3. ASSUME NEW r \in Requests, Confirm(r)  PROVE bookings'[b].status = "active"
    BY <1>1, <2>0, <2>3 DEF Confirm, BookingRow, LockInv, TypeInv, TypeOK, TablesType
  <2>4. ASSUME NEW r \in Requests, Reject(r)  PROVE bookings'[b] = bookings[b]
    <3>1. StillPending(call[r].booking)
      BY <2>4 DEF Reject, Doing, PendingInv, Moderating
    <3>2. b # call[r].booking
      BY <1>1, <3>1 DEF StillPending
    <3>. QED  BY <2>4, <3>2 DEF Reject, LockInv, TypeInv, TypeOK, TablesType
  <2>5. ASSUME CommitExpired  PROVE bookings'[b] = bookings[b]
    BY <1>0, <1>1, <2>5 DEF CommitExpired, Released
  <2>. QED  BY <1>1, <2>1, <2>2, <2>3, <2>4, <2>5, WhoWritesBookings
<1>2. CASE lockedBy'[b] = lockedBy[b] /\ bookings[b].status # "active"
  <2>1. PICK r \in Requests : lockedBy[b] = r /\ at[r] # "new" /\ call[r].op \in Moderating
    BY <1>2 DEF LockerInv
  <2>2. at'[r] # "new" /\ call'[r] = call[r]
    <3>1. ASSUME NEW s \in Requests, NEW c \in Calls[s], Arrive(s, c)
          PROVE  at'[r] # "new" /\ call'[r] = call[r]
      BY <2>1, <3>1 DEF Arrive, LockInv, TypeInv, TypeOK, TablesType
    <3>2. ASSUME NEW s \in Requests, Step(s) \/ Fail(s)
          PROVE  at'[r] # "new" /\ call'[r] = call[r]
      BY <2>1, <3>2, RequestsStep DEF LockInv
    <3>. QED  BY <2>1, <3>1, <3>2, BackgroundLocks DEF Next
  <2>. QED  BY <1>2, <2>1, <2>2
<1>3. CASE lockedBy'[b] # lockedBy[b]
  <2>1. ASSUME NEW r \in Requests, Step(r) \/ Fail(r)
        PROVE  \/ bookings'[b].status = "active"
               \/ lockedBy'[b] = r /\ at'[r] # "new" /\ call'[r].op \in Moderating
    <3>1. ~\E a : Refuse(r, a)
      BY <1>0, <1>3 DEF Refuse, Released
    <3>2. ~\E phase \in {"send", "done"} : Commit(r, phase)
      BY <1>0, <1>3 DEF Commit, Released
    <3>3. /\ lockedBy' = LockNeeded(r) /\ UNCHANGED bookings
          /\ at[r] \in {"start", "user", "booking", "refund", "update", "flush"}
      BY <1>3, <2>1, <3>1, <3>2, LockCases DEF tables
    <3>4. b \in Needs(r) /\ lockedBy'[b] = r
      BY <1>0, <1>3, <3>3 DEF LockNeeded
    <3>. QED  BY <2>1, <3>3, <3>4, NeededBookings, RequestsStep DEF LockInv
  <2>2. ASSUME NEW p \in Pcs, ExpirePc(p)  PROVE bookings'[b].status = "active"
    BY <1>0, <1>3, <2>2 DEF ExpirePc, ActiveOn, tables
  <2>3. ~(CommitExpired \/ AbandonSweep) /\ \A p \in Pcs : ~FlushExpired(p)
    BY <1>0, <1>3, NamesAssumption
    DEF CommitExpired, AbandonSweep, FlushExpired, Released, LockInv, TypeInv, TypeOK, TablesType
  <2>4. ~(ScanExpired \/ Tick \/ UNCHANGED vars)
    BY <1>3 DEF ScanExpired, Tick, vars
  <2>5. ~\E r \in Requests : \E c \in Calls[r] : Arrive(r, c)
    BY <1>3 DEF Arrive
  <2>. QED  BY <2>1, <2>2, <2>3, <2>4, <2>5 DEF Next, CleanupStep
<1>. QED  BY <1>1, <1>2, <1>3

(* The steps that write orders, payments and the ledger.                   *)
LEMMA WhoMovesMoney ==
  ASSUME [Next]_vars
  PROVE  \/ UNCHANGED <<ledger, orders, payments>>
         \/ \E r \in Requests : \/ BookSeat(r) \/ CreateRequest(r) \/ Reject(r)
                                \/ BuyProduct(r) \/ CompleteOrder(r)
                                \/ KaspiTopUp(r) \/ TopUp(r)
<1>1. ASSUME NEW r \in Requests, Step(r) \/ Fail(r)
      PROVE  \/ UNCHANGED <<ledger, orders, payments>>
             \/ BookSeat(r) \/ CreateRequest(r) \/ Reject(r) \/ BuyProduct(r)
             \/ CompleteOrder(r) \/ KaspiTopUp(r) \/ TopUp(r)
  BY <1>1 DEF Step, BookingStep, LockActiveUser, FlushSeat, DebitFails, CheckSeat, ReadSeat,
              CloseActiveBookings, SetSeat, CheckRequest, LockBooking, CheckConfirm, Confirm,
              CheckReject, LockRefunded, LockOtherUser, SendCommand, PaymentStep, CheckProduct,
              ReadOrder, LockPayer, LockToppedUp, ModerationStep, ReadClub, ModerateClub, Fail,
              Refuse, Proceed, tables
<1>2. ASSUME ~UNCHANGED <<ledger, orders, payments>>
      PROVE  \E r \in Requests : Step(r) \/ Fail(r)
  BY <1>2 DEF Next, Arrive, CleanupStep, ScanExpired, ExpirePc, FlushExpired, CommitExpired,
              AbandonSweep, Tick, vars, tables
<1>. QED  BY <1>1, <1>2

LEMMA NextPaidInsertInv == LockInv /\ PaidInsertInv /\ [Next]_vars => PaidInsertInv'
<1>. SUFFICES ASSUME LockInv, PaidInsertInv, [Next]_vars, NEW r \in Requests,
                     at'[r] \notin {"send", "done"}
              PROVE  orders'[r] = Null /\ payments'[r] = Null
  BY DEF PaidInsertInv
<1>1. orders[r] = Null /\ payments[r] = Null
  BY FinishedStays DEF PaidInsertInv
<1>2. ASSUME NEW s \in Requests, BuyProduct(s) \/ KaspiTopUp(s)
      PROVE  orders'[r] = Null /\ payments'[r] = Null
  <2>1. at'[s] = "done"
    BY <1>2 DEF BuyProduct, KaspiTopUp, Commit, LockInv, TypeInv, TypeOK, TablesType
  <2>2. r # s
    BY <2>1
  <2>. QED
    BY <1>1, <1>2, <2>2 DEF BuyProduct, KaspiTopUp, LockInv, TypeInv, TypeOK, TablesType
<1>3. ASSUME NEW s \in Requests, CompleteOrder(s)
      PROVE  orders'[r] = Null /\ payments'[r] = Null
  <2>1. orders[call[s].order] # Null
    BY <1>3, Typed DEF CompleteOrder, Doing, HandlerOk, LockInv
  <2>. QED  BY <1>1, <1>3, <2>1 DEF CompleteOrder, LockInv, TypeInv, TypeOK, TablesType
<1>4. ASSUME NEW s \in Requests, BookSeat(s) \/ CreateRequest(s) \/ Reject(s) \/ TopUp(s)
      PROVE  UNCHANGED <<orders, payments>>
  BY <1>4 DEF BookSeat, CreateRequest, Reject, TopUp
<1>. QED  BY <1>1, <1>2, <1>3, <1>4, WhoMovesMoney

(* The money moved for ref is left as it was.                              *)
LedgerKeeps(ref, kinds) ==
  /\ LedgerOf(ref, kinds)' = LedgerOf(ref, kinds)
  /\ \A user, amount :
       MovedOnce(ref, kinds, user, amount) => MovedOnce(ref, kinds, user, amount)'

LEMMA AppendedRow ==
  ASSUME TypeInv, NEW row, ledger' = Append(ledger, row)
  PROVE  /\ Len(ledger) \in Nat /\ Len(ledger') = Len(ledger) + 1
         /\ ledger'[Len(ledger) + 1] = row
         /\ \A i \in 1 .. Len(ledger) : ledger'[i] = ledger[i]
  BY DEF TypeInv, TypeOK, TablesType

LEMMA RecordOfAnother ==
  ASSUME TypeInv, NEW u, NEW actor, NEW amount, NEW after, NEW kind, NEW ref,
         Record(u, actor, amount, after, kind, ref),
         NEW x, NEW kinds, ref # x \/ kind \notin kinds
  PROVE  LedgerKeeps(x, kinds)
<1>. DEFINE row == [user |-> u, actor |-> actor, amount |-> amount, after |-> after,
                    kind |-> kind, ref |-> ref]
<1>1. ledger' = Append(ledger, row) /\ row.ref = ref /\ row.kind = kind
  BY DEF Record
<1>. HIDE DEF row
<1>2. LedgerOf(x, kinds)' = LedgerOf(x, kinds)
  BY <1>1, AppendedRow DEF LedgerOf
<1>3. \A i \in LedgerOf(x, kinds) : ledger'[i] = ledger[i]
  BY <1>1, AppendedRow DEF LedgerOf
<1>. QED  BY <1>2, <1>3 DEF LedgerKeeps, MovedOnce

LEMMA FirstRecord ==
  ASSUME TypeInv, NEW u, NEW actor, NEW amount, NEW after, NEW kind, NEW ref,
         Record(u, actor, amount, after, kind, ref),
         NEW kinds, kind \in kinds, LedgerOf(ref, kinds) = {}
  PROVE  /\ LedgerOf(ref, kinds)' = {Len(ledger) + 1}
         /\ ledger'[Len(ledger) + 1].user = u /\ ledger'[Len(ledger) + 1].amount = amount
<1>. DEFINE row == [user |-> u, actor |-> actor, amount |-> amount, after |-> after,
                    kind |-> kind, ref |-> ref]
<1>1. /\ ledger' = Append(ledger, row) /\ row.ref = ref /\ row.kind = kind
      /\ row.user = u /\ row.amount = amount
  BY DEF Record
<1>. HIDE DEF row
<1>. QED  BY <1>1, AppendedRow DEF LedgerOf

LEMMA LedgerUnchanged ==
  ASSUME ledger' = ledger, NEW ref, NEW kinds
  PROVE  LedgerKeeps(ref, kinds)
  BY DEF LedgerKeeps, LedgerOf, MovedOnce

Charges == {"booking_debit", "booking_deposit"}

(* A booking's money is right as long as none moves and the booking stays  *)
(* what it is, rejected or not.                                            *)
LEMMA BookingMoneyStays ==
  ASSUME TypeInv, [Next]_vars, NEW b \in Requests, BookingMoney(b),
         LedgerKeeps(b, Charges), LedgerKeeps(b, {"booking_refund"}),
         \/ UNCHANGED bookings[b]
         \/ /\ bookings[b] # Null /\ BookingKept(b)
            /\ bookings'[b].status = "rejected" <=> bookings[b].status = "rejected"
  PROVE  BookingMoney(b)'
  BY DEF BookingMoney, Holder, LedgerKeeps, BookingKept, Charges

(* Only its rejection makes a booking a rejected one, and for good.        *)
LEMMA RejectedStays ==
  ASSUME MoneyInv, [Next]_vars, NEW b \in Requests, bookings[b] # Null,
         ~\E r \in Requests : Reject(r) /\ call[r].booking = b
  PROVE  bookings'[b].status = "rejected" <=> bookings[b].status = "rejected"
<1>0. LockInv /\ bookings[b] \in BookingRow
  BY DEF MoneyInv, LockInv, TypeInv, TypeOK, TablesType
<1>1. ASSUME NEW r \in Requests, BookSeat(r) \/ CreateRequest(r)
      PROVE  bookings'[b] = bookings[b]
  <2>1. b # r
    BY <1>0, <1>1 DEF LockInv, InsertInv, BookSeat, CreateRequest, Doing
  <2>. QED  BY <1>0, <1>1, <2>1 DEF BookSeat, CreateRequest, LockInv, TypeInv, TypeOK, TablesType
<1>2. ASSUME NEW h, NEW status \in {"completed", "expired"}, bookings' = ClosedBy(h, status),
             lockedBy[b] = h => bookings[b].status = "active"
      PROVE  bookings'[b].status = "rejected" <=> bookings[b].status = "rejected"
  BY <1>0, <1>2 DEF ClosedBy, BookingRow
<1>3. ASSUME NEW r \in Requests, SetSeat(r)
      PROVE  bookings'[b].status = "rejected" <=> bookings[b].status = "rejected"
  <2>1. lockedBy[b] = r => bookings[b].status = "active"
    BY <1>3, NamesAssumption DEF MoneyInv, LockerInv, SetSeat, Doing, Moderating
  <2>. QED  BY <1>2, <1>3, <2>1 DEF SetSeat
<1>4. ASSUME CommitExpired
      PROVE  bookings'[b].status = "rejected" <=> bookings[b].status = "rejected"
  <2>1. lockedBy[b] = Cleaner => bookings[b].status = "active"
    BY NamesAssumption DEF MoneyInv, LockerInv
  <2>2. bookings' = ClosedBy(Cleaner, "expired")
    BY <1>4 DEF CommitExpired, ClosedBy
  <2>. QED  BY <1>2, <2>1, <2>2
<1>5. ASSUME NEW r \in Requests, Confirm(r)
      PROVE  bookings'[b].status = "rejected" <=> bookings[b].status = "rejected"
  <2>1. StillPending(call[r].booking)
    BY <1>5 DEF MoneyInv, PendingInv, Confirm, Doing, Moderating
  <2>. QED
    BY <1>0, <1>5, <2>1 DEF Confirm, StillPending, BookingRow, LockInv, TypeInv, TypeOK, TablesType
<1>6. ASSUME NEW r \in Requests, Reject(r), call[r].booking # b
      PROVE  bookings'[b] = bookings[b]
  BY <1>0, <1>6 DEF Reject, LockInv, TypeInv, TypeOK, TablesType
<1>. QED  BY <1>1, <1>3, <1>4, <1>5, <1>6, WhoWritesBookings

LEMMA NextBookingMoney ==
  ASSUME MoneyInv, [Next]_vars, NEW b \in Requests
  PROVE  BookingMoney(b)'
<1>0. LockInv /\ TypeInv /\ BookingMoney(b)
  BY DEF MoneyInv, LockInv, ChargedAndRefundedOnce
<1>1. CASE BookSeat(b)
  <2>. DEFINE c == call[b]
  <2>1. bookings[b] = Null /\ bookings'[b] # Null
    BY <1>0, <1>1, InsertedRow
  <2>2. Record(c.actor, Null, -Price[c.package], orm[b].balance - Price[c.package],
               "booking_debit", b)
    BY <1>1 DEF BookSeat, Debit
  <2>3. bookings'[b] = NewBooking(b, "active", Price[c.package], orm[b].until)
    BY <1>0, <1>1 DEF BookSeat, TypeInv, TypeOK, TablesType
  <2>4. Price[c.package] \in Nat \ {0}
    BY <1>0, <1>1, Typed, CallFields, TablesAssumption DEF BookSeat, Debit, DebitRaises, Doing
  <2>5. LedgerOf(b, Charges) = {} /\ LedgerOf(b, {"booking_refund"}) = {}
    BY <1>0, <2>1 DEF BookingMoney, Charges
  <2>6. /\ LedgerOf(b, Charges)' = {Len(ledger) + 1}
        /\ ledger'[Len(ledger) + 1].user = c.actor
        /\ ledger'[Len(ledger) + 1].amount = -Price[c.package]
    BY <1>0, <2>2, <2>5, FirstRecord DEF Charges
  <2>7. LedgerOf(b, {"booking_refund"})' = {}
    BY <1>0, <2>2, <2>5, RecordOfAnother DEF LedgerKeeps
  <2>. QED
    BY <2>1, <2>3, <2>4, <2>6, <2>7
    DEF BookingMoney, Charges, Holder, NewBooking, MovedOnce
<1>2. CASE CreateRequest(b)
  <2>. DEFINE c == call[b]
              deposit == Deposit(ClubOf[c.pc])
  <2>1. bookings[b] = Null /\ bookings'[b] # Null
    BY <1>0, <1>2, InsertedRow
  <2>2. \/ /\ deposit > 0
           /\ Record(c.actor, Null, -deposit, orm[b].balance - deposit, "booking_deposit", b)
        \/ deposit = 0 /\ ledger' = ledger
    BY <1>2 DEF CreateRequest, Debit
  <2>3. bookings'[b] = NewBooking(b, "pending", deposit, c.endsAt)
    BY <1>0, <1>2 DEF CreateRequest, TypeInv, TypeOK, TablesType
  <2>4. LedgerOf(b, Charges) = {} /\ LedgerOf(b, {"booking_refund"}) = {}
    BY <1>0, <2>1 DEF BookingMoney, Charges
  <2>5. CASE /\ deposit > 0
             /\ Record(c.actor, Null, -deposit, orm[b].balance - deposit, "booking_deposit", b)
    <3>1. /\ LedgerOf(b, Charges)' = {Len(ledger) + 1}
          /\ ledger'[Len(ledger) + 1].user = c.actor
          /\ ledger'[Len(ledger) + 1].amount = -deposit
      BY <1>0, <2>4, <2>5, FirstRecord DEF Charges
    <3>2. LedgerOf(b, {"booking_refund"})' = {}
      BY <1>0, <2>4, <2>5, RecordOfAnother DEF LedgerKeeps
    <3>. QED
      BY <2>1, <2>3, <2>5, <3>1, <3>2
      DEF BookingMoney, Charges, Holder, NewBooking, MovedOnce
  <2>6. CASE deposit = 0 /\ ledger' = ledger
    BY <2>1, <2>3, <2>4, <2>6, LedgerUnchanged
    DEF BookingMoney, Charges, LedgerKeeps, NewBooking
  <2>. QED  BY <2>2, <2>5, <2>6
<1>3. ASSUME NEW r \in Requests, Reject(r), call[r].booking = b
      PROVE  BookingMoney(b)'
  <2>. DEFINE paid == bookings[b].paid
  <2>1. bookings[b] # Null /\ bookings[b] \in BookingRow /\ bookings[b].status = "pending"
    BY <1>0, <1>3, Typed DEF MoneyInv, PendingInv, StillPending, Reject, Doing, Moderating,
                             HandlerOk
  <2>2. BookingKept(b) /\ bookings'[b].status = "rejected"
    BY <1>0, <1>3, <2>1, BookingsStep DEF Reject, TypeInv, TypeOK, TablesType, BookingRow
  <2>3. \/ /\ paid > 0
           /\ Record(Holder(b), call[r].actor, paid, orm[r].balance + paid, "booking_refund", b)
        \/ paid = 0 /\ ledger' = ledger
    BY <1>3 DEF Reject, Credit
  <2>4. LedgerOf(b, {"booking_refund"}) = {}
    BY <1>0, <2>1 DEF BookingMoney
  <2>5. CASE /\ paid > 0
             /\ Record(Holder(b), call[r].actor, paid, orm[r].balance + paid, "booking_refund", b)
    <3>1. LedgerKeeps(b, Charges)
      BY <1>0, <2>5, RecordOfAnother DEF Charges
    <3>2. /\ LedgerOf(b, {"booking_refund"})' = {Len(ledger) + 1}
          /\ ledger'[Len(ledger) + 1].user = Holder(b)
          /\ ledger'[Len(ledger) + 1].amount = paid
      BY <1>0, <2>4, <2>5, FirstRecord
    <3>3. MovedOnce(b, Charges, bookings[b].user, -paid)
      BY <1>0, <2>1, <2>5 DEF BookingMoney, Charges, Holder
    <3>4. /\ bookings'[b].user = bookings[b].user /\ bookings'[b].paid = paid
          /\ bookings'[b] # Null
      BY <2>1, <2>2 DEF BookingKept
    <3>5. /\ LedgerOf(b, Charges)' = LedgerOf(b, Charges)
          /\ \E i \in LedgerOf(b, Charges)' :
               /\ LedgerOf(b, Charges)' = {i}
               /\ ledger'[i].user = bookings[b].user /\ ledger'[i].amount = -paid
      BY <3>1, <3>3 DEF LedgerKeeps, MovedOnce
    <3>. QED
      BY <2>2, <2>5, <3>2, <3>4, <3>5 DEF BookingMoney, Charges, Holder, MovedOnce
  <2>6. CASE paid = 0 /\ ledger' = ledger
    <3>1. LedgerKeeps(b, Charges) /\ LedgerKeeps(b, {"booking_refund"})
      BY <2>6, LedgerUnchanged
    <3>. QED
      BY <1>0, <2>1, <2>2, <2>4, <2>6, <3>1 DEF BookingMoney, BookingKept, Charges, LedgerKeeps
  <2>. QED  BY <2>3, <2>5, <2>6
<1>4. CASE /\ ~BookSeat(b) /\ ~CreateRequest(b)
           /\ ~\E r \in Requests : Reject(r) /\ call[r].booking = b
  <2>1. LedgerKeeps(b, Charges) /\ LedgerKeeps(b, {"booking_refund"})
    <3>1. ASSUME NEW r \in Requests, BookSeat(r) \/ CreateRequest(r) \/ Reject(r)
          PROVE  LedgerKeeps(b, Charges) /\ LedgerKeeps(b, {"booking_refund"})
      BY <1>0, <1>4, <3>1, RecordOfAnother, LedgerUnchanged
      DEF BookSeat, CreateRequest, Reject, Debit, Credit
    <3>2. ASSUME NEW r \in Requests, BuyProduct(r) \/ KaspiTopUp(r) \/ TopUp(r)
          PROVE  LedgerKeeps(b, Charges) /\ LedgerKeeps(b, {"booking_refund"})
      BY <1>0, <3>2, RecordOfAnother DEF BuyProduct, KaspiTopUp, TopUp, Debit, Credit, Charges
    <3>3. ASSUME NEW r \in Requests, CompleteOrder(r)  PROVE ledger' = ledger
      BY <3>3 DEF CompleteOrder
    <3>. QED  BY <3>1, <3>2, <3>3, LedgerUnchanged, WhoMovesMoney
  <2>2. CASE bookings[b] = Null
    <3>1. bookings'[b] = Null
      BY <1>0, <1>4, <2>2, BookingsStep
    <3>. QED  BY <1>0, <2>1, <2>2, <3>1, BookingMoneyStays
  <2>3. CASE bookings[b] # Null
    BY <1>0, <1>4, <2>1, <2>3, BookingMoneyStays, BookingsStep, RejectedStays
  <2>. QED  BY <2>2, <2>3
<1>. QED  BY <1>1, <1>2, <1>3, <1>4

LEMMA NextOrderMoney ==
  ASSUME MoneyInv, [Next]_vars, NEW o \in Requests
  PROVE  OrderMoney(o)'
<1>0. LockInv /\ TypeInv /\ OrderMoney(o)
  BY DEF MoneyInv, LockInv, ChargedAndRefundedOnce
<1>1. CASE BuyProduct(o)
  <2>. DEFINE c == call[o]
              price == ProductPrice[c.product]
  <2>1. Record(c.actor, Null, -price, orm[o].balance - price, "order_debit", o)
    BY <1>1 DEF BuyProduct, Debit
  <2>2. orders[o] = Null /\ LedgerOf(o, {"order_debit"}) = {}
    BY <1>0, <1>1 DEF BuyProduct, Doing, MoneyInv, PaidInsertInv, OrderMoney
  <2>3. /\ LedgerOf(o, {"order_debit"})' = {Len(ledger) + 1}
        /\ ledger'[Len(ledger) + 1].user = c.actor /\ ledger'[Len(ledger) + 1].amount = -price
    BY <1>0, <2>1, <2>2, FirstRecord
  <2>4. orders'[o].user = c.actor /\ orders'[o].paid = price /\ orders'[o] # Null
    <3>1. orders'[o] = NewOrder(o)
      BY <1>0, <1>1 DEF BuyProduct, TypeInv, TypeOK, TablesType
    <3>2. c.actor \in Users /\ c.product \in Products /\ price \in Nat
      BY <1>0, <1>1, Typed, CallFields, TablesAssumption DEF BuyProduct, Doing
    <3>3. NewOrder(o) \in OrderRow
      BY <3>2 DEF NewOrder, OrderRow
    <3>. QED  BY <3>1, <3>3, NamesAssumption DEF NewOrder
  <2>. QED  BY <2>3, <2>4 DEF OrderMoney, MovedOnce
<1>2. CASE ~BuyProduct(o)
  <2>1. LedgerKeeps(o, {"order_debit"})
    <3>1. ASSUME NEW r \in Requests, BookSeat(r) \/ CreateRequest(r) \/ Reject(r)
          PROVE  LedgerKeeps(o, {"order_debit"})
      BY <1>0, <3>1, RecordOfAnother, LedgerUnchanged
      DEF BookSeat, CreateRequest, Reject, Debit, Credit
    <3>2. ASSUME NEW r \in Requests, BuyProduct(r) \/ KaspiTopUp(r) \/ TopUp(r)
          PROVE  LedgerKeeps(o, {"order_debit"})
      BY <1>0, <1>2, <3>2, RecordOfAnother DEF BuyProduct, KaspiTopUp, TopUp, Debit, Credit
    <3>3. ASSUME NEW r \in Requests, CompleteOrder(r)  PROVE ledger' = ledger
      BY <3>3 DEF CompleteOrder
    <3>. QED  BY <3>1, <3>2, <3>3, LedgerUnchanged, WhoMovesMoney
  <2>2. \/ orders'[o] = orders[o]
        \/ /\ orders[o] # Null /\ orders'[o] # Null
           /\ orders'[o].user = orders[o].user /\ orders'[o].paid = orders[o].paid
    <3>1. ASSUME NEW r \in Requests, BuyProduct(r)  PROVE orders'[o] = orders[o]
      BY <1>0, <1>2, <3>1 DEF BuyProduct, TypeInv, TypeOK, TablesType
    <3>2. ASSUME NEW r \in Requests, CompleteOrder(r), call[r].order = o
          PROVE  /\ orders[o] # Null /\ orders'[o] # Null
                 /\ orders'[o].user = orders[o].user /\ orders'[o].paid = orders[o].paid
      <4>1. orders[o] # Null /\ orders[o] \in OrderRow
        BY <1>0, <3>2, Typed DEF CompleteOrder, Doing, HandlerOk, TypeInv, TypeOK, TablesType
      <4>2. orders'[o] = [orders[o] EXCEPT !.status = "completed"]
        BY <1>0, <3>2 DEF CompleteOrder, TypeInv, TypeOK, TablesType
      <4>3. orders'[o] \in OrderRow
        BY <4>1, <4>2 DEF OrderRow
      <4>. QED  BY <4>1, <4>2, <4>3, NamesAssumption DEF OrderRow
    <3>3. ASSUME NEW r \in Requests, CompleteOrder(r), call[r].order # o
          PROVE  orders'[o] = orders[o]
      BY <1>0, <3>3 DEF CompleteOrder, TypeInv, TypeOK, TablesType
    <3>4. ASSUME NEW r \in Requests, \/ BookSeat(r) \/ CreateRequest(r) \/ Reject(r)
                                     \/ KaspiTopUp(r) \/ TopUp(r)
          PROVE  UNCHANGED orders
      BY <3>4 DEF BookSeat, CreateRequest, Reject, KaspiTopUp, TopUp
    <3>. QED  BY <3>1, <3>2, <3>3, <3>4, WhoMovesMoney
  <2>. QED  BY <1>0, <2>1, <2>2 DEF OrderMoney, LedgerKeeps
<1>. QED  BY <1>1, <1>2

LEMMA NextPaymentMoney ==
  ASSUME MoneyInv, [Next]_vars, NEW p \in Requests
  PROVE  PaymentMoney(p)'
<1>0. LockInv /\ TypeInv /\ PaymentMoney(p)
  BY DEF MoneyInv, LockInv, ChargedAndRefundedOnce
<1>1. CASE KaspiTopUp(p)
  <2>. DEFINE c == call[p]
  <2>1. Record(c.actor, Null, c.amount, orm[p].balance + c.amount, "kaspi_test_top_up", p)
    BY <1>1 DEF KaspiTopUp, Credit
  <2>2. payments[p] = Null /\ LedgerOf(p, {"kaspi_test_top_up"}) = {}
    BY <1>0, <1>1 DEF KaspiTopUp, Doing, MoneyInv, PaidInsertInv, PaymentMoney
  <2>3. /\ LedgerOf(p, {"kaspi_test_top_up"})' = {Len(ledger) + 1}
        /\ ledger'[Len(ledger) + 1].user = c.actor
        /\ ledger'[Len(ledger) + 1].amount = c.amount
    BY <1>0, <2>1, <2>2, FirstRecord
  <2>4. payments'[p] = [user |-> c.actor, amount |-> c.amount]
    BY <1>0, <1>1 DEF KaspiTopUp, TypeInv, TypeOK, TablesType
  <2>5. payments'[p] # Null
    <3>1. c.actor \in Users /\ c.amount \in Nat
      BY <1>0, <1>1, Typed, CallFields DEF KaspiTopUp, Doing, CheckedOk
    <3>2. payments'[p] \in PaymentRow
      BY <2>4, <3>1 DEF PaymentRow
    <3>. QED  BY <3>2, NamesAssumption
  <2>. QED  BY <2>3, <2>4, <2>5 DEF PaymentMoney, MovedOnce
<1>2. CASE ~KaspiTopUp(p)
  <2>1. LedgerKeeps(p, {"kaspi_test_top_up"})
    <3>1. ASSUME NEW r \in Requests, BookSeat(r) \/ CreateRequest(r) \/ Reject(r)
          PROVE  LedgerKeeps(p, {"kaspi_test_top_up"})
      BY <1>0, <3>1, RecordOfAnother, LedgerUnchanged
      DEF BookSeat, CreateRequest, Reject, Debit, Credit
    <3>2. ASSUME NEW r \in Requests, BuyProduct(r) \/ KaspiTopUp(r) \/ TopUp(r)
          PROVE  LedgerKeeps(p, {"kaspi_test_top_up"})
      BY <1>0, <1>2, <3>2, RecordOfAnother DEF BuyProduct, KaspiTopUp, TopUp, Debit, Credit
    <3>3. ASSUME NEW r \in Requests, CompleteOrder(r)  PROVE ledger' = ledger
      BY <3>3 DEF CompleteOrder
    <3>. QED  BY <3>1, <3>2, <3>3, LedgerUnchanged, WhoMovesMoney
  <2>2. payments'[p] = payments[p]
    <3>1. ASSUME NEW r \in Requests, KaspiTopUp(r)  PROVE payments'[p] = payments[p]
      BY <1>0, <1>2, <3>1 DEF KaspiTopUp, TypeInv, TypeOK, TablesType
    <3>2. ASSUME NEW r \in Requests, \/ BookSeat(r) \/ CreateRequest(r) \/ Reject(r)
                                     \/ BuyProduct(r) \/ CompleteOrder(r) \/ TopUp(r)
          PROVE  UNCHANGED payments
      BY <3>2 DEF BookSeat, CreateRequest, Reject, BuyProduct, CompleteOrder, TopUp
    <3>. QED  BY <3>1, <3>2, WhoMovesMoney
  <2>. QED  BY <1>0, <2>1, <2>2 DEF PaymentMoney, LedgerKeeps
<1>. QED  BY <1>1, <1>2

LEMMA InitMoneyInv == Init => MoneyInv
<1>. SUFFICES ASSUME Init  PROVE MoneyInv
  OBVIOUS
<1>1. LockInv /\ PendingInv /\ LockerInv /\ PaidInsertInv
  BY InitLockInv
  DEF PendingInv, LockerInv, PaidInsertInv, Init, TablesInit, Doing, Rows
<1>2. ledger = <<>> /\ Len(ledger) = 0
  BY DEF Init, TablesInit
<1>3. ChargedAndRefundedOnce
  BY <1>2 DEF Init, TablesInit, ChargedAndRefundedOnce, BookingMoney, OrderMoney, PaymentMoney,
              LedgerOf
<1>. QED  BY <1>1, <1>3 DEF MoneyInv

LEMMA NextMoneyInv == MoneyInv /\ [Next]_vars => MoneyInv'
<1>. SUFFICES ASSUME MoneyInv, [Next]_vars  PROVE MoneyInv'
  OBVIOUS
<1>1. (LockInv /\ PendingInv /\ LockerInv /\ PaidInsertInv)'
  BY NextLockInv, NextPendingInv, NextLockerInv, NextPaidInsertInv DEF MoneyInv
<1>2. ChargedAndRefundedOnce'
  BY NextBookingMoney, NextOrderMoney, NextPaymentMoney DEF ChargedAndRefundedOnce
<1>. QED  BY <1>1, <1>2 DEF MoneyInv

LEMMA MoneyInvariant == Spec => []MoneyInv
  BY InitMoneyInv, NextMoneyInv, PTL DEF Spec

(* Every booking, order and payment moved its money once, and a rejected   *)
(* request gave it back once, to the client and in full: whatever failed,  *)
(* was retried or was decided twice at the same time.                      *)
THEOREM MoneyMovesOnce == Spec => []ChargedAndRefundedOnce
<1>1. MoneyInv => ChargedAndRefundedOnce
  BY DEF MoneyInv
<1>. QED  BY <1>1, MoneyInvariant, PTL

-----------------------------------------------------------------------------
(* Credits by others.                                                      *)

(* A session that is about to credit somebody else's account has loaded    *)
(* the balance that account still has.                                     *)
CreditInv ==
  \A r \in Requests :
    /\ Doing(r, {"top_up_balance"}, "commit") /\ call[r].user # call[r].actor =>
         orm[r].balance = balance[call[r].user]
    /\ Doing(r, {"reject_request"}, "commit") /\ bookings[call[r].booking].paid > 0 =>
         (Holder(call[r].booking) # call[r].actor =>
            orm[r].balance = balance[Holder(call[r].booking)])

(* The steps that write balances, each that of the user it pays for.       *)
LEMMA WhoWritesBalances ==
  ASSUME LockInv, [Next]_vars, NEW u \in Users, balance'[u] # balance[u]
  PROVE  \E r \in Requests : at[r] = "commit" /\ at'[r] # "commit" /\ PaysFor(r, u)
<1>1. ASSUME NEW w, NEW actor, NEW amount, NEW after, NEW kind, NEW ref,
             Record(w, actor, amount, after, kind, ref)
      PROVE  w = u
  BY <1>1 DEF Record, LockInv, TypeInv, TypeOK, TablesType
<1>2. ASSUME NEW r \in Requests, BookSeat(r) \/ CreateRequest(r) \/ BuyProduct(r)
      PROVE  at[r] = "commit" /\ at'[r] # "commit" /\ PaysFor(r, u)
  BY <1>1, <1>2 DEF BookSeat, CreateRequest, BuyProduct, Debit, Doing, Commit, PaysFor, LockInv,
                    TypeInv, TypeOK, TablesType
<1>3. ASSUME NEW r \in Requests, KaspiTopUp(r) \/ TopUp(r)
      PROVE  at[r] = "commit" /\ at'[r] # "commit" /\ PaysFor(r, u)
  BY <1>1, <1>3 DEF KaspiTopUp, TopUp, Credit, Doing, Commit, PaysFor, LockInv, TypeInv, TypeOK,
                    TablesType
<1>4. ASSUME NEW r \in Requests, Reject(r)
      PROVE  at[r] = "commit" /\ at'[r] # "commit" /\ PaysFor(r, u)
  BY <1>1, <1>4 DEF Reject, Credit, Doing, Commit, PaysFor, LockInv, TypeInv, TypeOK, TablesType
<1>5. ASSUME NEW r \in Requests, Step(r) \/ Fail(r)
      PROVE  \/ BookSeat(r) \/ CreateRequest(r) \/ BuyProduct(r) \/ KaspiTopUp(r)
             \/ TopUp(r) \/ Reject(r)
  BY <1>5 DEF Step, BookingStep, LockActiveUser, FlushSeat, DebitFails, CheckSeat, ReadSeat,
              CloseActiveBookings, SetSeat, CheckRequest, LockBooking, CheckConfirm, Confirm,
              CheckReject, LockRefunded, LockOtherUser, SendCommand, PaymentStep, CheckProduct,
              ReadOrder, CompleteOrder, LockPayer, LockToppedUp, ModerationStep, ReadClub,
              ModerateClub, Fail, Refuse, Proceed, tables
<1>6. \E r \in Requests : Step(r) \/ Fail(r)
  BY DEF Next, Arrive, CleanupStep, ScanExpired, ExpirePc, FlushExpired, CommitExpired,
         AbandonSweep, Tick, vars, tables
<1>. QED  BY <1>2, <1>3, <1>4, <1>5, <1>6

(* A session changes with its own request's steps only.                    *)
LEMMA OrmStays ==
  ASSUME LockInv, [Next]_vars, NEW r \in Requests, at[r] = "commit", at'[r] = "commit"
  PROVE  orm'[r] = orm[r]
<1>1. ASSUME NEW s \in Requests, Step(s) \/ Fail(s)  PROVE s # r
  <2>1. ASSUME (\E a : Refuse(r, a)) \/ (\E phase \in {"send", "done"} : Commit(r, phase))
        PROVE  FALSE
    BY <2>1 DEF Refuse, Commit, LockInv, TypeInv, TypeOK, TablesType
  <2>2. ~Step(r) /\ ~Fail(r)
    BY <2>1 DEF Step, BookingStep, LockActiveUser, FlushSeat, DebitFails, CheckSeat, BookSeat,
                ReadSeat, CloseActiveBookings, SetSeat, CheckRequest, CreateRequest,
                LockBooking, CheckConfirm, Confirm, CheckReject, LockRefunded, Reject,
                SendCommand, PaymentStep, CheckProduct, BuyProduct, ReadOrder, CompleteOrder,
                LockPayer, KaspiTopUp, LockToppedUp, TopUp, ModerationStep, ReadClub,
                ModerateClub, Fail, Doing
  <2>. QED  BY <1>1, <2>2
<1>2. ASSUME NEW s \in Requests, Step(s) \/ Fail(s)  PROVE orm'[r] = orm[r]
  BY <1>1, <1>2, RequestsStep DEF LockInv
<1>3. ASSUME NEW s \in Requests, NEW c \in Calls[s], Arrive(s, c)  PROVE orm'[r] = orm[r]
  BY <1>3 DEF Arrive, LockInv, TypeInv, TypeOK, TablesType
<1>4. CASE CleanupStep \/ AbandonSweep \/ Tick \/ UNCHANGED vars
  BY <1>4 DEF CleanupStep, ScanExpired, ExpirePc, FlushExpired, CommitExpired, AbandonSweep,
              Tick, vars
<1>. QED  BY <1>2, <1>3, <1>4 DEF Next

(* Nobody but the handler that locked it writes a user's balance.          *)
LEMMA LockedBalanceStays ==
  ASSUME LockInv, [Next]_vars, NEW u \in Users, NEW s \in Requests, PaysFor(s, u),
         at[s] = "commit", at'[s] = "commit"
  PROVE  balance'[u] = balance[u]
<1>1. ASSUME NEW r \in Requests, PaysFor(r, u)  PROVE r = s
  BY <1>1 DEF LockInv, HoldInv, HoldsOk
<1>. QED  BY <1>1, WhoWritesBalances

LEMMA NextCreditInv == LockInv /\ PendingInv /\ CreditInv /\ [Next]_vars => CreditInv'
<1>. SUFFICES ASSUME LockInv, PendingInv, CreditInv, [Next]_vars, NEW r \in Requests,
                     at'[r] = "commit"
              PROVE  /\ call'[r].op = "top_up_balance" /\ call'[r].user # call'[r].actor =>
                          orm'[r].balance = balance'[call'[r].user]
                     /\ call'[r].op = "reject_request" /\ bookings'[call'[r].booking].paid > 0 =>
                          (bookings'[call'[r].booking].user # call'[r].actor =>
                             orm'[r].balance = balance'[bookings'[call'[r].booking].user])
  BY DEF CreditInv, Doing, Holder
<1>. DEFINE c == call[r]
<1>0. call'[r] = c
  BY MovedByItself
<1>1. CASE at[r] = "commit"
  <2>0. c \in CallType /\ HandlerOk(r) /\ orm'[r] = orm[r]
    BY <1>1, Typed, OrmStays DEF LockInv
  <2>1. CASE c.op = "top_up_balance"
    <3>1. c.user \in Users /\ PaysFor(r, c.user)
      BY <1>1, <2>0, <2>1, CallFields DEF PaysFor, Doing
    <3>2. balance'[c.user] = balance[c.user]
      BY <1>1, <3>1, LockedBalanceStays
    <3>. QED  BY <1>0, <1>1, <2>0, <2>1, <3>2 DEF CreditInv, Doing
  <2>2. CASE c.op = "reject_request"
    <3>. DEFINE b == c.booking
    <3>1. b \in Requests /\ bookings[b] # Null /\ Moderates(r, b)
      BY <1>1, <2>0, <2>2, CallFields DEF HandlerOk, Moderating, Moderates
    <3>2. bookings'[b] = bookings[b]
      BY <1>1, <3>1, LockedBookingStays
    <3>3. CASE bookings[b].paid > 0
      <4>. DEFINE u == bookings[b].user
      <4>1. u \in Users /\ PaysFor(r, u)
        BY <1>1, <2>2, <3>1, <3>3, Typed DEF PaysFor, Doing, Holder, LockInv
      <4>2. balance'[u] = balance[u]
        BY <1>1, <4>1, LockedBalanceStays
      <4>3. u # c.actor => orm[r].balance = balance[u]
        BY <1>1, <2>2, <3>3 DEF CreditInv, Doing, Holder
      <4>. QED  BY <1>0, <2>0, <2>2, <3>2, <4>2, <4>3
    <3>4. CASE ~(bookings[b].paid > 0)
      BY <1>0, <2>2, <3>2, <3>4
    <3>. QED  BY <3>3, <3>4
  <2>. QED  BY <1>0, <2>1, <2>2
<1>2. CASE at[r] # "commit" /\ c.op \in {"top_up_balance", "reject_request"}
  <2>1. ASSUME (\E a : Refuse(r, a)) \/ (\E phase \in {"send", "done"} : Commit(r, phase))
               \/ Proceed(r, "user") \/ SendCommand(r)
        PROVE  FALSE
    BY <2>1 DEF Refuse, Commit, Proceed, SendCommand, LockInv, TypeInv, TypeOK, TablesType
  <2>2. ~CloseActiveBookings(r) /\ ~FlushSeat(r)
    BY <1>2, Typed DEF CloseActiveBookings, FlushSeat, LockInv, HandlerOk
  <2>3. CheckReject(r) \/ LockRefunded(r) \/ LockToppedUp(r)
    <3>1. Step(r) \/ Fail(r)
      BY <1>2, MovedByItself
    <3>. QED
      BY <1>2, <2>1, <2>2, <3>1
      DEF Step, BookingStep, LockActiveUser, DebitFails, CheckSeat, BookSeat, ReadSeat,
          SetSeat, CheckRequest, CreateRequest, LockBooking, CheckConfirm, Confirm,
          Reject, PaymentStep, CheckProduct, BuyProduct, ReadOrder, CompleteOrder, LockPayer,
          KaspiTopUp, TopUp, ModerationStep, ReadClub, ModerateClub, Fail, Doing
  <2>4. CASE CheckReject(r)
    <3>1. /\ c.op = "reject_request" /\ bookings' = bookings
          /\ Proceed(r, IF bookings[c.booking].paid > 0 THEN "refund" ELSE "commit")
      BY <2>1, <2>4 DEF CheckReject, Proceed, Doing, tables
    <3>2. ~(bookings[c.booking].paid > 0)
      BY <3>1 DEF Proceed, LockInv, TypeInv, TypeOK, TablesType
    <3>. QED  BY <1>0, <3>1, <3>2
  <2>5. ASSUME NEW u, LockOtherUser(r, u, "commit"), u # c.actor
        PROVE  orm'[r].balance = balance'[u] /\ bookings' = bookings
    BY <2>5 DEF LockOtherUser, Proceed, tables, LockInv, TypeInv, TypeOK, TablesType, OrmType
  <2>6. CASE LockRefunded(r)
    <3>1. c.op = "reject_request" /\ LockOtherUser(r, bookings[c.booking].user, "commit")
      BY <2>6 DEF LockRefunded, Doing, Holder
    <3>2. bookings' = bookings
      BY <3>1 DEF LockOtherUser, Proceed, tables
    <3>. QED  BY <1>0, <2>5, <3>1, <3>2
  <2>7. CASE LockToppedUp(r)
    <3>1. c.op = "top_up_balance" /\ LockOtherUser(r, c.user, "commit")
      BY <2>1, <2>7 DEF LockToppedUp, Doing
    <3>. QED  BY <1>0, <2>5, <3>1
  <2>. QED  BY <2>3, <2>4, <2>6, <2>7
<1>3. CASE c.op \notin {"top_up_balance", "reject_request"}
  BY <1>0, <1>3
<1>. QED  BY <1>1, <1>2, <1>3

(* What the club gives back and what a superadmin adds arrives in full on  *)
(* the balance of that moment, whatever the client buys meanwhile: the     *)
(* account was loaded under its lock.                                      *)
THEOREM CreditsAreExact == Spec => OthersCreditsAreExact
<1>. DEFINE Inv == LockInv /\ PendingInv /\ CreditInv
<1>1. Init => Inv
  <2>. SUFFICES ASSUME Init  PROVE Inv
    OBVIOUS
  <2>1. \A r \in Requests : at[r] = "new"
    BY DEF Init, TablesInit
  <2>. QED  BY <2>1, InitLockInv DEF PendingInv, CreditInv, Doing
<1>2. Inv /\ [Next]_vars => Inv'
  BY NextLockInv, NextPendingInv, NextCreditInv
<1>3. Inv /\ [Next]_vars =>
        [Len(ledger') > Len(ledger) =>
           LET row == ledger'[Len(ledger')] IN
           row.actor \notin {Null, row.user} =>
             balance'[row.user] = balance[row.user] + row.amount]_vars
  <2>. SUFFICES ASSUME Inv, [Next]_vars, Len(ledger') > Len(ledger),
                       ledger'[Len(ledger')].actor \notin {Null, ledger'[Len(ledger')].user}
                PROVE  balance'[ledger'[Len(ledger')].user]
                         = balance[ledger'[Len(ledger')].user] + ledger'[Len(ledger')].amount
    OBVIOUS
  <2>0. LockInv /\ TypeInv /\ CreditInv
    BY DEF LockInv
  <2>1. ASSUME NEW u, NEW actor, NEW amount, NEW after, NEW kind, NEW ref,
               Record(u, actor, amount, after, kind, ref)
        PROVE  /\ ledger'[Len(ledger')].user = u /\ ledger'[Len(ledger')].actor = actor
               /\ ledger'[Len(ledger')].amount = amount
               /\ u \in Users => balance'[u] = after
    BY <2>0, <2>1 DEF Record, TypeInv, TypeOK, TablesType
  <2>2. ASSUME NEW r \in Requests, TopUp(r)
        PROVE  balance'[ledger'[Len(ledger')].user]
                 = balance[ledger'[Len(ledger')].user] + ledger'[Len(ledger')].amount
    <3>. DEFINE c == call[r]
    <3>1. Record(c.user, c.actor, c.amount, orm[r].balance + c.amount, "admin_top_up", Null)
      BY <2>2 DEF TopUp, Credit
    <3>2. c.user \in Users /\ c.op = "top_up_balance" /\ at[r] = "commit"
      BY <2>0, <2>2, Typed, CallFields DEF TopUp, Doing
    <3>3. c.user # c.actor
      BY <2>1, <3>1
    <3>4. orm[r].balance = balance[c.user]
      BY <2>0, <3>2, <3>3 DEF CreditInv, Doing
    <3>. QED  BY <2>1, <3>1, <3>2, <3>4
  <2>3. ASSUME NEW r \in Requests, Reject(r)
        PROVE  balance'[ledger'[Len(ledger')].user]
                 = balance[ledger'[Len(ledger')].user] + ledger'[Len(ledger')].amount
    <3>. DEFINE b == call[r].booking
                u == bookings[b].user
                paid == bookings[b].paid
    <3>1. /\ paid > 0
          /\ Record(u, call[r].actor, paid, orm[r].balance + paid, "booking_refund", b)
      BY <2>3 DEF Reject, Credit, Holder
    <3>2. u \in Users /\ Doing(r, {"reject_request"}, "commit")
      BY <2>0, <2>3, Typed, CallFields DEF Reject, Doing, HandlerOk, Moderating
    <3>3. u # call[r].actor
      BY <2>1, <3>1
    <3>4. orm[r].balance = balance[u]
      BY <2>0, <3>1, <3>2, <3>3 DEF CreditInv, Holder
    <3>. QED  BY <2>1, <3>1, <3>2, <3>4
  <2>4. ASSUME NEW r \in Requests, \/ BookSeat(r) \/ CreateRequest(r) \/ BuyProduct(r)
                                   \/ KaspiTopUp(r) \/ CompleteOrder(r)
        PROVE  FALSE
    BY <2>1, <2>4 DEF BookSeat, CreateRequest, BuyProduct, KaspiTopUp, CompleteOrder, Debit, Credit
  <2>. QED  BY <2>2, <2>3, <2>4, WhoMovesMoney
<1>. QED  BY <1>1, <1>2, <1>3, PTL DEF Spec, OthersCreditsAreExact

-----------------------------------------------------------------------------
(* The income of a club.                                                   *)

LEMMA SumOverDomain ==
  ASSUME NEW f, NEW S, DOMAIN f = S
  PROVE  SumFunction(f) = SumFunctionOnSet(f, S)
  BY DEF SumFunction

(* What the ledger holds of a reference, of kinds taken apart.             *)
LEMMA LedgerSumOfNothing ==
  ASSUME NEW ref, NEW kinds, LedgerOf(ref, kinds) = {}
  PROVE  LedgerSumOf(ref, kinds) = 0
<1>. DEFINE f == [i \in LedgerOf(ref, kinds) |-> ledger[i].amount]
<1>1. DOMAIN f = {}
  OBVIOUS
<1>2. LedgerSumOf(ref, kinds) = SumFunction(f)
  BY DEF LedgerSumOf
<1>. HIDE DEF f
<1>. QED  BY <1>1, <1>2, SumOverDomain, SumOfNothing

LEMMA LedgerSumOfOne ==
  ASSUME NEW ref, NEW kinds, NEW user, NEW amount \in Int, MovedOnce(ref, kinds, user, amount)
  PROVE  LedgerSumOf(ref, kinds) = amount
<1>. DEFINE f == [i \in LedgerOf(ref, kinds) |-> ledger[i].amount]
<1>1. PICK i : LedgerOf(ref, kinds) = {i} /\ ledger[i].amount = amount
  BY DEF MovedOnce
<1>2. LedgerSumOf(ref, kinds) = SumFunction(f) /\ DOMAIN f = {i} /\ f[i] = amount
  BY <1>1 DEF LedgerSumOf
<1>. HIDE DEF f
<1>. QED  BY <1>2, SumOverDomain, SumOfOne

LEMMA LedgerSumOfParts ==
  ASSUME TypeInv, NEW ref, NEW K, NEW L, K \cap L = {}
  PROVE  /\ LedgerSumOf(ref, K) \in Int /\ LedgerSumOf(ref, L) \in Int
         /\ LedgerSumOf(ref, K \cup L) = LedgerSumOf(ref, K) + LedgerSumOf(ref, L)
<1>. DEFINE S == LedgerOf(ref, K)
            T == LedgerOf(ref, L)
            f == [i \in S \cup T |-> ledger[i].amount]
            g == [i \in S |-> ledger[i].amount]
            h == [i \in T |-> ledger[i].amount]
<1>1. IsFiniteSet(S) /\ IsFiniteSet(T)
  <2>1. Len(ledger) \in Nat /\ IsFiniteSet(1 .. Len(ledger))
    BY FS_Interval DEF TypeInv, TypeOK, TablesType
  <2>2. S \subseteq 1 .. Len(ledger) /\ T \subseteq 1 .. Len(ledger)
    BY DEF LedgerOf
  <2>. QED  BY <2>1, <2>2, FS_Subset
<1>2. \A i \in 1 .. Len(ledger) : ledger[i].amount \in Int
  <2>1. \A i \in 1 .. Len(ledger) : ledger[i] \in LedgerRow
    BY DEF TypeInv, TypeOK, TablesType
  <2>. QED  BY <2>1 DEF LedgerRow
<1>3. S \cap T = {} /\ LedgerOf(ref, K \cup L) = S \cup T
  BY DEF LedgerOf
<1>4. /\ DOMAIN f = S \cup T /\ \A i \in S \cup T : f[i] \in Int
      /\ DOMAIN g = S /\ \A i \in S : g[i] \in Int /\ g[i] = f[i]
      /\ DOMAIN h = T /\ \A i \in T : h[i] \in Int /\ h[i] = f[i]
  BY <1>2 DEF LedgerOf
<1>5. /\ LedgerSumOf(ref, K \cup L) = SumFunction(f)
      /\ LedgerSumOf(ref, K) = SumFunction(g) /\ LedgerSumOf(ref, L) = SumFunction(h)
  BY <1>3 DEF LedgerSumOf
<1>. HIDE DEF S, T, f, g, h
<1>6. SumFunctionOnSet(f, S \cup T) = SumFunctionOnSet(f, S) + SumFunctionOnSet(f, T)
  BY <1>1, <1>3, <1>4, SumOfParts
<1>7. SumFunctionOnSet(g, S) = SumFunctionOnSet(f, S)
  BY <1>1, <1>4, SumOfSame
<1>8. SumFunctionOnSet(h, T) = SumFunctionOnSet(f, T)
  BY <1>1, <1>4, SumOfSame
<1>9. SumFunctionOnSet(g, S) \in Int /\ SumFunctionOnSet(h, T) \in Int
  BY <1>1, <1>4, SumIsInt
<1>. QED  BY <1>4, <1>5, <1>6, <1>7, <1>8, <1>9, SumOverDomain

(* Of which operation the rows of bookings and of orders come, and that    *)
(* only finitely many requests have arrived.                               *)
InsertedByInv ==
  \A r \in Requests :
    /\ bookings[r] # Null => call[r].op \in {"book_seat", "create_booking_request"}
    /\ orders[r] # Null => call[r].op = "buy_product" /\ orders[r].paid # 0

Arrived == {r \in Requests : at[r] # "new"}

IncomeInv == MoneyInv /\ InsertedByInv /\ IsFiniteSet(Arrived)

LEMMA NextArrived == TypeInv /\ IsFiniteSet(Arrived) /\ [Next]_vars => IsFiniteSet(Arrived)'
<1>. SUFFICES ASSUME TypeInv, IsFiniteSet(Arrived), [Next]_vars  PROVE IsFiniteSet(Arrived')
  OBVIOUS
<1>1. ASSUME NEW r \in Requests, NEW c \in Calls[r], Arrive(r, c)
      PROVE  IsFiniteSet(Arrived')
  <2>1. Arrived' = Arrived \cup {r}
    BY <1>1 DEF Arrive, Arrived, TypeInv, TypeOK, TablesType
  <2>. QED  BY <2>1, FS_AddElement
<1>2. ASSUME NEW r \in Requests, Step(r) \/ Fail(r)
      PROVE  IsFiniteSet(Arrived')
  <2>1. Arrived' = Arrived
    BY <1>2, RequestsStep DEF Arrived
  <2>. QED  BY <2>1
<1>3. CASE CleanupStep \/ AbandonSweep \/ Tick \/ UNCHANGED vars
  <2>1. at' = at
    BY <1>3 DEF CleanupStep, ScanExpired, ExpirePc, FlushExpired, CommitExpired, AbandonSweep,
                Tick, vars
  <2>. QED  BY <2>1 DEF Arrived
<1>. QED  BY <1>1, <1>2, <1>3 DEF Next

LEMMA NextInsertedByInv ==
  LockInv /\ PaidInsertInv /\ InsertedByInv /\ [Next]_vars => InsertedByInv'
<1>. SUFFICES ASSUME LockInv, PaidInsertInv, InsertedByInv, [Next]_vars,
                     NEW r \in Requests
              PROVE  /\ bookings'[r] # Null =>
                          call'[r].op \in {"book_seat", "create_booking_request"}
                     /\ orders'[r] # Null => call'[r].op = "buy_product" /\ orders'[r].paid # 0
  BY DEF InsertedByInv
<1>1. bookings[r] # Null \/ orders[r] # Null => call'[r] = call[r]
  <2>1. ASSUME bookings[r] # Null \/ orders[r] # Null, NEW s \in Requests, NEW c \in Calls[s],
               Arrive(s, c)
        PROVE  call'[r] = call[r]
    BY <2>1 DEF Arrive, LockInv, InsertInv, PaidInsertInv, TypeInv, TypeOK, TablesType
  <2>2. ASSUME NEW s \in Requests, Step(s) \/ Fail(s)  PROVE call'[r] = call[r]
    BY <2>2, RequestsStep DEF LockInv
  <2>. QED  BY <2>1, <2>2, BackgroundLocks DEF Next
<1>2. bookings'[r] # Null => call'[r].op \in {"book_seat", "create_booking_request"}
  <2>1. ASSUME BookSeat(r) \/ CreateRequest(r)
        PROVE  call'[r].op \in {"book_seat", "create_booking_request"}
    BY <2>1 DEF BookSeat, CreateRequest, Doing, Commit
  <2>. QED  BY <1>1, <2>1, BookingsStep DEF InsertedByInv
<1>3. orders'[r] # Null => call'[r].op = "buy_product" /\ orders'[r].paid # 0
  <2>1. CASE orders'[r] = orders[r]
    BY <1>1, <2>1 DEF InsertedByInv
  <2>2. ASSUME NEW s \in Requests, BuyProduct(s), orders'[r] # orders[r]
        PROVE  call'[r].op = "buy_product" /\ orders'[r].paid # 0
    <3>1. r = s /\ orders'[r] = NewOrder(r)
      BY <2>2 DEF BuyProduct, LockInv, TypeInv, TypeOK, TablesType
    <3>2. Doing(r, {"buy_product"}, "commit") /\ call' = call
      BY <2>2, <3>1 DEF BuyProduct, Commit
    <3>3. ProductPrice[call[r].product] # 0
      BY <2>2, <3>1 DEF BuyProduct, Debit, DebitRaises
    <3>. QED  BY <3>1, <3>2, <3>3 DEF NewOrder, Doing
  <2>3. ASSUME NEW s \in Requests, CompleteOrder(s), orders'[r] # orders[r]
        PROVE  call'[r].op = "buy_product" /\ orders'[r].paid # 0
    <3>1. orders[r] # Null /\ orders'[r] = [orders[r] EXCEPT !.status = "completed"]
      BY <2>3, Typed DEF CompleteOrder, Doing, HandlerOk, LockInv, TypeInv, TypeOK, TablesType
    <3>2. orders[r] \in OrderRow
      BY <3>1 DEF LockInv, TypeInv, TypeOK, TablesType
    <3>3. orders'[r].paid = orders[r].paid
      BY <3>1, <3>2 DEF OrderRow
    <3>. QED  BY <1>1, <3>1, <3>3 DEF InsertedByInv
  <2>4. ASSUME NEW s \in Requests, \/ BookSeat(s) \/ CreateRequest(s) \/ Reject(s)
                                   \/ KaspiTopUp(s) \/ TopUp(s)
        PROVE  orders' = orders
    BY <2>4 DEF BookSeat, CreateRequest, Reject, KaspiTopUp, TopUp
  <2>. QED  BY <2>1, <2>2, <2>3, <2>4, WhoMovesMoney
<1>. QED  BY <1>2, <1>3

(* What a booking or an order was charged is the sum it records.           *)
LEMMA ChargeOfBooking ==
  ASSUME IncomeInv, NEW b \in Requests, bookings[b] # Null
  PROVE  /\ bookings[b].paid \in Nat
         /\ -LedgerSumOf(b, ChargeKinds) = bookings[b].paid
<1>0. TypeInv /\ bookings[b].paid \in Nat
  <2>1. bookings[b] \in BookingRow
    BY DEF IncomeInv, MoneyInv, LockInv, TypeInv, TypeOK, TablesType
  <2>. QED  BY <2>1 DEF BookingRow, IncomeInv, MoneyInv, LockInv
<1>1. BookingMoney(b) /\ OrderMoney(b) /\ orders[b] = Null
  BY DEF IncomeInv, MoneyInv, ChargedAndRefundedOnce, InsertedByInv
<1>2. LedgerSumOf(b, {"order_debit"}) = 0
  BY <1>1, LedgerSumOfNothing DEF OrderMoney
<1>3. LedgerSumOf(b, Charges) = -bookings[b].paid
  <2>1. CASE bookings[b].paid > 0
    <3>1. MovedOnce(b, Charges, Holder(b), -bookings[b].paid) /\ -bookings[b].paid \in Int
      BY <1>0, <1>1, <2>1 DEF BookingMoney, Charges
    <3>. QED  BY <3>1, LedgerSumOfOne
  <2>2. CASE bookings[b].paid = 0
    <3>1. LedgerOf(b, Charges) = {}
      BY <1>0, <1>1, <2>2 DEF BookingMoney, Charges
    <3>. QED  BY <2>2, <3>1, LedgerSumOfNothing
  <2>. QED  BY <1>0, <2>1, <2>2
<1>4. ChargeKinds = Charges \cup {"order_debit"} /\ Charges \cap {"order_debit"} = {}
  BY DEF ChargeKinds, Charges
<1>5. LedgerSumOf(b, ChargeKinds) = LedgerSumOf(b, Charges) + LedgerSumOf(b, {"order_debit"})
  BY <1>0, <1>4, LedgerSumOfParts
<1>. QED  BY <1>0, <1>2, <1>3, <1>5

LEMMA ChargeOfOrder ==
  ASSUME IncomeInv, NEW o \in Requests, orders[o] # Null
  PROVE  /\ IncomeOfOrder(o) \in Nat
         /\ -LedgerSumOf(o, ChargeKinds) = IncomeOfOrder(o)
<1>0. TypeInv /\ orders[o].paid \in Nat
  <2>1. orders[o] \in OrderRow
    BY DEF IncomeInv, MoneyInv, LockInv, TypeInv, TypeOK, TablesType
  <2>. QED  BY <2>1 DEF OrderRow, IncomeInv, MoneyInv, LockInv
<1>1. /\ BookingMoney(o) /\ OrderMoney(o) /\ bookings[o] = Null
      /\ IncomeOfOrder(o) = orders[o].paid
  BY DEF IncomeInv, MoneyInv, ChargedAndRefundedOnce, InsertedByInv, IncomeOfOrder
<1>2. LedgerSumOf(o, Charges) = 0
  BY <1>1, LedgerSumOfNothing DEF BookingMoney, Charges
<1>3. LedgerSumOf(o, {"order_debit"}) = -orders[o].paid
  <2>1. /\ MovedOnce(o, {"order_debit"}, orders[o].user, -orders[o].paid)
        /\ -orders[o].paid \in Int
    BY <1>0, <1>1 DEF OrderMoney
  <2>. QED  BY <2>1, LedgerSumOfOne
<1>4. ChargeKinds = Charges \cup {"order_debit"} /\ Charges \cap {"order_debit"} = {}
  BY DEF ChargeKinds, Charges
<1>5. LedgerSumOf(o, ChargeKinds) = LedgerSumOf(o, Charges) + LedgerSumOf(o, {"order_debit"})
  BY <1>0, <1>4, LedgerSumOfParts
<1>. QED  BY <1>0, <1>1, <1>2, <1>3, <1>5

LEMMA IncomeIsCharged == IncomeInv => IncomeWasCharged
<1>. SUFFICES ASSUME IncomeInv, NEW c \in Clubs  PROVE Income(c) = ChargedFor(c)
  BY DEF IncomeWasCharged
<1>. DEFINE O == ClubOrders(c)
            B == ClubBookings(c)
            income == [o \in O |-> IncomeOfOrder(o)]
            paid == [b \in B |-> bookings[b].paid]
            charged == [r \in SoldBy(c) |-> -LedgerSumOf(r, ChargeKinds)]
<1>1. IsFiniteSet(O) /\ IsFiniteSet(B)
  <2>1. O \subseteq Arrived /\ B \subseteq Arrived
    BY DEF IncomeInv, MoneyInv, LockInv, InsertInv, PaidInsertInv, ClubOrders, ClubBookings,
           Arrived
  <2>. QED  BY <2>1, FS_Subset DEF IncomeInv
<1>2. O \cap B = {}
  BY DEF ClubOrders, ClubBookings, IncomeInv, InsertedByInv
<1>3. SoldBy(c) = O \cup B
  BY DEF SoldBy, ClubOrders, ClubBookings
<1>4. \A o \in O : income[o] \in Int /\ charged[o] = income[o]
  BY <1>3, ChargeOfOrder DEF ClubOrders
<1>5. \A b \in B : paid[b] \in Int /\ charged[b] = paid[b]
  BY <1>3, ChargeOfBooking DEF ClubBookings
<1>6. DOMAIN income = O /\ DOMAIN paid = B /\ DOMAIN charged = O \cup B
  BY <1>3
<1>7. Income(c) = SumFunction(income) + SumFunction(paid) /\ ChargedFor(c) = SumFunction(charged)
  BY DEF Income, ChargedFor
<1>. HIDE DEF O, B, income, paid, charged
<1>8. \A r \in O \cup B : charged[r] \in Int
  BY <1>4, <1>5
<1>9. SumFunctionOnSet(charged, O \cup B)
        = SumFunctionOnSet(charged, O) + SumFunctionOnSet(charged, B)
  BY <1>1, <1>2, <1>8, SumOfParts
<1>10. SumFunctionOnSet(income, O) = SumFunctionOnSet(charged, O)
  BY <1>1, <1>4, SumOfSame
<1>11. SumFunctionOnSet(paid, B) = SumFunctionOnSet(charged, B)
  BY <1>1, <1>5, SumOfSame
<1>. QED  BY <1>6, <1>7, <1>9, <1>10, <1>11, SumOverDomain

(* What an owner is shown as the income of his club is what the ledger     *)
(* says its customers were charged, for any number of bookings and orders: *)
(* the price that an order without a payment would count as is never used, *)
(* and nothing that was not charged is income.                             *)
THEOREM IncomeIsWhatWasCharged == Spec => []IncomeWasCharged
<1>1. Init => IncomeInv
  <2>. SUFFICES ASSUME Init  PROVE InsertedByInv /\ IsFiniteSet(Arrived) /\ MoneyInv
    BY DEF IncomeInv
  <2>1. InsertedByInv
    BY DEF Init, TablesInit, InsertedByInv
  <2>2. Arrived = {}
    BY DEF Init, TablesInit, Arrived
  <2>. QED  BY <2>1, <2>2, FS_EmptySet, InitMoneyInv
<1>2. IncomeInv /\ [Next]_vars => IncomeInv'
  BY NextMoneyInv, NextInsertedByInv, NextArrived DEF IncomeInv, MoneyInv, LockInv
<1>. QED  BY <1>1, <1>2, IncomeIsCharged, PTL DEF Spec

-----------------------------------------------------------------------------
(* GameClubs implements BookingLifecycle.                                  *)

(* What the ledger keeps for a booking is what its row says.               *)
Worth(b) ==
  IF bookings[b] # Null /\ bookings[b].status # "rejected" THEN bookings[b].paid ELSE 0

LEMMA KeptIsWorth == MoneyInv => \A b \in Requests : KeptFor(b) = Worth(b)
<1>. SUFFICES ASSUME MoneyInv, NEW b \in Requests  PROVE KeptFor(b) = Worth(b)
  OBVIOUS
<1>0. TypeInv /\ (bookings[b] # Null => bookings[b].paid \in Nat) /\ BookingMoney(b)
  <2>1. bookings[b] # Null => bookings[b] \in BookingRow
    BY DEF MoneyInv, LockInv, TypeInv, TypeOK, TablesType
  <2>. QED  BY <2>1 DEF BookingRow, MoneyInv, LockInv, ChargedAndRefundedOnce
<1>. DEFINE Refunds == {"booking_refund"}
<1>1. KeptFor(b) = -(LedgerSumOf(b, Charges) + LedgerSumOf(b, Refunds))
  <2>1. BookingKinds = Charges \cup Refunds /\ Charges \cap Refunds = {}
    BY DEF BookingKinds, Charges
  <2>. HIDE DEF Refunds
  <2>. QED  BY <1>0, <2>1, LedgerSumOfParts DEF KeptFor
<1>2. CASE bookings[b] = Null \/ ~(bookings[b].paid > 0)
  <2>1. LedgerOf(b, Charges) = {} /\ LedgerOf(b, Refunds) = {}
    BY <1>0, <1>2 DEF BookingMoney, Charges
  <2>2. LedgerSumOf(b, Charges) = 0 /\ LedgerSumOf(b, Refunds) = 0
    BY <2>1, LedgerSumOfNothing
  <2>3. Worth(b) = 0
    BY <1>0, <1>2 DEF Worth
  <2>4. \A x, y \in Int : x + y = 0 => -(x + y) = 0
    OBVIOUS
  <2>5. LedgerSumOf(b, Charges) \in Int /\ LedgerSumOf(b, Refunds) \in Int
    BY <2>2
  <2>6. LedgerSumOf(b, Charges) + LedgerSumOf(b, Refunds) = 0
    BY <2>2
  <2>. QED  BY <1>1, <2>3, <2>4, <2>5, <2>6
<1>3. CASE bookings[b] # Null /\ bookings[b].paid > 0
  <2>. DEFINE paid == bookings[b].paid
  <2>0. paid \in Nat /\ -paid \in Int
    BY <1>0, <1>3
  <2>1. MovedOnce(b, Charges, Holder(b), -paid)
    BY <1>0, <1>3 DEF BookingMoney, Charges
  <2>2. LedgerSumOf(b, Charges) = -paid
    BY <2>0, <2>1, LedgerSumOfOne
  <2>3. CASE bookings[b].status = "rejected"
    <3>1. MovedOnce(b, Refunds, Holder(b), paid)
      BY <1>0, <1>3, <2>3 DEF BookingMoney
    <3>2. LedgerSumOf(b, Refunds) = paid
      BY <2>0, <3>1, LedgerSumOfOne
    <3>3. Worth(b) = 0
      BY <2>3 DEF Worth
    <3>. QED  BY <1>1, <2>0, <2>2, <3>2, <3>3
  <2>4. CASE bookings[b].status # "rejected"
    <3>1. LedgerOf(b, Refunds) = {}
      BY <1>0, <1>3, <2>4 DEF BookingMoney
    <3>2. LedgerSumOf(b, Refunds) = 0
      BY <3>1, LedgerSumOfNothing
    <3>3. Worth(b) = paid
      BY <1>3, <2>4 DEF Worth
    <3>. QED  BY <1>1, <2>0, <2>2, <3>2, <3>3
  <2>. QED  BY <2>3, <2>4
<1>. QED  BY <1>2, <1>3

LEMMA KeptIsWorthNext == MoneyInv' => \A b \in Requests : KeptFor(b)' = Worth(b)'
<1>1. (MoneyInv => \A b \in Requests : KeptFor(b) = Worth(b))'
  BY KeptIsWorth, PTL
<1>. QED  BY <1>1

LEMMA LifecycleInit == Init => Lifecycle!Init
<1>. SUFFICES ASSUME Init  PROVE Lifecycle!Init
  OBVIOUS
<1>1. \A b \in Requests : StatusOf(b) = "none" /\ Worth(b) = 0
  BY DEF Init, TablesInit, StatusOf, Worth
<1>2. \A b \in Requests : KeptFor(b) = Worth(b)
  BY InitMoneyInv, KeptIsWorth
<1>. QED  BY <1>1, <1>2 DEF Lifecycle!Init

(* A step that writes one row changes one status and one sum.              *)
LEMMA OneRowWritten ==
  ASSUME MoneyInv, MoneyInv', NEW r \in Requests,
         \A b \in Requests \ {r} : bookings'[b] = bookings[b]
  PROVE  /\ [b \in Requests |-> StatusOf(b)]'
              = [[b \in Requests |-> StatusOf(b)] EXCEPT ![r] = StatusOf(r)']
         /\ [b \in Requests |-> KeptFor(b)]'
              = [[b \in Requests |-> KeptFor(b)] EXCEPT ![r] = Worth(r)']
         /\ KeptFor(r) = Worth(r)
<1>1. \A b \in Requests \ {r} : StatusOf(b)' = StatusOf(b) /\ Worth(b)' = Worth(b)
  BY DEF StatusOf, Worth
<1>2. \A b \in Requests : KeptFor(b) = Worth(b) /\ KeptFor(b)' = Worth(b)'
  BY KeptIsWorth, KeptIsWorthNext
<1>. QED  BY <1>1, <1>2

(* A holder's UPDATE closes bookings that are active.                      *)
LEMMA LifecycleClose ==
  ASSUME MoneyInv, MoneyInv', NEW h \in Holders, NEW how \in {"completed", "expired"},
         bookings' = ClosedBy(h, how),
         \A b \in Requests : lockedBy[b] = h => bookings[b].status = "active"
  PROVE  Lifecycle!Close({b \in Requests : lockedBy[b] = h}, how)
<1>. DEFINE B == {b \in Requests : lockedBy[b] = h}
<1>0. \A b \in Requests : KeptFor(b) = Worth(b) /\ KeptFor(b)' = Worth(b)'
  BY KeptIsWorth, KeptIsWorthNext
<1>1. ASSUME NEW b \in B
      PROVE  StatusOf(b) = "active" /\ StatusOf(b)' = how /\ Worth(b)' = Worth(b)
  <2>1. bookings[b] # Null /\ bookings[b].status = "active"
    BY NamesAssumption DEF MoneyInv, LockInv, TypeInv, LockedRowsInv, Holders
  <2>2. bookings[b] \in BookingRow
    BY <2>1 DEF MoneyInv, LockInv, TypeInv, TypeOK, TablesType
  <2>3. bookings'[b] = [bookings[b] EXCEPT !.status = how]
    BY DEF ClosedBy
  <2>4. bookings'[b] \in BookingRow /\ bookings'[b].status = how
        /\ bookings'[b].paid = bookings[b].paid
    BY <2>2, <2>3 DEF BookingRow, BookingStatus
  <2>5. bookings'[b] # Null
    BY <2>4, NamesAssumption
  <2>. QED  BY <2>1, <2>4, <2>5 DEF StatusOf, Worth
<1>2. ASSUME NEW b \in Requests \ B
      PROVE  StatusOf(b)' = StatusOf(b) /\ Worth(b)' = Worth(b)
  <2>1. bookings'[b] = bookings[b]
    BY DEF ClosedBy
  <2>. QED  BY <2>1 DEF StatusOf, Worth
<1>3. [b \in Requests |-> StatusOf(b)]'
        = [b \in Requests |-> IF b \in B THEN how ELSE [x \in Requests |-> StatusOf(x)][b]]
  BY <1>1, <1>2
<1>4. [b \in Requests |-> KeptFor(b)]' = [b \in Requests |-> KeptFor(b)]
  BY <1>0, <1>1, <1>2
<1>5. \A b \in B : [x \in Requests |-> StatusOf(x)][b] = "active"
  BY <1>1
<1>. QED  BY <1>3, <1>4, <1>5 DEF Lifecycle!Close

LEMMA LifecycleSell ==
  ASSUME MoneyInv, MoneyInv', NEW r \in Requests, BookSeat(r)
  PROVE  Lifecycle!Sell(r)
<1>. DEFINE price == Price[call[r].package]
<1>0. LockInv /\ TypeInv /\ bookings[r] = Null /\ bookings'[r] # Null
  BY InsertedRow DEF MoneyInv, LockInv
<1>1. /\ bookings'[r] = NewBooking(r, "active", price, orm[r].until)
      /\ \A b \in Requests \ {r} : bookings'[b] = bookings[b]
  BY <1>0 DEF BookSeat, TypeInv, TypeOK, TablesType
<1>2. call[r].package \in Packages /\ price # 0
  BY <1>0, Typed, CallFields DEF BookSeat, Debit, DebitRaises, Doing
<1>3. StatusOf(r) = "none" /\ StatusOf(r)' = "active" /\ Worth(r)' = price
  BY <1>0, <1>1 DEF StatusOf, Worth, NewBooking
<1>4. price \in {Price[k] : k \in Packages} \ {0}
  BY <1>2
<1>. HIDE DEF price
<1>. QED  BY <1>1, <1>3, <1>4, OneRowWritten DEF Lifecycle!Sell

LEMMA LifecycleAsk ==
  ASSUME MoneyInv, MoneyInv', NEW r \in Requests, CreateRequest(r)
  PROVE  Lifecycle!Ask(r)
<1>. DEFINE deposit == Deposit(ClubOf[call[r].pc])
<1>0. LockInv /\ TypeInv /\ bookings[r] = Null /\ bookings'[r] # Null
  BY InsertedRow DEF MoneyInv, LockInv
<1>1. /\ bookings'[r] = NewBooking(r, "pending", deposit, call[r].endsAt)
      /\ \A b \in Requests \ {r} : bookings'[b] = bookings[b]
  BY <1>0 DEF CreateRequest, TypeInv, TypeOK, TablesType
<1>2. ClubOf[call[r].pc] \in Clubs
  BY <1>0, Typed, CallFields, TablesAssumption DEF CreateRequest, Doing
<1>3. StatusOf(r) = "none" /\ StatusOf(r)' = "pending" /\ Worth(r)' = deposit
  BY <1>0, <1>1 DEF StatusOf, Worth, NewBooking
<1>4. deposit \in {Deposit(c) : c \in Clubs}
  BY <1>2
<1>. HIDE DEF deposit
<1>. QED  BY <1>1, <1>3, <1>4, OneRowWritten DEF Lifecycle!Ask

(* The decision of a manager: on a request that is still pending.          *)
LEMMA LifecycleDecide ==
  ASSUME MoneyInv, MoneyInv', NEW r \in Requests, Confirm(r) \/ Reject(r)
  PROVE  \E b \in Requests : Lifecycle!Confirm(b) \/ Lifecycle!Reject(b)
<1>0. LockInv /\ TypeInv /\ at[r] = "commit" /\ call[r].op \in Moderating
  BY DEF MoneyInv, LockInv, Confirm, Reject, Doing, Moderating
<1>1. PICK b \in Requests : b = call[r].booking
  BY <1>0, Typed, CallFields
<1>2. bookings[b] # Null /\ bookings[b].status = "pending" /\ bookings[b] \in BookingRow
  BY <1>0, <1>1, Typed DEF HandlerOk, MoneyInv, PendingInv, StillPending, Doing, TypeInv, TypeOK,
                           TablesType
<1>3. ASSUME NEW how \in {"active", "rejected"},
             bookings' = [bookings EXCEPT ![b].status = how]
      PROVE  /\ StatusOf(b) = "pending" /\ StatusOf(b)' = how
             /\ Worth(b)' = IF how = "active" THEN Worth(b) ELSE 0
             /\ \A x \in Requests \ {b} : bookings'[x] = bookings[x]
  <2>1. /\ bookings'[b] = [bookings[b] EXCEPT !.status = how]
        /\ \A x \in Requests \ {b} : bookings'[x] = bookings[x]
    BY <1>0, <1>3 DEF TypeInv, TypeOK, TablesType
  <2>2. /\ bookings'[b] \in BookingRow /\ bookings'[b].status = how
        /\ bookings'[b].paid = bookings[b].paid
    BY <1>2, <2>1 DEF BookingRow, BookingStatus
  <2>3. bookings'[b] # Null
    BY <2>2, NamesAssumption
  <2>. QED  BY <1>2, <2>1, <2>2, <2>3 DEF StatusOf, Worth
<1>4. CASE Confirm(r)
  <2>1. bookings' = [bookings EXCEPT ![b].status = "active"]
    BY <1>1, <1>4 DEF Confirm
  <2>2. /\ StatusOf(b) = "pending" /\ StatusOf(b)' = "active"
        /\ Worth(b)' = Worth(b) /\ KeptFor(b) = Worth(b)
        /\ \A x \in Requests \ {b} : bookings'[x] = bookings[x]
    BY <1>3, <2>1, KeptIsWorth
  <2>3. [x \in Requests |-> KeptFor(x)]' = [x \in Requests |-> KeptFor(x)]
    BY <2>2, OneRowWritten
  <2>4. Lifecycle!Confirm(b)
    BY <2>2, <2>3, OneRowWritten DEF Lifecycle!Confirm
  <2>. QED  BY <2>4
<1>5. CASE Reject(r)
  <2>1. bookings' = [bookings EXCEPT ![b].status = "rejected"]
    BY <1>1, <1>5 DEF Reject
  <2>2. Lifecycle!Reject(b)
    BY <1>3, <2>1, OneRowWritten DEF Lifecycle!Reject
  <2>. QED  BY <2>2
<1>. QED  BY <1>4, <1>5

LEMMA LifecycleStep ==
  ASSUME MoneyInv, MoneyInv', [Next]_vars
  PROVE  [Lifecycle!Next]_(Lifecycle!lifecycle)
<1>1. CASE UNCHANGED bookings
  <2>1. \A b \in Requests : StatusOf(b)' = StatusOf(b) /\ Worth(b)' = Worth(b)
    BY <1>1 DEF StatusOf, Worth
  <2>2. \A b \in Requests : KeptFor(b)' = KeptFor(b)
    BY <2>1, KeptIsWorth, KeptIsWorthNext
  <2>3. UNCHANGED Lifecycle!lifecycle
    BY <2>1, <2>2 DEF Lifecycle!lifecycle
  <2>. QED  BY <2>3
<1>2. ASSUME NEW r \in Requests, BookSeat(r) \/ CreateRequest(r)  PROVE Lifecycle!Next
  BY <1>2, LifecycleSell, LifecycleAsk DEF Lifecycle!Next
<1>3. ASSUME NEW r \in Requests, Confirm(r) \/ Reject(r)  PROVE Lifecycle!Next
  BY <1>3, LifecycleDecide DEF Lifecycle!Next
<1>4. ASSUME NEW r \in Requests, SetSeat(r)  PROVE Lifecycle!Next
  <2>. DEFINE B == {b \in Requests : lockedBy[b] = r}
  <2>1. \A b \in Requests : lockedBy[b] = r => bookings[b].status = "active"
    BY <1>4, NamesAssumption DEF MoneyInv, LockerInv, SetSeat, Doing, Moderating
  <2>2. r \in Holders /\ bookings' = ClosedBy(r, "completed")
    BY <1>4 DEF SetSeat, Holders
  <2>3. Lifecycle!Close(B, "completed") /\ B \in SUBSET Requests
    BY <2>1, <2>2, LifecycleClose
  <2>. HIDE DEF B
  <2>. QED  BY <2>3 DEF Lifecycle!Next
<1>5. CASE CommitExpired
  <2>. DEFINE B == {b \in Requests : lockedBy[b] = Cleaner}
  <2>1. \A b \in Requests : lockedBy[b] = Cleaner => bookings[b].status = "active"
    BY NamesAssumption DEF MoneyInv, LockerInv
  <2>2. Cleaner \in Holders /\ bookings' = ClosedBy(Cleaner, "expired")
    BY <1>5 DEF CommitExpired, ClosedBy, Holders
  <2>3. Lifecycle!Close(B, "expired") /\ B \in SUBSET Requests
    BY <2>1, <2>2, LifecycleClose
  <2>. HIDE DEF B
  <2>. QED  BY <2>3 DEF Lifecycle!Next
<1>. QED  BY <1>1, <1>2, <1>3, <1>4, <1>5, WhoWritesBookings

(* Every behaviour of the handlers is one of BookingLifecycle: whatever    *)
(* overlaps, fails or is retried, a booking is confirmed or rejected once, *)
(* never comes back once it is rejected or over, and what the ledger keeps *)
(* for it changes with its decision and with nothing else.                 *)
THEOREM LifecycleIsImplemented == Spec => BookingsFollowLifecycle
<1>1. Init => Lifecycle!Init
  BY LifecycleInit
<1>2. MoneyInv /\ MoneyInv' /\ [Next]_vars => [Lifecycle!Next]_(Lifecycle!lifecycle)
  BY LifecycleStep
<1>. QED
  BY <1>1, <1>2, MoneyInvariant, PTL DEF Spec, BookingsFollowLifecycle, Lifecycle!Spec

=============================================================================
