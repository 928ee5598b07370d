--------------------------- MODULE GameClubsProofs --------------------------
(***************************************************************************)
(* Proofs about GameClubs for every value of its constants: its types, and *)
(* what its row locks are worth.  The argument about the locks: a handler  *)
(* that has gone past the SELECT ... FOR UPDATE of a row holds its lock    *)
(* (HoldInv), nobody but the holder gives a lock up, and nobody takes one  *)
(* that is held.                                                           *)
(***************************************************************************)
EXTENDS GameClubs, TLAPS

-----------------------------------------------------------------------------
(* The strengthening that makes the type invariant inductive.              *)

Moderating == {"confirm_request", "reject_request"}

(* A handler is where its operation can be, and the rows it has found      *)
(* exist: no table loses a row.                                            *)
HandlerOk(r) ==
    /\ at[r] # "new" => call[r] \in CallType
    /\ at[r] = "user" => call[r].op \in {"book_seat", "create_booking_request", "buy_product"}
    /\ at[r] = "booking" => call[r].op = "confirm_request"
    /\ at[r] = "refund" => call[r].op = "reject_request"
    /\ at[r] \in {"update", "flush"} => call[r].op \in {"free_seat", "update_computer_status"}
    /\ at[r] = "send" => call[r].op \in {"book_seat", "free_seat"}
    /\ at[r] \in {"booking", "refund", "commit"} /\ call[r].op \in Moderating =>
         bookings[call[r].booking] # Null
    /\ at[r] = "commit" /\ call[r].op = "complete_order" => orders[call[r].order] # Null

HandlerInv == \A r \in Requests : HandlerOk(r)

(* What a handler is about to write is what its checks let through.        *)
CheckedOk(r) ==
  at[r] = "commit" =>
    /\ call[r].op = "book_seat" => orm[r].balance >= Price[call[r].package]
    /\ call[r].op = "create_booking_request" =>
         orm[r].balance >= Deposit(ClubOf[call[r].pc])
    /\ call[r].op = "buy_product" => orm[r].balance >= ProductPrice[call[r].product]
    /\ call[r].op \in {"kaspi_test_top_up", "top_up_balance"} => call[r].amount >= 0

CheckedInv == \A r \in Requests : CheckedOk(r)

(* Only bookings that have been inserted are locked.                       *)
LockedRowsInv == \A b \in Requests : lockedBy[b] # Null => bookings[b] # Null

TypeInv == TypeOK /\ HandlerInv /\ CheckedInv /\ LockedRowsInv

-----------------------------------------------------------------------------
(* Operators.                                                              *)

LEMMA CallFields ==
  ASSUME NEW c \in CallType
  PROVE  /\ c.actor \in Users
         /\ c.op \in {"book_seat", "free_seat", "create_booking_request",
                      "update_computer_status"} => c.pc \in Pcs
         /\ c.op = "book_seat" => c.package \in Packages
         /\ c.op = "create_booking_request" => c.endsAt \in Nat \cup {Null}
         /\ c.op \in Moderating => c.booking \in Requests
         /\ c.op = "update_computer_status" => c.status \in PcStatus
         /\ c.op = "buy_product" => c.product \in Products
         /\ c.op = "complete_order" => c.order \in Requests
         /\ c.op \in {"kaspi_test_top_up", "top_up_balance"} => c.amount \in Int
         /\ c.op = "top_up_balance" => c.user \in Users
         /\ c.op \in {"block_club", "restore_club"} => c.club \in Clubs
  BY DEF CallType, Moderating

LEMMA DepositTyped == \A c \in Clubs : Deposit(c) \in Nat
  BY TablesAssumption DEF Deposit

(* The rows each statement locks.                                          *)
LEMMA NeedsOf ==
  ASSUME NEW r
  PROVE  /\ Doing(r, {"buy_product", "kaspi_test_top_up", "book_seat",
                      "create_booking_request"}, "start") => Needs(r) = {call[r].actor}
         /\ Doing(r, {"top_up_balance"}, "start") => Needs(r) = {call[r].user}
         /\ Doing(r, Moderating, "start") => Needs(r) = {call[r].booking}
         /\ Doing(r, {"book_seat", "create_booking_request"}, "user") =>
              Needs(r) = {call[r].pc}
         /\ at[r] = "booking" => Needs(r) = {bookings[call[r].booking].pc}
         /\ at[r] = "refund" => Needs(r) = {bookings[call[r].booking].user}
         /\ at[r] = "update" => Needs(r) = ActiveOn(call[r].pc)
         /\ at[r] = "flush" => Needs(r) \subseteq {call[r].pc}
  BY DEF Needs, Doing, LockOrder, Moderating

-----------------------------------------------------------------------------
(* Each action preserves TypeInv.                                          *)

LEMMA InitTypeInv == Init => TypeInv
  BY TablesAssumption, NamesAssumption
  DEF Init, TablesInit, TypeInv, TypeOK, TablesType, HandlerInv, HandlerOk, CheckedInv,
      CheckedOk, LockedRowsInv, Doing, Phases, Answers, OrmType, EmptyOrm, FreePc, PcRow,
      PcStatus, ClubStatus, NoSweep, SweepType, Rows, Holders, Moderating

(* A step of one request leaves the others where they are.                 *)
OthersStay(r) ==
  /\ \A s \in Requests \ {r} : at'[s] = at[s] /\ call'[s] = call[s] /\ orm'[s] = orm[s]
  /\ \A b \in Requests : /\ bookings[b] # Null => bookings'[b] # Null
                         /\ orders[b] # Null => orders'[b] # Null

LEMMA StepTypeInv ==
  ASSUME TypeInv, NEW r \in Requests, OthersStay(r),
         TypeOK', HandlerOk(r)', CheckedOk(r)', LockedRowsInv'
  PROVE  TypeInv'
<1>1. ASSUME NEW s \in Requests \ {r}  PROVE HandlerOk(s)'
  <2>1. HandlerOk(s) /\ at'[s] = at[s] /\ call'[s] = call[s]
    BY DEF TypeInv, HandlerInv, OthersStay
  <2>2. at[s] # "new" =>
          /\ call[s].op \in Moderating => call[s].booking \in Requests
          /\ call[s].op = "complete_order" => call[s].order \in Requests
    BY <2>1, CallFields DEF HandlerOk
  <2>. QED  BY <2>1, <2>2 DEF HandlerOk, OthersStay
<1>2. ASSUME NEW s \in Requests \ {r}  PROVE CheckedOk(s)'
  BY DEF TypeInv, CheckedInv, OthersStay, CheckedOk, Deposit
<1>. QED  BY <1>1, <1>2 DEF TypeInv, HandlerInv, CheckedInv

LEMMA RefuseTypeInv ==
  ASSUME TypeInv, NEW r \in Requests, NEW a \in Answers, Refuse(r, a), at[r] # "new"
  PROVE  TypeInv'
<1>1. TypeOK'
  BY NamesAssumption
  DEF TypeInv, TypeOK, TablesType, Refuse, Released, tables, outside, Phases, OrmType, EmptyOrm,
      FreePc, PcRow, PcStatus, ClubStatus, Rows, Holders
<1>2. at'[r] = "done" /\ call' = call /\ OthersStay(r)
  BY DEF TypeInv, TypeOK, TablesType, OthersStay, Refuse, tables
<1>3. HandlerOk(r)' /\ CheckedOk(r)'
  BY <1>2 DEF TypeInv, HandlerInv, HandlerOk, CheckedOk
<1>4. LockedRowsInv'
  BY DEF TypeInv, TypeOK, TablesType, LockedRowsInv, Refuse, Released, tables, Rows
<1>. QED  BY <1>1, <1>2, <1>3, <1>4, StepTypeInv

LEMMA ArriveTypeInv ==
  ASSUME TypeInv, NEW r \in Requests, NEW c \in Calls[r], Arrive(r, c)
  PROVE  TypeInv'
<1>0. c \in CallType /\ c.actor \in Users
  BY TablesAssumption, CallFields
<1>1. TypeOK'
  BY <1>0 DEF TypeInv, TypeOK, TablesType, Arrive, tables, outside, Phases, OrmType
<1>2. at'[r] = "start" /\ call'[r] = c /\ OthersStay(r)
  BY DEF TypeInv, TypeOK, TablesType, OthersStay, Arrive, tables
<1>3. HandlerOk(r)' /\ CheckedOk(r)'
  BY <1>0, <1>2 DEF HandlerOk, CheckedOk
<1>4. LockedRowsInv'
  BY DEF TypeInv, LockedRowsInv, Arrive, tables
<1>. QED  BY <1>1, <1>2, <1>3, <1>4, StepTypeInv

(* The handler goes on, with one more statement's locks or without.        *)
LEMMA ProceedTypeInv ==
  ASSUME TypeInv, NEW r \in Requests, NEW phase \in Phases, phase # "new",
         Proceed(r, phase), at[r] # "new",
         \/ UNCHANGED lockedBy
         \/ /\ lockedBy' = LockNeeded(r)
            /\ \A b \in Requests : b \in Needs(r) => bookings[b] # Null,
         NEW o \in OrmType, orm' = [orm EXCEPT ![r] = o],
         HandlerOk(r)', CheckedOk(r)'
  PROVE  TypeInv'
<1>1. TypeOK'
  BY DEF TypeInv, TypeOK, TablesType, Proceed, LockNeeded, tables, outside, Rows, Holders
<1>2. OthersStay(r)
  BY DEF TypeInv, TypeOK, TablesType, OthersStay, Proceed, tables
<1>3. LockedRowsInv'
  BY DEF TypeInv, TypeOK, TablesType, LockedRowsInv, LockNeeded, Proceed, tables, Rows
<1>. QED  BY <1>1, <1>2, <1>3, StepTypeInv

(* The transaction commits rows of the right types and deletes none.       *)
LEMMA CommitTypeInv ==
  ASSUME TypeInv, NEW r \in Requests, NEW phase \in {"send", "done"}, Commit(r, phase),
         at[r] = "commit",
         phase = "send" => call[r].op \in {"book_seat", "free_seat"},
         balance' \in [Users -> Nat], pcs' \in [Pcs -> PcRow],
         clubs' \in [Clubs -> ClubStatus],
         bookings' \in [Requests -> BookingRow \cup {Null}],
         orders' \in [Requests -> OrderRow \cup {Null}],
         payments' \in [Requests -> PaymentRow \cup {Null}],
         ledger' \in Seq(LedgerRow),
         \A b \in Requests : /\ bookings[b] # Null => bookings'[b] # Null
                             /\ orders[b] # Null => orders'[b] # Null
  PROVE  TypeInv'
<1>1. EmptyOrm \in OrmType
  BY DEF EmptyOrm, OrmType, FreePc, PcRow, PcStatus, ClubStatus
<1>2. TypeOK'
  BY <1>1 DEF TypeInv, TypeOK, TablesType, Commit, Released, outside, Phases, Answers, Rows,
              Holders
<1>3. at'[r] = phase /\ call' = call /\ OthersStay(r)
  BY DEF TypeInv, TypeOK, TablesType, OthersStay, Commit
<1>4. HandlerOk(r)' /\ CheckedOk(r)'
  BY <1>3 DEF TypeInv, HandlerInv, HandlerOk, CheckedOk
<1>5. LockedRowsInv'
  BY DEF TypeInv, TypeOK, TablesType, LockedRowsInv, Commit, Released, Rows
<1>. QED  BY <1>2, <1>3, <1>4, <1>5, StepTypeInv

(* core/finance.py appends a row and sets the balance to what it says.     *)
LEMMA RecordTyped ==
  ASSUME TypeOK, NEW u \in Users, NEW actor \in Users \cup {Null}, NEW amount \in Int,
         NEW after \in Nat, NEW kind \in Kinds, NEW ref \in Requests \cup {Null},
         Record(u, actor, amount, after, kind, ref)
  PROVE  balance' \in [Users -> Nat] /\ ledger' \in Seq(LedgerRow)
  BY DEF TypeOK, TablesType, Record, LedgerRow

LEMMA DebitTyped ==
  ASSUME TypeOK, NEW r \in Requests, NEW u \in Users, NEW amount \in Nat, NEW kind \in Kinds,
         orm[r].balance - amount \in Nat, Debit(r, u, amount, kind, r)
  PROVE  balance' \in [Users -> Nat] /\ ledger' \in Seq(LedgerRow)
<1>1. -amount \in Int
  OBVIOUS
<1>2. Record(u, Null, -amount, orm[r].balance - amount, kind, r)
  BY DEF Debit
<1>. QED  BY <1>1, <1>2, RecordTyped

LEMMA CreditTyped ==
  ASSUME TypeOK, NEW r \in Requests, NEW u \in Users, NEW actor \in Users \cup {Null},
         NEW amount \in Nat, NEW kind \in Kinds, NEW ref \in Requests \cup {Null},
         Credit(r, u, actor, amount, kind, ref)
  PROVE  balance' \in [Users -> Nat] /\ ledger' \in Seq(LedgerRow)
<1>1. amount \in Int /\ orm[r].balance + amount \in Nat
  BY DEF TypeOK, TablesType, OrmType
<1>2. Record(u, actor, amount, orm[r].balance + amount, kind, ref)
  BY DEF Credit
<1>. QED  BY <1>1, <1>2, RecordTyped

(* The rows of the tables, one request's call and its session are typed.   *)
LEMMA Typed ==
  ASSUME TypeInv, NEW r \in Requests, at[r] # "new"
  PROVE  /\ call[r] \in CallType
         /\ HandlerOk(r) /\ CheckedOk(r)
         /\ orm[r] \in OrmType /\ orm = [orm EXCEPT ![r] = orm[r]]
         /\ \A b \in Requests : bookings[b] # Null =>
              bookings[b] \in BookingRow /\ bookings[b].user \in Users /\ bookings[b].pc \in Pcs
         /\ \A p \in Pcs : pcs[p] \in PcRow
  BY DEF TypeInv, TypeOK, TablesType, HandlerInv, HandlerOk, CheckedInv, BookingRow

-----------------------------------------------------------------------------
(* BookingService, action by action.                                       *)

LEMMA LockActiveUserTypeInv ==
  ASSUME TypeInv, NEW r \in Requests,
         NEW ops \in SUBSET {"book_seat", "create_booking_request", "buy_product"},
         LockActiveUser(r, ops)
  PROVE  TypeInv'
<1>1. at[r] = "start" /\ call[r].op \in ops
  BY DEF LockActiveUser, Doing
<1>2. Needs(r) = {call[r].actor}
  BY <1>1, NeedsOf DEF Doing
<1>3. \A b \in Requests : b \in Needs(r) => bookings[b] # Null
  BY <1>1, <1>2, Typed, CallFields, NamesAssumption
<1>4. at'[r] = "user" /\ call' = call
  BY DEF LockActiveUser, Proceed, TypeInv, TypeOK, TablesType
<1>5. HandlerOk(r)' /\ CheckedOk(r)'
  BY <1>1, <1>4, Typed DEF HandlerOk, CheckedOk
<1>. QED
  BY <1>1, <1>3, <1>5, Typed, ProceedTypeInv DEF LockActiveUser, Phases

LEMMA CheckSeatTypeInv ==
  ASSUME TypeInv, NEW r \in Requests, CheckSeat(r)
  PROVE  TypeInv'
<1>1. at[r] = "user" /\ call[r].op = "book_seat"
  BY DEF CheckSeat, Doing
<1>2. CASE Refuse(r, BookingVerdict(r))
  <2>1. BookingVerdict(r) \in Answers
    BY DEF BookingVerdict, Answers
  <2>. QED  BY <1>1, <1>2, <2>1, RefuseTypeInv
<1>3. CASE /\ BookingVerdict(r) = "ok"
           /\ lockedBy' = LockNeeded(r)
           /\ orm' = [orm EXCEPT ![r].until = now + Minutes[call[r].package]]
           /\ Proceed(r, "commit")
  <2>1. call[r].pc \in Pcs /\ call[r].package \in Packages
    BY <1>1, Typed, CallFields
  <2>2. \A b \in Requests : b \in Needs(r) => bookings[b] # Null
    BY <1>1, <2>1, NeedsOf, NamesAssumption DEF Doing
  <2>3. PICK o \in OrmType : orm' = [orm EXCEPT ![r] = o] /\ o.balance = orm[r].balance
    <3>1. now + Minutes[call[r].package] \in Nat
      BY <2>1, TablesAssumption DEF TypeInv, TypeOK, TablesType
    <3>. DEFINE o == [orm[r] EXCEPT !.until = now + Minutes[call[r].package]]
    <3>2. o \in OrmType /\ o.balance = orm[r].balance
      BY <1>1, <3>1, Typed DEF OrmType
    <3>. QED  BY <1>3, <3>2
  <2>4. at'[r] = "commit" /\ call' = call /\ orm'[r] = o
    BY <1>3, <2>3 DEF Proceed, TypeInv, TypeOK, TablesType
  <2>5. orm[r].balance >= Price[call[r].package]
    <3>1. orm[r].balance \in Nat /\ Price[call[r].package] \in Nat
      BY <1>1, <2>1, Typed, TablesAssumption DEF OrmType
    <3>. QED  BY <1>3, <3>1 DEF BookingVerdict
  <2>6. HandlerOk(r)' /\ CheckedOk(r)'
    BY <1>1, <2>3, <2>4, <2>5, Typed DEF HandlerOk, CheckedOk, Moderating
  <2>. QED
    BY <1>1, <1>3, <2>2, <2>3, <2>6, ProceedTypeInv DEF Phases
<1>. QED  BY <1>2, <1>3 DEF CheckSeat

LEMMA BookSeatTypeInv ==
  ASSUME TypeInv, NEW r \in Requests, BookSeat(r)
  PROVE  TypeInv'
<1>. DEFINE c == call[r]
<1>1. at[r] = "commit" /\ c.op = "book_seat"
  BY DEF BookSeat, Doing
<1>2. c.actor \in Users /\ c.pc \in Pcs /\ c.package \in Packages
  BY <1>1, Typed, CallFields
<1>3. /\ orm[r].until \in Nat /\ Price[c.package] \in Nat
      /\ orm[r].balance - Price[c.package] \in Nat
  BY <1>1, <1>2, Typed, TablesAssumption DEF CheckedOk, OrmType
<1>4. balance' \in [Users -> Nat] /\ ledger' \in Seq(LedgerRow)
  BY <1>2, <1>3, DebitTyped DEF TypeInv, BookSeat, Kinds
<1>5. pcs' \in [Pcs -> PcRow]
  BY <1>2, <1>3 DEF BookSeat, TypeInv, TypeOK, TablesType, PcRow, PcStatus
<1>6. /\ bookings' \in [Requests -> BookingRow \cup {Null}]
      /\ \A b \in Requests : bookings[b] # Null => bookings'[b] # Null
  <2>1. NewBooking(r, "active", Price[c.package], orm[r].until) \in BookingRow
    BY <1>2, <1>3 DEF NewBooking, BookingRow, BookingStatus
  <2>. QED
    BY <2>1, NamesAssumption DEF BookSeat, TypeInv, TypeOK, TablesType
<1>7. UNCHANGED <<clubs, orders, payments>> /\ Commit(r, "send")
  BY DEF BookSeat
<1>. QED
  BY <1>1, <1>4, <1>5, <1>6, <1>7, CommitTypeInv DEF TypeInv, TypeOK, TablesType

LEMMA ReadSeatTypeInv ==
  ASSUME TypeInv, NEW r \in Requests, ReadSeat(r)
  PROVE  TypeInv'
<1>. DEFINE c == call[r]
            phase == IF c.op = "free_seat" \/ c.status = "free" THEN "update" ELSE "flush"
<1>1. at[r] = "start" /\ c.op \in {"free_seat", "update_computer_status"}
  BY DEF ReadSeat, Doing
<1>2. CASE Refuse(r, "403")
  BY <1>1, <1>2, RefuseTypeInv DEF Answers
<1>3. CASE /\ orm' = [orm EXCEPT ![r].pc = pcs[c.pc], ![r].club = clubs[ClubOf[c.pc]]]
           /\ UNCHANGED lockedBy
           /\ Proceed(r, phase)
  <2>1. c.pc \in Pcs /\ ClubOf[c.pc] \in Clubs
    BY <1>1, Typed, CallFields, TablesAssumption
  <2>2. PICK o \in OrmType : orm' = [orm EXCEPT ![r] = o]
    <3>. DEFINE o == [orm[r] EXCEPT !.pc = pcs[c.pc], !.club = clubs[ClubOf[c.pc]]]
    <3>1. orm[r] \in OrmType /\ pcs[c.pc] \in PcRow /\ clubs[ClubOf[c.pc]] \in ClubStatus
      BY <1>1, <2>1, Typed DEF TypeInv, TypeOK, TablesType
    <3>2. o \in OrmType
      BY <3>1 DEF OrmType
    <3>. QED  BY <1>3, <3>2
  <2>3. at'[r] = phase /\ call' = call
    BY <1>3 DEF Proceed, TypeInv, TypeOK, TablesType
  <2>4. HandlerOk(r)' /\ CheckedOk(r)'
    BY <1>1, <2>3, Typed DEF HandlerOk, CheckedOk, Moderating
  <2>. QED
    BY <1>1, <1>3, <2>2, <2>4, ProceedTypeInv DEF Phases
<1>. QED  BY <1>2, <1>3 DEF ReadSeat

LEMMA CloseActiveBookingsTypeInv ==
  ASSUME TypeInv, NEW r \in Requests, CloseActiveBookings(r)
  PROVE  TypeInv'
<1>1. at[r] = "update"
  BY DEF CloseActiveBookings
<1>2. \A b \in Requests : b \in Needs(r) => bookings[b] # Null
  BY <1>1, NeedsOf DEF ActiveOn
<1>3. at'[r] = "flush" /\ call' = call
  BY DEF CloseActiveBookings, Proceed, TypeInv, TypeOK, TablesType
<1>4. HandlerOk(r)' /\ CheckedOk(r)'
  BY <1>1, <1>3, Typed DEF HandlerOk, CheckedOk, Moderating
<1>. QED
  BY <1>1, <1>2, <1>4, Typed, ProceedTypeInv DEF CloseActiveBookings, Phases

LEMMA FlushSeatTypeInv ==
  ASSUME TypeInv, NEW r \in Requests, FlushSeat(r)
  PROVE  TypeInv'
<1>1. at[r] = "flush" /\ call[r].op \in {"free_seat", "update_computer_status"}
  BY Typed DEF FlushSeat, HandlerOk
<1>2. \A b \in Requests : b \in Needs(r) => bookings[b] # Null
  <2>1. call[r].pc \in Pcs
    BY <1>1, Typed, CallFields
  <2>. QED  BY <1>1, <2>1, NeedsOf, NamesAssumption
<1>3. at'[r] = "commit" /\ call' = call
  BY DEF FlushSeat, Proceed, TypeInv, TypeOK, TablesType
<1>4. HandlerOk(r)' /\ CheckedOk(r)'
  BY <1>1, <1>3, Typed DEF HandlerOk, CheckedOk, Moderating
<1>. QED
  BY <1>1, <1>2, <1>4, Typed, ProceedTypeInv DEF FlushSeat, Phases

(* Closing bookings changes the status of rows that exist.                 *)
LEMMA ClosedByTyped ==
  ASSUME TypeInv, NEW h \in Holders, NEW status \in BookingStatus
  PROVE  /\ ClosedBy(h, status) \in [Requests -> BookingRow \cup {Null}]
         /\ \A b \in Requests : bookings[b] # Null => ClosedBy(h, status)[b] # Null
<1>1. ASSUME NEW b \in Requests, lockedBy[b] = h
      PROVE  /\ bookings[b] \in BookingRow
             /\ [bookings[b] EXCEPT !.status = status] \in BookingRow
  <2>1. h # Null
    BY NamesAssumption DEF Holders
  <2>2. bookings[b] \in BookingRow
    BY <1>1, <2>1 DEF TypeInv, TypeOK, TablesType, LockedRowsInv
  <2>. QED  BY <2>2 DEF BookingRow
<1>. QED
  BY <1>1, NamesAssumption DEF ClosedBy, TypeInv, TypeOK, TablesType

LEMMA SetSeatTypeInv ==
  ASSUME TypeInv, NEW r \in Requests, SetSeat(r)
  PROVE  TypeInv'
<1>. DEFINE c == call[r]
            phase == IF c.op = "free_seat" THEN "send" ELSE "done"
<1>1. at[r] = "commit" /\ c.op \in {"free_seat", "update_computer_status"}
  BY DEF SetSeat, Doing
<1>2. c.pc \in Pcs /\ (c.op = "update_computer_status" => c.status \in PcStatus)
  BY <1>1, Typed, CallFields
<1>3. PcSetBy(r) \in PcRow
  BY <1>1, <1>2, Typed DEF PcSetBy, OrmType, PcRow, FreePc, PcStatus
<1>4. FlushedPc(c.pc, orm[r].pc, PcSetBy(r)) \in PcRow
  BY <1>1, <1>2, <1>3, Typed DEF FlushedPc, Column, PcRow
<1>5. pcs' \in [Pcs -> PcRow]
  BY <1>2, <1>4 DEF SetSeat, TypeInv, TypeOK, TablesType
<1>6. /\ bookings' \in [Requests -> BookingRow \cup {Null}]
      /\ \A b \in Requests : bookings[b] # Null => bookings'[b] # Null
  BY ClosedByTyped DEF SetSeat, Holders, BookingStatus
<1>7. Commit(r, phase) /\ UNCHANGED <<balance, clubs, orders, payments, ledger>>
  BY DEF SetSeat
<1>. QED
  BY <1>1, <1>5, <1>6, <1>7, CommitTypeInv DEF TypeInv, TypeOK, TablesType

LEMMA CheckRequestTypeInv ==
  ASSUME TypeInv, NEW r \in Requests, CheckRequest(r)
  PROVE  TypeInv'
<1>. DEFINE c == call[r]
<1>1. at[r] = "user" /\ c.op = "create_booking_request"
  BY DEF CheckRequest, Doing
<1>2. CASE Refuse(r, RequestVerdict(r))
  <2>1. RequestVerdict(r) \in Answers
    BY DEF RequestVerdict, Answers
  <2>. QED  BY <1>1, <1>2, <2>1, RefuseTypeInv
<1>3. CASE /\ RequestVerdict(r) = "ok"
           /\ lockedBy' = LockNeeded(r)
           /\ UNCHANGED orm
           /\ Proceed(r, "commit")
  <2>1. c.pc \in Pcs /\ ClubOf[c.pc] \in Clubs
    BY <1>1, Typed, CallFields, TablesAssumption
  <2>2. \A b \in Requests : b \in Needs(r) => bookings[b] # Null
    BY <1>1, <2>1, NeedsOf, NamesAssumption DEF Doing
  <2>3. at'[r] = "commit" /\ call' = call /\ orm' = orm
    BY <1>3 DEF Proceed, TypeInv, TypeOK, TablesType
  <2>4. orm[r].balance >= Deposit(ClubOf[c.pc])
    <3>1. orm[r].balance \in Nat /\ Deposit(ClubOf[c.pc]) \in Nat
      BY <1>1, <2>1, Typed, DepositTyped DEF OrmType
    <3>. QED  BY <1>3, <3>1 DEF RequestVerdict
  <2>5. HandlerOk(r)' /\ CheckedOk(r)'
    BY <1>1, <2>3, <2>4, Typed DEF HandlerOk, CheckedOk, Moderating, Deposit
  <2>. QED
    BY <1>1, <1>3, <2>2, <2>5, Typed, ProceedTypeInv DEF Phases
<1>. QED  BY <1>2, <1>3 DEF CheckRequest

LEMMA CreateRequestTypeInv ==
  ASSUME TypeInv, NEW r \in Requests, CreateRequest(r)
  PROVE  TypeInv'
<1>. DEFINE c == call[r]
            deposit == Deposit(ClubOf[c.pc])
<1>1. at[r] = "commit" /\ c.op = "create_booking_request"
  BY DEF CreateRequest, Doing
<1>2. /\ c.actor \in Users /\ c.pc \in Pcs /\ ClubOf[c.pc] \in Clubs
      /\ c.endsAt \in Nat \cup {Null}
  BY <1>1, Typed, CallFields, TablesAssumption
<1>3. deposit \in Nat /\ orm[r].balance - deposit \in Nat
  BY <1>1, <1>2, Typed, DepositTyped DEF CheckedOk, OrmType
<1>4. balance' \in [Users -> Nat] /\ ledger' \in Seq(LedgerRow)
  <2>1. CASE Debit(r, c.actor, deposit, "booking_deposit", r)
    BY <1>2, <1>3, <2>1, DebitTyped DEF TypeInv, Kinds
  <2>2. CASE UNCHANGED <<balance, ledger>>
    BY <2>2 DEF TypeInv, TypeOK, TablesType
  <2>. QED  BY <2>1, <2>2 DEF CreateRequest
<1>5. /\ bookings' \in [Requests -> BookingRow \cup {Null}]
      /\ \A b \in Requests : bookings[b] # Null => bookings'[b] # Null
  <2>1. NewBooking(r, "pending", deposit, c.endsAt) \in BookingRow
    BY <1>2, <1>3 DEF NewBooking, BookingRow, BookingStatus
  <2>. QED
    BY <2>1, NamesAssumption DEF CreateRequest, TypeInv, TypeOK, TablesType
<1>6. Commit(r, "done") /\ UNCHANGED <<pcs, clubs, orders, payments>>
  BY DEF CreateRequest
<1>. QED
  BY <1>1, <1>4, <1>5, <1>6, CommitTypeInv DEF TypeInv, TypeOK, TablesType

LEMMA LockBookingTypeInv ==
  ASSUME TypeInv, NEW r \in Requests, LockBooking(r)
  PROVE  TypeInv'
<1>. DEFINE c == call[r]
<1>1. at[r] = "start" /\ c.op = "confirm_request"
  BY DEF LockBooking, Doing
<1>2. CASE Refuse(r, "404")
  BY <1>1, <1>2, RefuseTypeInv DEF Answers
<1>3. CASE /\ bookings[c.booking] # Null
           /\ lockedBy' = LockNeeded(r)
           /\ UNCHANGED orm
           /\ Proceed(r, "booking")
  <2>1. c.booking \in Requests /\ Needs(r) = {c.booking}
    BY <1>1, Typed, CallFields, NeedsOf DEF Doing, Moderating
  <2>2. at'[r] = "booking" /\ call' = call /\ UNCHANGED bookings
    BY <1>3 DEF Proceed, TypeInv, TypeOK, TablesType, tables
  <2>3. HandlerOk(r)' /\ CheckedOk(r)'
    BY <1>1, <1>3, <2>2, Typed DEF HandlerOk, CheckedOk
  <2>. QED
    BY <1>1, <1>3, <2>1, <2>3, Typed, ProceedTypeInv DEF Phases
<1>. QED  BY <1>2, <1>3 DEF LockBooking

LEMMA CheckConfirmTypeInv ==
  ASSUME TypeInv, NEW r \in Requests, CheckConfirm(r)
  PROVE  TypeInv'
<1>. DEFINE b == call[r].booking
            pc == bookings[b].pc
<1>1. at[r] = "booking" /\ call[r].op = "confirm_request"
  BY DEF CheckConfirm, Doing
<1>2. CASE Refuse(r, "403") \/ Refuse(r, "409")
  BY <1>1, <1>2, RefuseTypeInv DEF Answers
<1>3. CASE /\ lockedBy' = LockNeeded(r)
           /\ orm' = [orm EXCEPT ![r].pc = pcs[pc]]
           /\ Proceed(r, "commit")
  <2>1. b \in Requests /\ bookings[b] # Null /\ pc \in Pcs
    BY <1>1, Typed, CallFields DEF Moderating, HandlerOk
  <2>2. \A x \in Requests : x \in Needs(r) => bookings[x] # Null
    BY <1>1, <2>1, NeedsOf, NamesAssumption
  <2>3. PICK o \in OrmType : orm' = [orm EXCEPT ![r] = o]
    <3>. DEFINE o == [orm[r] EXCEPT !.pc = pcs[pc]]
    <3>1. orm[r] \in OrmType /\ pcs[pc] \in PcRow
      BY <1>1, <2>1, Typed
    <3>2. o \in OrmType
      BY <3>1 DEF OrmType
    <3>. QED  BY <1>3, <3>2
  <2>4. at'[r] = "commit" /\ call' = call /\ UNCHANGED bookings
    BY <1>3 DEF Proceed, TypeInv, TypeOK, TablesType, tables
  <2>5. HandlerOk(r)' /\ CheckedOk(r)'
    BY <1>1, <2>1, <2>4, Typed DEF HandlerOk, CheckedOk
  <2>. QED
    BY <1>1, <1>3, <2>2, <2>3, <2>5, ProceedTypeInv DEF Phases
<1>. QED  BY <1>2, <1>3 DEF CheckConfirm

(* The status of a booking that exists is changed.                         *)
LEMMA BookingStatusTyped ==
  ASSUME TypeInv, NEW b \in Requests, bookings[b] # Null, NEW status \in BookingStatus,
         bookings' = [bookings EXCEPT ![b].status = status]
  PROVE  /\ bookings' \in [Requests -> BookingRow \cup {Null}]
         /\ \A x \in Requests : bookings[x] # Null => bookings'[x] # Null
<1>. DEFINE row == [bookings[b] EXCEPT !.status = status]
<1>1. bookings[b] \in BookingRow
  BY DEF TypeInv, TypeOK, TablesType
<1>2. row \in BookingRow
  BY <1>1 DEF BookingRow
<1>3. row # Null
  BY <1>2, NamesAssumption
<1>4. bookings' = [bookings EXCEPT ![b] = row]
  OBVIOUS
<1>. QED  BY <1>2, <1>3, <1>4 DEF TypeInv, TypeOK, TablesType

LEMMA ConfirmTypeInv ==
  ASSUME TypeInv, NEW r \in Requests, Confirm(r)
  PROVE  TypeInv'
<1>. DEFINE b == call[r].booking
            pc == bookings[b].pc
<1>1. at[r] = "commit" /\ call[r].op = "confirm_request"
  BY DEF Confirm, Doing
<1>2. b \in Requests /\ bookings[b] # Null
  BY <1>1, Typed, CallFields DEF Moderating, HandlerOk
<1>3. pc \in Pcs /\ Holder(b) \in Users /\ bookings[b].endsAt \in Nat \cup {Null}
  BY <1>1, <1>2, Typed DEF Holder, BookingRow
<1>4. pcs' \in [Pcs -> PcRow]
  BY <1>3 DEF Confirm, TypeInv, TypeOK, TablesType, PcRow, PcStatus
<1>5. /\ bookings' \in [Requests -> BookingRow \cup {Null}]
      /\ \A x \in Requests : bookings[x] # Null => bookings'[x] # Null
  BY <1>2, BookingStatusTyped DEF Confirm, BookingStatus
<1>6. Commit(r, "done") /\ UNCHANGED <<balance, clubs, orders, payments, ledger>>
  BY DEF Confirm
<1>. QED
  BY <1>1, <1>4, <1>5, <1>6, CommitTypeInv DEF TypeInv, TypeOK, TablesType

LEMMA CheckRejectTypeInv ==
  ASSUME TypeInv, NEW r \in Requests, CheckReject(r)
  PROVE  TypeInv'
<1>. DEFINE b == call[r].booking
            phase == IF bookings[b].paid > 0 THEN "refund" ELSE "commit"
<1>1. at[r] = "start" /\ call[r].op = "reject_request"
  BY DEF CheckReject, Doing
<1>2. CASE Refuse(r, "404") \/ Refuse(r, "403") \/ Refuse(r, "409")
  BY <1>1, <1>2, RefuseTypeInv DEF Answers
<1>3. CASE /\ bookings[b] # Null
           /\ lockedBy' = LockNeeded(r)
           /\ UNCHANGED orm
           /\ Proceed(r, phase)
  <2>1. b \in Requests /\ Needs(r) = {b}
    BY <1>1, Typed, CallFields, NeedsOf DEF Doing, Moderating
  <2>2. at'[r] = phase /\ call' = call /\ UNCHANGED bookings
    BY <1>3 DEF Proceed, TypeInv, TypeOK, TablesType, tables
  <2>3. HandlerOk(r)' /\ CheckedOk(r)'
    BY <1>1, <1>3, <2>2, Typed DEF HandlerOk, CheckedOk
  <2>. QED
    BY <1>1, <1>3, <2>1, <2>3, Typed, ProceedTypeInv DEF Phases
<1>. QED  BY <1>2, <1>3 DEF CheckReject

(* Locking another user and loading the balance of either.                 *)
LEMMA LockOtherUserTypeInv ==
  ASSUME TypeInv, NEW r \in Requests, at[r] # "new", NEW u \in Users,
         LockOtherUser(r, u, "commit"), Needs(r) = {u},
         call[r].op \in Moderating => bookings[call[r].booking] # Null,
         call[r].op \in {"reject_request", "top_up_balance"},
         call[r].op = "top_up_balance" => call[r].amount >= 0
  PROVE  TypeInv'
<1>1. PICK o \in OrmType : orm' = [orm EXCEPT ![r] = o]
  <2>. DEFINE new == IF u = call[r].actor THEN orm[r].balance ELSE balance[u]
              o == [orm[r] EXCEPT !.balance = new]
  <2>1. orm[r] \in OrmType /\ balance[u] \in Nat
    BY Typed DEF TypeInv, TypeOK, TablesType
  <2>2. o \in OrmType
    BY <2>1 DEF OrmType
  <2>. QED  BY <2>2 DEF LockOtherUser
<1>2. \A b \in Requests : b \in Needs(r) => bookings[b] # Null
  BY NamesAssumption
<1>3. at'[r] = "commit" /\ call' = call /\ UNCHANGED bookings
  BY DEF LockOtherUser, Proceed, TypeInv, TypeOK, TablesType, tables
<1>4. HandlerOk(r)' /\ CheckedOk(r)'
  BY <1>3, Typed DEF HandlerOk, CheckedOk
<1>. QED
  BY <1>1, <1>2, <1>4, ProceedTypeInv DEF LockOtherUser, Phases

LEMMA LockRefundedTypeInv ==
  ASSUME TypeInv, NEW r \in Requests, LockRefunded(r)
  PROVE  TypeInv'
<1>1. at[r] = "refund" /\ call[r].op = "reject_request"
  BY DEF LockRefunded, Doing
<1>2. call[r].booking \in Requests /\ bookings[call[r].booking] # Null
  BY <1>1, Typed, CallFields DEF Moderating, HandlerOk
<1>3. Holder(call[r].booking) \in Users /\ Needs(r) = {Holder(call[r].booking)}
  BY <1>1, <1>2, Typed, NeedsOf DEF Holder
<1>. QED
  BY <1>1, <1>2, <1>3, LockOtherUserTypeInv DEF LockRefunded

LEMMA RejectTypeInv ==
  ASSUME TypeInv, NEW r \in Requests, Reject(r)
  PROVE  TypeInv'
<1>. DEFINE b == call[r].booking
<1>1. at[r] = "commit" /\ call[r].op = "reject_request"
  BY DEF Reject, Doing
<1>2. b \in Requests /\ bookings[b] # Null /\ call[r].actor \in Users
  BY <1>1, Typed, CallFields DEF Moderating, HandlerOk
<1>3. bookings[b].paid \in Nat /\ Holder(b) \in Users
  BY <1>1, <1>2, Typed DEF Holder, BookingRow
<1>4. balance' \in [Users -> Nat] /\ ledger' \in Seq(LedgerRow)
  <2>1. CASE Credit(r, Holder(b), call[r].actor, bookings[b].paid, "booking_refund", b)
    BY <1>2, <1>3, <2>1, CreditTyped DEF TypeInv, Kinds
  <2>2. CASE UNCHANGED <<balance, ledger>>
    BY <2>2 DEF TypeInv, TypeOK, TablesType
  <2>. QED  BY <2>1, <2>2 DEF Reject
<1>5. /\ bookings' \in [Requests -> BookingRow \cup {Null}]
      /\ \A x \in Requests : bookings[x] # Null => bookings'[x] # Null
  BY <1>2, BookingStatusTyped DEF Reject, BookingStatus
<1>6. Commit(r, "done") /\ UNCHANGED <<pcs, clubs, orders, payments>>
  BY DEF Reject
<1>. QED
  BY <1>1, <1>4, <1>5, <1>6, CommitTypeInv DEF TypeInv, TypeOK, TablesType

LEMMA SendCommandTypeInv ==
  ASSUME TypeInv, NEW r \in Requests, SendCommand(r)
  PROVE  TypeInv'
<1>1. at[r] = "send" /\ call[r].pc \in Pcs
  <2>1. at[r] = "send"
    BY DEF SendCommand
  <2>. QED  BY <2>1, Typed, CallFields DEF HandlerOk
<1>2. TypeOK'
  BY <1>1 DEF SendCommand, TypeInv, TypeOK, TablesType, tables, Phases
<1>3. at'[r] = "done" /\ call' = call /\ OthersStay(r)
  BY DEF SendCommand, TypeInv, TypeOK, TablesType, tables, OthersStay
<1>4. HandlerOk(r)' /\ CheckedOk(r)'
  BY <1>1, <1>3, Typed DEF HandlerOk, CheckedOk
<1>5. LockedRowsInv'
  BY DEF SendCommand, TypeInv, LockedRowsInv, tables
<1>. QED  BY <1>2, <1>3, <1>4, <1>5, StepTypeInv

LEMMA BookingStepTypeInv ==
  ASSUME TypeInv, NEW r \in Requests, BookingStep(r)
  PROVE  TypeInv'
<1>1. CASE LockActiveUser(r, {"book_seat", "create_booking_request"})
  BY <1>1, LockActiveUserTypeInv
<1>. QED
  BY <1>1, CheckSeatTypeInv, BookSeatTypeInv, ReadSeatTypeInv, CloseActiveBookingsTypeInv,
     FlushSeatTypeInv, SetSeatTypeInv, CheckRequestTypeInv, CreateRequestTypeInv,
     LockBookingTypeInv, CheckConfirmTypeInv, ConfirmTypeInv, CheckRejectTypeInv,
     LockRefundedTypeInv, RejectTypeInv, SendCommandTypeInv
  DEF BookingStep

-----------------------------------------------------------------------------
(* Payments and ClubModeration.                                            *)

LEMMA CheckProductTypeInv ==
  ASSUME TypeInv, NEW r \in Requests, CheckProduct(r)
  PROVE  TypeInv'
<1>1. at[r] = "user" /\ call[r].op = "buy_product"
  BY DEF CheckProduct, Doing
<1>2. CASE Refuse(r, OrderVerdict(r))
  <2>1. OrderVerdict(r) \in Answers
    BY DEF OrderVerdict, Answers
  <2>. QED  BY <1>1, <1>2, <2>1, RefuseTypeInv
<1>3. CASE OrderVerdict(r) = "ok" /\ UNCHANGED <<lockedBy, orm>> /\ Proceed(r, "commit")
  <2>1. orm[r].balance >= ProductPrice[call[r].product]
    <3>1. call[r].product \in Products
      BY <1>1, Typed, CallFields
    <3>2. orm[r].balance \in Nat /\ ProductPrice[call[r].product] \in Nat
      BY <1>1, <3>1, Typed, TablesAssumption DEF OrmType
    <3>. QED  BY <1>3, <3>2 DEF OrderVerdict
  <2>2. at'[r] = "commit" /\ call' = call /\ UNCHANGED orm
    BY <1>3 DEF Proceed, TypeInv, TypeOK, TablesType
  <2>3. HandlerOk(r)' /\ CheckedOk(r)'
    BY <1>1, <2>1, <2>2, Typed DEF HandlerOk, CheckedOk, Moderating
  <2>. QED
    BY <1>1, <1>3, <2>3, Typed, ProceedTypeInv DEF Phases
<1>. QED  BY <1>2, <1>3 DEF CheckProduct

LEMMA BuyProductTypeInv ==
  ASSUME TypeInv, NEW r \in Requests, BuyProduct(r)
  PROVE  TypeInv'
<1>. DEFINE c == call[r]
<1>1. at[r] = "commit" /\ c.op = "buy_product"
  BY DEF BuyProduct, Doing
<1>2. c.actor \in Users /\ c.product \in Products
  BY <1>1, Typed, CallFields
<1>3. ProductPrice[c.product] \in Nat /\ orm[r].balance - ProductPrice[c.product] \in Nat
  BY <1>1, <1>2, Typed, TablesAssumption DEF CheckedOk, OrmType
<1>4. balance' \in [Users -> Nat] /\ ledger' \in Seq(LedgerRow)
  BY <1>2, <1>3, DebitTyped DEF TypeInv, BuyProduct, Kinds
<1>5. /\ orders' \in [Requests -> OrderRow \cup {Null}]
      /\ \A o \in Requests : orders[o] # Null => orders'[o] # Null
  <2>1. NewOrder(r) \in OrderRow
    BY <1>2, <1>3 DEF NewOrder, OrderRow
  <2>. QED
    BY <2>1, NamesAssumption DEF BuyProduct, TypeInv, TypeOK, TablesType
<1>6. Commit(r, "done") /\ UNCHANGED <<pcs, clubs, bookings, payments>>
  BY DEF BuyProduct
<1>. QED
  BY <1>1, <1>4, <1>5, <1>6, CommitTypeInv DEF TypeInv, TypeOK, TablesType

LEMMA ReadOrderTypeInv ==
  ASSUME TypeInv, NEW r \in Requests, ReadOrder(r)
  PROVE  TypeInv'
<1>1. at[r] = "start" /\ call[r].op = "complete_order"
  BY DEF ReadOrder, Doing
<1>2. CASE Refuse(r, "404") \/ Refuse(r, "403") \/ Refuse(r, "ok")
  BY <1>1, <1>2, RefuseTypeInv DEF Answers
<1>3. CASE /\ orders[call[r].order] # Null
           /\ UNCHANGED <<lockedBy, orm>> /\ Proceed(r, "commit")
  <2>1. at'[r] = "commit" /\ call' = call /\ UNCHANGED orders
    BY <1>3 DEF Proceed, TypeInv, TypeOK, TablesType, tables
  <2>2. HandlerOk(r)' /\ CheckedOk(r)'
    BY <1>1, <1>3, <2>1, Typed DEF HandlerOk, CheckedOk, Moderating
  <2>. QED
    BY <1>1, <1>3, <2>2, Typed, ProceedTypeInv DEF Phases
<1>. QED  BY <1>2, <1>3 DEF ReadOrder

LEMMA CompleteOrderTypeInv ==
  ASSUME TypeInv, NEW r \in Requests, CompleteOrder(r)
  PROVE  TypeInv'
<1>. DEFINE o == call[r].order
            row == [orders[o] EXCEPT !.status = "completed"]
<1>1. at[r] = "commit" /\ call[r].op = "complete_order"
  BY DEF CompleteOrder, Doing
<1>2. o \in Requests /\ orders[o] # Null
  BY <1>1, Typed, CallFields DEF HandlerOk
<1>3. orders[o] \in OrderRow
  BY <1>2 DEF TypeInv, TypeOK, TablesType
<1>4. row \in OrderRow /\ row # Null
  BY <1>3, NamesAssumption DEF OrderRow
<1>5. orders' = [orders EXCEPT ![o] = row]
  BY DEF CompleteOrder
<1>6. /\ orders' \in [Requests -> OrderRow \cup {Null}]
      /\ \A x \in Requests : orders[x] # Null => orders'[x] # Null
  BY <1>4, <1>5 DEF TypeInv, TypeOK, TablesType
<1>7. Commit(r, "done") /\ UNCHANGED <<balance, pcs, clubs, bookings, payments, ledger>>
  BY DEF CompleteOrder
<1>. QED
  BY <1>1, <1>6, <1>7, CommitTypeInv DEF TypeInv, TypeOK, TablesType

LEMMA LockPayerTypeInv ==
  ASSUME TypeInv, NEW r \in Requests, LockPayer(r)
  PROVE  TypeInv'
<1>1. at[r] = "start" /\ call[r].op = "kaspi_test_top_up"
  BY DEF LockPayer, Doing
<1>2. CASE Refuse(r, "400")
  BY <1>1, <1>2, RefuseTypeInv DEF Answers
<1>3. CASE /\ KaspiAmount(call[r].amount)
           /\ lockedBy' = LockNeeded(r) /\ UNCHANGED orm /\ Proceed(r, "commit")
  <2>1. call[r].actor \in Users /\ Needs(r) = {call[r].actor}
    BY <1>1, Typed, CallFields, NeedsOf DEF Doing
  <2>2. call[r].amount >= 0
    <3>1. call[r].amount \in Int
      BY <1>1, Typed, CallFields
    <3>. QED  BY <1>3, <3>1, TablesAssumption DEF KaspiAmount
  <2>3. at'[r] = "commit" /\ call' = call
    BY <1>3 DEF Proceed, TypeInv, TypeOK, TablesType
  <2>4. HandlerOk(r)' /\ CheckedOk(r)'
    BY <1>1, <2>2, <2>3, Typed DEF HandlerOk, CheckedOk, Moderating
  <2>5. \A b \in Requests : b \in Needs(r) => bookings[b] # Null
    BY <2>1, NamesAssumption
  <2>. QED
    BY <1>1, <1>3, <2>4, <2>5, Typed, ProceedTypeInv DEF Phases
<1>. QED  BY <1>2, <1>3 DEF LockPayer

LEMMA KaspiTopUpTypeInv ==
  ASSUME TypeInv, NEW r \in Requests, KaspiTopUp(r)
  PROVE  TypeInv'
<1>. DEFINE c == call[r]
<1>1. at[r] = "commit" /\ c.op = "kaspi_test_top_up"
  BY DEF KaspiTopUp, Doing
<1>2. c.actor \in Users /\ c.amount \in Nat
  BY <1>1, Typed, CallFields DEF CheckedOk
<1>3. balance' \in [Users -> Nat] /\ ledger' \in Seq(LedgerRow)
  BY <1>2, CreditTyped DEF TypeInv, KaspiTopUp, Kinds
<1>4. payments' \in [Requests -> PaymentRow \cup {Null}]
  BY <1>2 DEF KaspiTopUp, TypeInv, TypeOK, TablesType, PaymentRow
<1>5. Commit(r, "done") /\ UNCHANGED <<pcs, clubs, bookings, orders>>
  BY DEF KaspiTopUp
<1>. QED
  BY <1>1, <1>3, <1>4, <1>5, CommitTypeInv DEF TypeInv, TypeOK, TablesType

LEMMA LockToppedUpTypeInv ==
  ASSUME TypeInv, NEW r \in Requests, LockToppedUp(r)
  PROVE  TypeInv'
<1>1. at[r] = "start" /\ call[r].op = "top_up_balance"
  BY DEF LockToppedUp, Doing
<1>2. CASE Refuse(r, "403") \/ Refuse(r, "400")
  BY <1>1, <1>2, RefuseTypeInv DEF Answers
<1>3. CASE call[r].amount > 0 /\ LockOtherUser(r, call[r].user, "commit")
  <2>1. call[r].user \in Users /\ call[r].amount \in Int /\ Needs(r) = {call[r].user}
    BY <1>1, Typed, CallFields, NeedsOf DEF Doing
  <2>2. call[r].amount >= 0 /\ call[r].op \notin Moderating
    BY <1>1, <1>3, <2>1 DEF Moderating
  <2>. QED  BY <1>1, <1>3, <2>1, <2>2, LockOtherUserTypeInv
<1>. QED  BY <1>2, <1>3 DEF LockToppedUp

LEMMA TopUpTypeInv ==
  ASSUME TypeInv, NEW r \in Requests, TopUp(r)
  PROVE  TypeInv'
<1>. DEFINE c == call[r]
<1>1. at[r] = "commit" /\ c.op = "top_up_balance"
  BY DEF TopUp, Doing
<1>2. c.actor \in Users /\ c.user \in Users /\ c.amount \in Nat
  BY <1>1, Typed, CallFields DEF CheckedOk
<1>3. balance' \in [Users -> Nat] /\ ledger' \in Seq(LedgerRow)
  BY <1>2, CreditTyped DEF TypeInv, TopUp, Kinds
<1>4. Commit(r, "done") /\ UNCHANGED <<pcs, clubs, bookings, orders, payments>>
  BY DEF TopUp
<1>. QED
  BY <1>1, <1>3, <1>4, CommitTypeInv DEF TypeInv, TypeOK, TablesType

LEMMA PaymentStepTypeInv ==
  ASSUME TypeInv, NEW r \in Requests, PaymentStep(r)
  PROVE  TypeInv'
<1>1. CASE LockActiveUser(r, {"buy_product"})
  BY <1>1, LockActiveUserTypeInv
<1>. QED
  BY <1>1, CheckProductTypeInv, BuyProductTypeInv, ReadOrderTypeInv, CompleteOrderTypeInv,
     LockPayerTypeInv, KaspiTopUpTypeInv, LockToppedUpTypeInv, TopUpTypeInv
  DEF PaymentStep

LEMMA ModerationStepTypeInv ==
  ASSUME TypeInv, NEW r \in Requests, ModerationStep(r)
  PROVE  TypeInv'
<1>. DEFINE c == call[r].club
<1>0. at[r] \in {"start", "commit"} /\ call[r].op \in {"block_club", "restore_club"}
  BY DEF ModerationStep, ReadClub, ModerateClub, Doing
<1>1. c \in Clubs
  BY <1>0, Typed, CallFields
<1>2. CASE Refuse(r, "403")
  BY <1>0, <1>2, RefuseTypeInv DEF Answers
<1>3. CASE /\ orm' = [orm EXCEPT ![r].club = clubs[c]]
           /\ UNCHANGED lockedBy /\ Proceed(r, "commit")
  <2>1. PICK o \in OrmType : orm' = [orm EXCEPT ![r] = o]
    <3>. DEFINE o == [orm[r] EXCEPT !.club = clubs[c]]
    <3>1. orm[r] \in OrmType /\ clubs[c] \in ClubStatus
      BY <1>0, <1>1, Typed DEF TypeInv, TypeOK, TablesType
    <3>2. o \in OrmType
      BY <3>1 DEF OrmType
    <3>. QED  BY <1>3, <3>2
  <2>2. at'[r] = "commit" /\ call' = call
    BY <1>3 DEF Proceed, TypeInv, TypeOK, TablesType
  <2>3. HandlerOk(r)' /\ CheckedOk(r)'
    BY <1>0, <2>2, Typed DEF HandlerOk, CheckedOk, Moderating
  <2>. QED
    BY <1>0, <1>3, <2>1, <2>3, ProceedTypeInv DEF Phases
<1>4. CASE ModerateClub(r)
  <2>1. at[r] = "commit"
    BY <1>4 DEF ModerateClub, Doing
  <2>2. clubs' \in [Clubs -> ClubStatus]
    BY <1>1, <1>4 DEF ModerateClub, Column, ClubStatusSetBy, TypeInv, TypeOK, TablesType,
                      ClubStatus
  <2>3. Commit(r, "done") /\ UNCHANGED <<balance, pcs, bookings, orders, payments, ledger>>
    BY <1>4 DEF ModerateClub
  <2>. QED
    BY <2>1, <2>2, <2>3, CommitTypeInv DEF TypeInv, TypeOK, TablesType
<1>. QED  BY <1>2, <1>3, <1>4 DEF ModerationStep, ReadClub

LEMMA FailTypeInv ==
  ASSUME TypeInv, NEW r \in Requests, Fail(r)
  PROVE  TypeInv'
  BY RefuseTypeInv DEF Fail, Answers

-----------------------------------------------------------------------------
(* Cleanup and the clock.                                                  *)

(* They leave every request, and every row's existence, as they are.       *)
LEMMA BackgroundTypeInv ==
  ASSUME TypeInv, TypeOK', LockedRowsInv', UNCHANGED <<at, call, orm, orders>>,
         \A b \in Requests : bookings[b] # Null => bookings'[b] # Null
  PROVE  TypeInv'
<1>1. ASSUME NEW r \in Requests  PROVE HandlerOk(r)' /\ CheckedOk(r)'
  <2>1. HandlerOk(r) /\ CheckedOk(r)
    BY DEF TypeInv, HandlerInv, CheckedInv
  <2>2. at[r] # "new" /\ call[r].op \in Moderating => call[r].booking \in Requests
    BY <2>1, CallFields DEF HandlerOk
  <2>. QED  BY <2>1, <2>2 DEF HandlerOk, CheckedOk, Deposit
<1>. QED  BY <1>1 DEF TypeInv, HandlerInv, CheckedInv

LEMMA CleanupStepTypeInv ==
  ASSUME TypeInv, CleanupStep
  PROVE  TypeInv'
<1>1. CASE ScanExpired
  <2>1. TypeOK'
    BY <1>1 DEF ScanExpired, ExpiredPcs, TypeInv, TypeOK, TablesType, tables, SweepType, FreePc,
                PcRow, PcStatus
  <2>. QED
    BY <1>1, <2>1, BackgroundTypeInv DEF ScanExpired, TypeInv, LockedRowsInv, tables
<1>2. ASSUME NEW p \in Pcs, ExpirePc(p)  PROVE TypeInv'
  <2>1. TypeOK'
    BY <1>2 DEF ExpirePc, TypeInv, TypeOK, TablesType, tables, SweepType, Holders
  <2>2. LockedRowsInv'
    BY <1>2 DEF ExpirePc, ActiveOn, TypeInv, TypeOK, TablesType, LockedRowsInv, tables, Rows
  <2>. QED
    BY <1>2, <2>1, <2>2, BackgroundTypeInv DEF ExpirePc, tables
<1>3. CASE CommitExpired
  <2>1. \A p \in Pcs : ReleasedPc(p) \in PcRow
    BY DEF ReleasedPc, Column, TypeInv, TypeOK, TablesType, PcRow, PcStatus
  <2>2. pcs' \in [Pcs -> PcRow]
    BY <1>3, <2>1 DEF CommitExpired, TypeInv, TypeOK, TablesType
  <2>3. /\ bookings' \in [Requests -> BookingRow \cup {Null}]
        /\ \A b \in Requests : bookings[b] # Null => bookings'[b] # Null
    <3>1. bookings' = ClosedBy(Cleaner, "expired")
      BY <1>3 DEF CommitExpired, ClosedBy
    <3>. QED  BY <3>1, ClosedByTyped DEF Holders, BookingStatus
  <2>4. sweep' \in SweepType
    BY <1>3 DEF CommitExpired, NoSweep, SweepType, FreePc, PcRow, PcStatus
  <2>5. TypeOK'
    BY <1>3, <2>2, <2>3, <2>4 DEF CommitExpired, Released, TypeInv, TypeOK, TablesType
  <2>6. LockedRowsInv'
    BY <1>3, <2>3 DEF CommitExpired, Released, TypeInv, TypeOK, TablesType, LockedRowsInv, Rows
  <2>. QED
    BY <1>3, <2>3, <2>5, <2>6, BackgroundTypeInv DEF CommitExpired
<1>4. ASSUME NEW p \in Pcs, FlushExpired(p)  PROVE TypeInv'
  <2>1. TypeOK'
    BY <1>4 DEF FlushExpired, TypeInv, TypeOK, TablesType, tables, outside, Holders
  <2>2. LockedRowsInv'
    BY <1>4, NamesAssumption
    DEF FlushExpired, TypeInv, TypeOK, TablesType, LockedRowsInv, tables, Rows
  <2>. QED
    BY <1>4, <2>1, <2>2, BackgroundTypeInv DEF FlushExpired, tables
<1>. QED  BY <1>1, <1>2, <1>3, <1>4 DEF CleanupStep

LEMMA AbandonSweepTypeInv ==
  ASSUME TypeInv, AbandonSweep
  PROVE  TypeInv'
<1>1. sweep' \in SweepType
  BY DEF AbandonSweep, NoSweep, SweepType, FreePc, PcRow, PcStatus
<1>2. TypeOK'
  BY <1>1 DEF AbandonSweep, Released, TypeInv, TypeOK, TablesType, tables
<1>3. LockedRowsInv'
  BY DEF AbandonSweep, Released, TypeInv, TypeOK, TablesType, LockedRowsInv, Rows, tables
<1>. QED
  BY <1>2, <1>3, BackgroundTypeInv DEF AbandonSweep, tables

LEMMA TickTypeInv ==
  ASSUME TypeInv, Tick
  PROVE  TypeInv'
<1>1. TypeOK'
  BY DEF Tick, TypeInv, TypeOK, TablesType, tables
<1>. QED
  BY <1>1, BackgroundTypeInv DEF Tick, TypeInv, LockedRowsInv, tables

LEMMA NextTypeInv == TypeInv /\ [Next]_vars => TypeInv'
<1>. SUFFICES ASSUME TypeInv, [Next]_vars  PROVE TypeInv'
  OBVIOUS
<1>1. ASSUME NEW r \in Requests, NEW c \in Calls[r], Arrive(r, c)  PROVE TypeInv'
  BY <1>1, ArriveTypeInv
<1>2. ASSUME NEW r \in Requests, Step(r) \/ Fail(r)  PROVE TypeInv'
  <2>1. CASE DebitFails(r)
    BY <2>1, RefuseTypeInv DEF DebitFails, Doing, Answers
  <2>. QED
    BY <1>2, <2>1, BookingStepTypeInv, PaymentStepTypeInv, ModerationStepTypeInv, FailTypeInv
    DEF Step
<1>3. CASE CleanupStep \/ AbandonSweep \/ Tick
  BY <1>3, CleanupStepTypeInv, AbandonSweepTypeInv, TickTypeInv
<1>4. CASE UNCHANGED vars
  <2>1. TypeOK'
    BY <1>4 DEF vars, tables, outside, TypeInv, TypeOK, TablesType
  <2>. QED
    BY <1>4, <2>1, BackgroundTypeInv DEF vars, tables, outside, TypeInv, LockedRowsInv
<1>. QED  BY <1>1, <1>2, <1>3, <1>4 DEF Next

(* Whatever requests overlap or fail, all tables, locks and sessions keep  *)
(* their types; in particular no balance ever becomes negative, although   *)
(* core/finance.py computes it from a User object that may be stale.       *)
THEOREM TypeCorrect == Spec => []TypeOK
<1>1. Init => TypeInv
  BY InitTypeInv
<1>2. TypeInv /\ [Next]_vars => TypeInv'
  BY NextTypeInv
<1>3. TypeInv => TypeOK
  BY DEF TypeInv
<1>. QED  BY <1>1, <1>2, <1>3, PTL DEF Spec

-----------------------------------------------------------------------------
(* Row locks.                                                              *)

(* Past the statement that locks a row, the handler holds its lock.        *)
HoldsOk(r) ==
  /\ \A u \in Users : PaysFor(r, u) => lockedBy[u] = r
  /\ \A p \in Pcs : KeepsPc(r, p) => lockedBy[p] = r
  /\ \A b \in Requests : Moderates(r, b) => lockedBy[b] = r

HoldInv == \A r \in Requests : HoldsOk(r)

(* A request inserts its booking with its own commit and not before.       *)
InsertInv == \A r \in Requests : at[r] \notin {"send", "done"} => bookings[r] = Null

LockInv == TypeInv /\ HoldInv /\ InsertInv

-----------------------------------------------------------------------------
(* What steps do to the locks.                                             *)

LEMMA UnblockedRows ==
  ASSUME NEW r, Unblocked(r), NEW x \in Needs(r)
  PROVE  lockedBy[x] \in {Null, r}
  BY DEF Unblocked, Blockers

(* The steps of a request leave the locks of all others alone.             *)
LocksOfOthersStay(r) ==
  \A x \in Rows : lockedBy[x] \notin {Null, r} => lockedBy'[x] = lockedBy[x]

LEMMA LockNeededStays ==
  ASSUME TypeInv, NEW r \in Requests, Unblocked(r), lockedBy' = LockNeeded(r)
  PROVE  LocksOfOthersStay(r) /\ \A x \in Rows : lockedBy[x] = r => lockedBy'[x] = r
  BY UnblockedRows DEF LocksOfOthersStay, LockNeeded

LEMMA ReleasedStays ==
  ASSUME TypeInv, NEW r \in Requests, lockedBy' = Released(r)
  PROVE  LocksOfOthersStay(r)
  BY DEF LocksOfOthersStay, Released

(* A statement locks what it needs, a commit and a refusal release all.    *)
LEMMA LockCases ==
  ASSUME NEW r \in Requests, Step(r) \/ Fail(r)
  PROVE  \/ \E a : Refuse(r, a)
         \/ at[r] = "commit" /\ \E phase \in {"send", "done"} : Commit(r, phase)
         \/ UNCHANGED lockedBy
         \/ /\ Unblocked(r) /\ lockedBy' = LockNeeded(r)
            /\ at[r] \in {"start", "user", "booking", "refund", "update", "flush"}
            /\ UNCHANGED tables
<1>. DEFINE Cases ==
       \/ \E a : Refuse(r, a)
       \/ at[r] = "commit" /\ \E phase \in {"send", "done"} : Commit(r, phase)
       \/ UNCHANGED lockedBy
       \/ /\ Unblocked(r) /\ lockedBy' = LockNeeded(r)
          /\ at[r] \in {"start", "user", "booking", "refund", "update", "flush"}
          /\ UNCHANGED tables
<1>1. ASSUME BookingStep(r)  PROVE Cases
  BY <1>1 DEF BookingStep, LockActiveUser, FlushSeat, CheckSeat, BookSeat, ReadSeat,
              CloseActiveBookings, SetSeat, CheckRequest, CreateRequest, LockBooking,
              CheckConfirm, Confirm, CheckReject, LockRefunded, LockOtherUser, Reject,
              SendCommand, Doing, Proceed
<1>2. ASSUME PaymentStep(r)  PROVE Cases
  BY <1>2 DEF PaymentStep, LockActiveUser, CheckProduct, BuyProduct, ReadOrder, CompleteOrder,
     LockPayer, KaspiTopUp, LockToppedUp, LockOtherUser, TopUp, Doing, Proceed
<1>3. ASSUME ModerationStep(r) \/ DebitFails(r) \/ Fail(r)  PROVE Cases
  BY <1>3 DEF ModerationStep, ReadClub, ModerateClub, DebitFails, Fail, Doing
<1>. QED  BY <1>1, <1>2, <1>3 DEF Step

LEMMA LocksStep ==
  ASSUME TypeInv, NEW r \in Requests, Step(r) \/ Fail(r)
  PROVE  /\ LocksOfOthersStay(r)
         /\ at'[r] \in {"send", "done"} \/ \A x \in Rows : lockedBy[x] = r => lockedBy'[x] = r
<1>1. CASE \E a : Refuse(r, a)
  BY <1>1, ReleasedStays DEF Refuse, TypeInv, TypeOK, TablesType
<1>2. CASE \E phase \in {"send", "done"} : Commit(r, phase)
  BY <1>2, ReleasedStays DEF Commit, TypeInv, TypeOK, TablesType
<1>3. CASE UNCHANGED lockedBy
  BY <1>3 DEF LocksOfOthersStay
<1>4. CASE Unblocked(r) /\ lockedBy' = LockNeeded(r)
  BY <1>4, LockNeededStays
<1>. QED  BY <1>1, <1>2, <1>3, <1>4, LockCases

-----------------------------------------------------------------------------
(* What steps do to the requests and to the bookings.                      *)

LEMMA RequestsStep ==
  ASSUME TypeInv, NEW r \in Requests, Step(r) \/ Fail(r)
  PROVE  /\ call' = call
         /\ \A s \in Requests \ {r} : at'[s] = at[s] /\ orm'[s] = orm[s]
         /\ at[r] # "new" /\ at'[r] # "new"
<1>1. call' = call /\ \E phase \in Phases \ {"new"} : at' = [at EXCEPT ![r] = phase]
  <2>1. CASE \E a : Refuse(r, a)
    BY <2>1 DEF Refuse, Phases
  <2>2. CASE \E phase \in Phases \ {"new"} : Commit(r, phase)
    BY <2>2 DEF Commit
  <2>3. CASE \E phase \in Phases \ {"new"} : Proceed(r, phase)
    BY <2>3 DEF Proceed
  <2>4. CASE SendCommand(r)
    BY <2>4 DEF SendCommand, Phases
  <2>5. ASSUME BookingStep(r)
        PROVE  \/ \E a : Refuse(r, a)
               \/ \E phase \in Phases \ {"new"} : Commit(r, phase) \/ Proceed(r, phase)
               \/ SendCommand(r)
    BY <2>5 DEF BookingStep, LockActiveUser, FlushSeat, CheckSeat, BookSeat, ReadSeat,
                CloseActiveBookings, SetSeat, CheckRequest, CreateRequest, LockBooking,
                CheckConfirm, Confirm, CheckReject, LockRefunded, LockOtherUser, Reject, Phases
  <2>6. ASSUME PaymentStep(r) \/ ModerationStep(r) \/ DebitFails(r) \/ Fail(r)
        PROVE  \/ \E a : Refuse(r, a)
               \/ \E phase \in Phases \ {"new"} : Commit(r, phase) \/ Proceed(r, phase)
    BY <2>6 DEF PaymentStep, LockActiveUser, CheckProduct, BuyProduct, ReadOrder,
       CompleteOrder, LockPayer, KaspiTopUp, LockToppedUp, LockOtherUser, TopUp,
       ModerationStep, ReadClub, ModerateClub, DebitFails, Fail, Phases
  <2>. QED
    BY <2>1, <2>2, <2>3, <2>4, <2>5, <2>6 DEF Step
<1>2. at[r] # "new"
  BY DEF Step, BookingStep, LockActiveUser, FlushSeat, DebitFails, CheckSeat, BookSeat,
         ReadSeat, CloseActiveBookings, SetSeat, CheckRequest, CreateRequest, LockBooking,
         CheckConfirm, Confirm, CheckReject, LockRefunded, Reject, SendCommand, PaymentStep,
         CheckProduct, BuyProduct, ReadOrder, CompleteOrder, LockPayer, KaspiTopUp,
         LockToppedUp, TopUp, ModerationStep, ReadClub, ModerateClub, Fail, Doing
<1>3. ASSUME NEW s \in Requests \ {r}  PROVE orm'[s] = orm[s]
  <2>1. ASSUME BookingStep(r)  PROVE orm'[s] = orm[s]
    BY <2>1 DEF TypeInv, TypeOK, TablesType, BookingStep, LockActiveUser, FlushSeat, CheckSeat,
      BookSeat, ReadSeat, CloseActiveBookings, SetSeat, CheckRequest, CreateRequest,
      LockBooking, CheckConfirm, Confirm, CheckReject, LockRefunded, LockOtherUser, Reject,
      SendCommand, Refuse, Commit
  <2>2. ASSUME PaymentStep(r)  PROVE orm'[s] = orm[s]
    BY <2>2 DEF TypeInv, TypeOK, TablesType, PaymentStep, LockActiveUser, CheckProduct,
      BuyProduct, ReadOrder, CompleteOrder, LockPayer, KaspiTopUp, LockToppedUp,
      LockOtherUser, TopUp, Refuse, Commit
  <2>3. ASSUME ModerationStep(r) \/ DebitFails(r) \/ Fail(r)  PROVE orm'[s] = orm[s]
    BY <2>3 DEF TypeInv, TypeOK, TablesType, ModerationStep, ReadClub, ModerateClub,
      DebitFails, Fail, Refuse, Commit
  <2>. QED  BY <2>1, <2>2, <2>3 DEF Step
<1>. QED  BY <1>1, <1>2, <1>3 DEF TypeInv, TypeOK, TablesType

(* A booking keeps its client, its computer, its price and its end, is     *)
(* never deleted, and never becomes pending again.                         *)
BookingKept(b) ==
  bookings[b] # Null =>
    /\ bookings'[b] # Null
    /\ bookings'[b].user = bookings[b].user
    /\ bookings'[b].pc = bookings[b].pc
    /\ bookings'[b].paid = bookings[b].paid
    /\ bookings'[b].endsAt = bookings[b].endsAt
    /\ bookings'[b].status = "pending" => bookings[b].status = "pending"

LEMMA StatusChangeKeeps ==
  ASSUME TypeInv, NEW b \in Requests, bookings[b] # Null,
         NEW status \in BookingStatus \ {"pending"}
  PROVE  LET row == [bookings[b] EXCEPT !.status = status] IN
         /\ row # Null
         /\ row.user = bookings[b].user /\ row.pc = bookings[b].pc
         /\ row.paid = bookings[b].paid /\ row.endsAt = bookings[b].endsAt
         /\ row.status # "pending"
<1>. DEFINE row == [bookings[b] EXCEPT !.status = status]
<1>1. bookings[b] \in BookingRow
  BY DEF TypeInv, TypeOK, TablesType
<1>2. row \in BookingRow
  BY <1>1 DEF BookingRow
<1>. QED  BY <1>1, <1>2, NamesAssumption DEF BookingRow

(* A sale and a request insert the row of a booking.                       *)
LEMMA InsertedRow ==
  ASSUME LockInv, NEW r \in Requests, BookSeat(r) \/ CreateRequest(r)
  PROVE  bookings[r] = Null /\ bookings'[r] # Null
<1>1. at[r] = "commit" /\ call[r] \in CallType /\ orm[r].until \in Nat
  BY Typed DEF BookSeat, CreateRequest, Doing, LockInv, OrmType
<1>2. ASSUME NEW status \in BookingStatus, NEW paid \in Nat, NEW ends \in Nat \cup {Null},
             bookings'[r] = NewBooking(r, status, paid, ends), call[r].pc \in Pcs
      PROVE  bookings'[r] # Null
  <2>1. bookings'[r] \in BookingRow
    BY <1>1, <1>2, CallFields DEF NewBooking, BookingRow
  <2>. QED  BY <2>1, NamesAssumption
<1>3. CASE BookSeat(r)
  <2>1. bookings'[r] = NewBooking(r, "active", Price[call[r].package], orm[r].until)
    BY <1>3 DEF BookSeat, LockInv, TypeInv, TypeOK, TablesType
  <2>2. call[r].pc \in Pcs /\ Price[call[r].package] \in Nat
    BY <1>1, <1>3, CallFields, TablesAssumption DEF BookSeat, Doing
  <2>. QED  BY <1>1, <1>2, <2>1, <2>2 DEF BookingStatus, LockInv, InsertInv
<1>4. CASE CreateRequest(r)
  <2>1. bookings'[r] = NewBooking(r, "pending", Deposit(ClubOf[call[r].pc]), call[r].endsAt)
    BY <1>4 DEF CreateRequest, LockInv, TypeInv, TypeOK, TablesType
  <2>2. /\ call[r].pc \in Pcs /\ Deposit(ClubOf[call[r].pc]) \in Nat
        /\ call[r].endsAt \in Nat \cup {Null}
    BY <1>1, <1>4, CallFields, TablesAssumption, DepositTyped DEF CreateRequest, Doing
  <2>. QED  BY <1>1, <1>2, <2>1, <2>2 DEF BookingStatus, LockInv, InsertInv
<1>. QED  BY <1>3, <1>4

(* Rows change by their own request's commit, which inserts them, by a     *)
(* moderator, who locked them, or by being closed, under a lock as well.   *)
LEMMA ClosingKeeps ==
  ASSUME TypeInv, NEW h \in Holders, NEW status \in BookingStatus \ {"pending"},
         bookings' = ClosedBy(h, status)
  PROVE  \A b \in Requests : /\ BookingKept(b)
                             /\ bookings[b] = Null => bookings'[b] = Null
<1>. SUFFICES ASSUME NEW b \in Requests
     PROVE  /\ BookingKept(b)
            /\ bookings[b] = Null => bookings'[b] = Null
  OBVIOUS
<1>1. CASE lockedBy[b] = h
  <2>1. bookings[b] # Null
    BY <1>1, NamesAssumption DEF TypeInv, LockedRowsInv, Holders
  <2>2. bookings'[b] = [bookings[b] EXCEPT !.status = status]
    BY <1>1 DEF ClosedBy
  <2>. QED  BY <2>1, <2>2, StatusChangeKeeps DEF BookingKept
<1>2. CASE lockedBy[b] # h
  BY <1>2 DEF ClosedBy, BookingKept
<1>. QED  BY <1>1, <1>2

LEMMA ModeratingKeeps ==
  ASSUME TypeInv, NEW x \in Requests, bookings[x] # Null,
         NEW status \in BookingStatus \ {"pending"},
         bookings' = [bookings EXCEPT ![x].status = status]
  PROVE  \A b \in Requests : /\ BookingKept(b)
                             /\ bookings[b] = Null => bookings'[b] = Null
<1>. SUFFICES ASSUME NEW b \in Requests
     PROVE  /\ BookingKept(b)
            /\ bookings[b] = Null => bookings'[b] = Null
  OBVIOUS
<1>1. CASE b = x
  <2>1. bookings'[b] = [bookings[b] EXCEPT !.status = status]
    BY <1>1 DEF TypeInv, TypeOK, TablesType
  <2>. QED  BY <1>1, <2>1, StatusChangeKeeps DEF BookingKept
<1>2. CASE b # x
  BY <1>2 DEF TypeInv, TypeOK, TablesType, BookingKept
<1>. QED  BY <1>1, <1>2

(* The steps that write bookings.                                          *)
LEMMA WhoWritesBookings ==
  ASSUME [Next]_vars
  PROVE  \/ UNCHANGED bookings
         \/ CommitExpired
         \/ \E r \in Requests : \/ BookSeat(r) \/ CreateRequest(r) \/ SetSeat(r)
                                \/ Confirm(r) \/ Reject(r)
<1>1. ASSUME NEW r \in Requests, Step(r) \/ Fail(r)
      PROVE  \/ UNCHANGED bookings
             \/ BookSeat(r) \/ CreateRequest(r) \/ SetSeat(r) \/ Confirm(r) \/ Reject(r)
  BY <1>1 DEF Step, BookingStep, LockActiveUser, FlushSeat, DebitFails, CheckSeat, ReadSeat,
              CloseActiveBookings, CheckRequest, LockBooking, CheckConfirm, CheckReject,
              LockRefunded, LockOtherUser, SendCommand, PaymentStep, CheckProduct, BuyProduct,
              ReadOrder, CompleteOrder, LockPayer, KaspiTopUp, LockToppedUp, TopUp,
              ModerationStep, ReadClub, ModerateClub, Fail, Refuse, Proceed, tables
<1>2. ASSUME ~UNCHANGED bookings
      PROVE  CommitExpired \/ \E r \in Requests : Step(r) \/ Fail(r)
  BY <1>2 DEF Next, Arrive, CleanupStep, ScanExpired, ExpirePc, FlushExpired, AbandonSweep,
              Tick, vars, tables
<1>. QED  BY <1>1, <1>2

(* Every step keeps the bookings, and only a sale or a request inserts one.*)
LEMMA BookingsStep ==
  ASSUME LockInv, [Next]_vars, NEW b \in Requests
  PROVE  /\ BookingKept(b)
         /\ bookings[b] = Null /\ bookings'[b] # Null => BookSeat(b) \/ CreateRequest(b)
<1>1. CASE UNCHANGED bookings
  BY <1>1 DEF BookingKept
<1>2. ASSUME NEW r \in Requests, BookSeat(r) \/ CreateRequest(r)
      PROVE  /\ BookingKept(b)
             /\ bookings[b] = Null /\ bookings'[b] # Null => BookSeat(b) \/ CreateRequest(b)
  <2>1. bookings[r] = Null
    BY <1>2 DEF LockInv, InsertInv, BookSeat, CreateRequest, Doing
  <2>2. b # r => bookings'[b] = bookings[b]
    BY <1>2 DEF BookSeat, CreateRequest, LockInv, TypeInv, TypeOK, TablesType
  <2>. QED  BY <1>2, <2>1, <2>2 DEF BookingKept
<1>3. ASSUME NEW r \in Requests, SetSeat(r)
      PROVE  BookingKept(b) /\ (bookings[b] = Null => bookings'[b] = Null)
  BY <1>3, ClosingKeeps DEF SetSeat, LockInv, Holders, BookingStatus
<1>4. ASSUME CommitExpired
      PROVE  BookingKept(b) /\ (bookings[b] = Null => bookings'[b] = Null)
  <2>1. bookings' = ClosedBy(Cleaner, "expired")
    BY <1>4 DEF CommitExpired, ClosedBy
  <2>. QED  BY <2>1, ClosingKeeps DEF LockInv, Holders, BookingStatus
<1>5. ASSUME NEW r \in Requests, Confirm(r) \/ Reject(r)
      PROVE  BookingKept(b) /\ (bookings[b] = Null => bookings'[b] = Null)
  <2>1. at[r] = "commit" /\ call[r].op \in Moderating
    BY <1>5 DEF Confirm, Reject, Doing, Moderating
  <2>2. call[r].booking \in Requests /\ bookings[call[r].booking] # Null
    BY <2>1, Typed, CallFields DEF HandlerOk, LockInv
  <2>. QED
    BY <1>5, <2>2, ModeratingKeeps DEF Confirm, Reject, LockInv, BookingStatus
<1>. QED  BY <1>1, <1>2, <1>3, <1>4, <1>5, WhoWritesBookings

-----------------------------------------------------------------------------
(* The lock invariant is inductive.                                        *)

LEMMA InitLockInv == Init => LockInv
<1>. SUFFICES ASSUME Init  PROVE LockInv
  OBVIOUS
<1>1. TypeInv
  BY InitTypeInv
<1>2. HoldInv /\ InsertInv
  BY DEF Init, TablesInit, HoldInv, HoldsOk, PaysFor, KeepsPc, Moderates, Doing, InsertInv
<1>. QED  BY <1>1, <1>2 DEF LockInv

(* A handler that has finished, or has only arrived, is past no lock.      *)
LEMMA NothingHeld ==
  ASSUME NEW s, at[s] \in {"new", "start", "update", "flush", "send", "done"}
  PROVE  HoldsOk(s)
  BY DEF HoldsOk, PaysFor, KeepsPc, Moderates, Doing

(* What another handler does, or the background, does not disturb HoldsOk. *)
LEMMA HoldsStays ==
  ASSUME LockInv, [Next]_vars, NEW s \in Requests,
         at'[s] = at[s], call'[s] = call[s], orm'[s] = orm[s],
         \A x \in Rows : lockedBy[x] = s => lockedBy'[x] = s
  PROVE  HoldsOk(s)'
<1>1. CASE at[s] \in {"new", "start", "update", "flush", "send", "done"}
  <2>1. at'[s] \in {"new", "start", "update", "flush", "send", "done"}
    BY <1>1
  <2>. QED  BY <2>1 DEF HoldsOk, PaysFor, KeepsPc, Moderates, Doing
<1>2. CASE at[s] \in {"user", "booking", "refund", "commit"}
  <2>. DEFINE b == call[s].booking
  <2>1. HoldsOk(s) /\ HandlerOk(s)
    BY DEF LockInv, HoldInv, TypeInv, HandlerInv
  <2>2. ASSUME call[s].op \in Moderating, at[s] \in {"refund", "commit", "booking"}
        PROVE  /\ bookings'[b].user = bookings[b].user
               /\ bookings'[b].pc = bookings[b].pc
               /\ bookings'[b].paid = bookings[b].paid
    <3>1. b \in Requests /\ bookings[b] # Null
      BY <1>2, <2>1, <2>2, CallFields DEF HandlerOk
    <3>. QED  BY <3>1, BookingsStep DEF BookingKept
  <2>3. \A u \in Users : PaysFor(s, u)' => PaysFor(s, u)
    BY <2>2 DEF PaysFor, Doing, Holder, Moderating
  <2>4. \A p \in Pcs : KeepsPc(s, p)' => KeepsPc(s, p)
    BY <2>2 DEF KeepsPc, Doing, Moderating, PcSetBy
  <2>5. \A x \in Requests : Moderates(s, x)' => Moderates(s, x)
    BY DEF Moderates
  <2>. QED  BY <2>1, <2>3, <2>4, <2>5 DEF HoldsOk, Rows
<1>. QED
  BY <1>1, <1>2 DEF LockInv, TypeInv, TypeOK, TablesType, Phases

(* A SELECT ... FOR UPDATE takes the lock the next statement relies on.    *)
LEMMA NeededHeld ==
  ASSUME TypeInv, NEW r \in Requests, lockedBy' = LockNeeded(r)
  PROVE  \A x \in Rows : x \in Needs(r) => lockedBy'[x] = r
  BY DEF LockNeeded

LEMMA OwnLocksTaken ==
  ASSUME LockInv, NEW r \in Requests, Step(r) \/ Fail(r)
  PROVE  HoldsOk(r)'
<1>. DEFINE c == call[r]
<1>0. at[r] # "new" /\ call' = call /\ HandlerOk(r) /\ HoldsOk(r) /\ c \in CallType
  BY RequestsStep, Typed DEF LockInv, TypeInv, HandlerInv, HoldInv
<1>1. CASE at'[r] \in {"start", "update", "flush", "send", "done"}
  BY <1>1 DEF HoldsOk, PaysFor, KeepsPc, Moderates, Doing
<1>2. CASE c.op \notin {"book_seat", "create_booking_request", "buy_product", "free_seat",
                        "update_computer_status", "kaspi_test_top_up", "top_up_balance"}
                       \cup Moderating
  BY <1>0, <1>2 DEF HoldsOk, PaysFor, KeepsPc, Moderates, Doing, Moderating
<1>3. ASSUME at'[r] \notin {"send", "done"}
      PROVE  \A x \in Rows : lockedBy[x] = r => lockedBy'[x] = r
  BY <1>3, LocksStep DEF LockInv
<1>4. ASSUME NEW ops, LockActiveUser(r, ops)
      PROVE  HoldsOk(r)'
  <2>1. at[r] = "start" /\ at'[r] = "user" /\ lockedBy' = LockNeeded(r)
    BY <1>4 DEF LockActiveUser, Doing, Proceed, LockInv, TypeInv, TypeOK, TablesType
  <2>2. c.op \in {"book_seat", "create_booking_request", "buy_product"} =>
          lockedBy'[c.actor] = r
    BY <1>0, <2>1, NeedsOf, NeededHeld, CallFields DEF Doing, Rows, LockInv
  <2>. QED
    BY <1>0, <2>1, <2>2 DEF HoldsOk, PaysFor, KeepsPc, Moderates, Doing
<1>5. CASE CheckSeat(r) /\ at'[r] = "commit" /\ lockedBy' = LockNeeded(r)
  <2>1. at[r] = "user" /\ c.op = "book_seat"
    BY <1>5 DEF CheckSeat, Doing
  <2>2. c.actor \in Users /\ c.pc \in Pcs
    BY <1>0, <2>1, CallFields
  <2>3. lockedBy'[c.pc] = r
    BY <1>5, <2>1, <2>2, NeedsOf, NeededHeld DEF Doing, Rows, LockInv
  <2>4. lockedBy'[c.actor] = r
    BY <1>0, <1>3, <1>5, <2>1, <2>2 DEF HoldsOk, PaysFor, Rows
  <2>. QED
    BY <1>0, <1>5, <2>1, <2>3, <2>4 DEF HoldsOk, PaysFor, KeepsPc, Moderates, Doing
<1>6. CASE CheckRequest(r) /\ at'[r] = "commit" /\ lockedBy' = LockNeeded(r)
  <2>1. at[r] = "user" /\ c.op = "create_booking_request"
    BY <1>6 DEF CheckRequest, Doing
  <2>2. c.actor \in Users /\ c.pc \in Pcs
    BY <1>0, <2>1, CallFields
  <2>3. lockedBy'[c.pc] = r
    BY <1>6, <2>1, <2>2, NeedsOf, NeededHeld DEF Doing, Rows, LockInv
  <2>4. lockedBy'[c.actor] = r
    BY <1>0, <1>3, <1>6, <2>1, <2>2 DEF HoldsOk, PaysFor, Rows
  <2>. QED
    BY <1>0, <1>6, <2>1, <2>3, <2>4 DEF HoldsOk, PaysFor, KeepsPc, Moderates, Doing
<1>7. CASE LockBooking(r) /\ at'[r] = "booking" /\ lockedBy' = LockNeeded(r)
  <2>1. at[r] = "start" /\ c.op = "confirm_request"
    BY <1>7 DEF LockBooking, Doing
  <2>2. lockedBy'[c.booking] = r
    BY <1>0, <1>7, <2>1, NeedsOf, NeededHeld, CallFields DEF Doing, Rows, LockInv, Moderating
  <2>. QED
    BY <1>0, <1>7, <2>1, <2>2 DEF HoldsOk, PaysFor, KeepsPc, Moderates, Doing
<1>8. CASE CheckConfirm(r) /\ at'[r] = "commit" /\ lockedBy' = LockNeeded(r)
  <2>1. at[r] = "booking" /\ c.op = "confirm_request" /\ UNCHANGED bookings
    BY <1>8 DEF CheckConfirm, Doing, Proceed, Refuse, tables
  <2>2. c.booking \in Requests /\ bookings[c.booking].pc \in Pcs
    BY <1>0, <2>1, CallFields, Typed DEF LockInv, HandlerOk, Moderating
  <2>3. lockedBy'[bookings[c.booking].pc] = r
    BY <1>8, <2>1, <2>2, NeedsOf, NeededHeld DEF Rows, LockInv
  <2>4. lockedBy'[c.booking] = r
    BY <1>0, <1>3, <1>8, <2>1, <2>2 DEF HoldsOk, Moderates, Rows
  <2>. QED
    BY <1>0, <1>8, <2>1, <2>3, <2>4 DEF HoldsOk, PaysFor, KeepsPc, Moderates, Doing
<1>9. CASE /\ CheckReject(r) /\ lockedBy' = LockNeeded(r)
           /\ Proceed(r, IF bookings[c.booking].paid > 0 THEN "refund" ELSE "commit")
  <2>1. at[r] = "start" /\ c.op = "reject_request" /\ UNCHANGED bookings
    BY <1>9 DEF CheckReject, Doing, Proceed, tables
  <2>2. at'[r] = "commit" => ~(bookings[c.booking].paid > 0)
    BY <1>9 DEF Proceed, LockInv, TypeInv, TypeOK, TablesType
  <2>3. lockedBy'[c.booking] = r
    BY <1>0, <1>9, <2>1, NeedsOf, NeededHeld, CallFields DEF Doing, Rows, LockInv, Moderating
  <2>. QED
    BY <1>0, <2>1, <2>2, <2>3 DEF HoldsOk, PaysFor, KeepsPc, Moderates, Doing
<1>10. CASE LockRefunded(r)
  <2>1. /\ at[r] = "refund" /\ at'[r] = "commit" /\ c.op = "reject_request"
        /\ lockedBy' = LockNeeded(r) /\ UNCHANGED bookings
    BY <1>10 DEF LockRefunded, LockOtherUser, Doing, Proceed, LockInv, TypeInv, TypeOK,
                 TablesType, tables
  <2>2. c.booking \in Requests /\ Holder(c.booking) \in Users
    BY <1>0, <2>1, CallFields, Typed DEF LockInv, HandlerOk, Moderating, Holder
  <2>3. lockedBy'[Holder(c.booking)] = r
    BY <2>1, <2>2, NeedsOf, NeededHeld DEF Rows, LockInv, Holder
  <2>4. lockedBy'[c.booking] = r
    BY <1>0, <1>3, <2>1, <2>2 DEF HoldsOk, Moderates, Rows
  <2>. QED
    BY <1>0, <2>1, <2>3, <2>4 DEF HoldsOk, PaysFor, KeepsPc, Moderates, Doing, Holder
<1>11. CASE CheckProduct(r) /\ at'[r] = "commit"
  <2>1. at[r] = "user" /\ c.op = "buy_product" /\ c.actor \in Users
    BY <1>0, <1>11, CallFields DEF CheckProduct, Doing
  <2>2. lockedBy'[c.actor] = r
    BY <1>0, <1>3, <1>11, <2>1 DEF HoldsOk, PaysFor, Rows
  <2>. QED
    BY <1>0, <1>11, <2>1, <2>2 DEF HoldsOk, PaysFor, KeepsPc, Moderates, Doing
<1>12. CASE LockPayer(r) /\ at'[r] = "commit" /\ lockedBy' = LockNeeded(r)
  <2>1. at[r] = "start" /\ c.op = "kaspi_test_top_up" /\ c.actor \in Users
    BY <1>0, <1>12, CallFields DEF LockPayer, Doing
  <2>2. lockedBy'[c.actor] = r
    BY <1>12, <2>1, NeedsOf, NeededHeld DEF Doing, Rows, LockInv
  <2>. QED
    BY <1>0, <1>12, <2>1, <2>2 DEF HoldsOk, PaysFor, KeepsPc, Moderates, Doing
<1>13. CASE LockToppedUp(r) /\ at'[r] = "commit" /\ lockedBy' = LockNeeded(r)
  <2>1. at[r] = "start" /\ c.op = "top_up_balance" /\ c.user \in Users
    BY <1>0, <1>13, CallFields DEF LockToppedUp, Doing
  <2>2. lockedBy'[c.user] = r
    BY <1>13, <2>1, NeedsOf, NeededHeld DEF Doing, Rows, LockInv
  <2>. QED
    BY <1>0, <1>13, <2>1, <2>2 DEF HoldsOk, PaysFor, KeepsPc, Moderates, Doing
<1>14. CASE (\E a : Refuse(r, a)) \/ (\E phase \in {"send", "done"} : Commit(r, phase))
            \/ SendCommand(r)
  <2>1. at'[r] \in {"send", "done"}
    BY <1>14 DEF Refuse, Commit, SendCommand, LockInv, TypeInv, TypeOK, TablesType
  <2>. QED  BY <1>1, <2>1
<1>15. CASE BookingStep(r)
  <2>1. CASE LockActiveUser(r, {"book_seat", "create_booking_request"})
    BY <1>4, <2>1
  <2>2. CASE CheckSeat(r)
    BY <1>5, <1>14, <2>2 DEF CheckSeat, Proceed, LockInv, TypeInv, TypeOK, TablesType
  <2>3. CASE ReadSeat(r)
    BY <1>1, <1>14, <2>3 DEF ReadSeat, Proceed, LockInv, TypeInv, TypeOK, TablesType
  <2>4. CASE CloseActiveBookings(r)
    BY <1>1, <2>4 DEF CloseActiveBookings, Proceed, LockInv, TypeInv, TypeOK, TablesType
  <2>5. CASE CheckRequest(r)
    BY <1>6, <1>14, <2>5 DEF CheckRequest, Proceed, LockInv, TypeInv, TypeOK, TablesType
  <2>6. CASE LockBooking(r)
    BY <1>7, <1>14, <2>6 DEF LockBooking, Proceed, LockInv, TypeInv, TypeOK, TablesType
  <2>7. CASE CheckConfirm(r)
    BY <1>8, <1>14, <2>7 DEF CheckConfirm, Proceed, LockInv, TypeInv, TypeOK, TablesType
  <2>8. CASE CheckReject(r)
    BY <1>9, <1>14, <2>8 DEF CheckReject
  <2>9. CASE BookSeat(r) \/ SetSeat(r) \/ CreateRequest(r) \/ Confirm(r) \/ Reject(r)
    BY <1>14, <2>9 DEF BookSeat, SetSeat, CreateRequest, Confirm, Reject
  <2>10. CASE FlushSeat(r)
    <3>1. /\ at[r] = "flush" /\ at'[r] = "commit" /\ lockedBy' = LockNeeded(r)
          /\ orm' = orm /\ c.op \in {"free_seat", "update_computer_status"}
      BY <1>0, <2>10 DEF FlushSeat, HandlerOk, Proceed, LockInv, TypeInv, TypeOK, TablesType
    <3>2. c.pc \in Pcs /\ (PcSetBy(r) # orm[r].pc => lockedBy'[c.pc] = r)
      BY <1>0, <3>1, NeededHeld, CallFields DEF Needs, Rows, LockInv
    <3>. QED
      BY <1>0, <3>1, <3>2 DEF HoldsOk, PaysFor, KeepsPc, Moderates, Doing, PcSetBy
  <2>. QED
    BY <1>10, <1>14, <1>15, <2>1, <2>2, <2>3, <2>4, <2>5, <2>6, <2>7, <2>8, <2>9, <2>10
    DEF BookingStep
<1>16. CASE PaymentStep(r)
  <2>1. CASE LockActiveUser(r, {"buy_product"})
    BY <1>4, <2>1
  <2>2. CASE CheckProduct(r)
    BY <1>11, <1>14, <2>2 DEF CheckProduct, Proceed, LockInv, TypeInv, TypeOK, TablesType
  <2>3. CASE ReadOrder(r) \/ CompleteOrder(r)
    BY <1>2, <2>3 DEF ReadOrder, CompleteOrder, Doing, Moderating
  <2>4. CASE LockPayer(r)
    BY <1>12, <1>14, <2>4 DEF LockPayer, Proceed, LockInv, TypeInv, TypeOK, TablesType
  <2>5. CASE LockToppedUp(r)
    BY <1>13, <1>14, <2>5
    DEF LockToppedUp, LockOtherUser, Proceed, LockInv, TypeInv, TypeOK, TablesType
  <2>6. CASE BuyProduct(r) \/ KaspiTopUp(r) \/ TopUp(r)
    BY <1>14, <2>6 DEF BuyProduct, KaspiTopUp, TopUp
  <2>. QED
    BY <1>16, <2>1, <2>2, <2>3, <2>4, <2>5, <2>6 DEF PaymentStep
<1>17. CASE ModerationStep(r)
  BY <1>2, <1>17 DEF ModerationStep, ReadClub, ModerateClub, Doing, Moderating
<1>18. CASE DebitFails(r) \/ Fail(r)
  BY <1>14, <1>18 DEF DebitFails, Fail
<1>. QED  BY <1>15, <1>16, <1>17, <1>18 DEF Step

(* A request that has committed or been refused never goes back.           *)
LEMMA FinishedStays ==
  ASSUME LockInv, [Next]_vars, NEW r \in Requests, at[r] \in {"send", "done"}
  PROVE  at'[r] \in {"send", "done"}
<1>1. ASSUME NEW s \in Requests, NEW c \in Calls[s], Arrive(s, c)
      PROVE  at'[r] \in {"send", "done"}
  BY <1>1 DEF Arrive, LockInv, TypeInv, TypeOK, TablesType
<1>2. ASSUME NEW s \in Requests, s # r, Step(s) \/ Fail(s)
      PROVE  at'[r] \in {"send", "done"}
  BY <1>2, RequestsStep DEF LockInv
<1>3. ASSUME Step(r) \/ Fail(r)
      PROVE  at'[r] \in {"send", "done"}
  <2>1. SendCommand(r)
    BY <1>3 DEF Step, BookingStep, LockActiveUser, FlushSeat, DebitFails, CheckSeat, BookSeat,
                ReadSeat, CloseActiveBookings, SetSeat, CheckRequest, CreateRequest,
                LockBooking, CheckConfirm, Confirm, CheckReject, LockRefunded, Reject,
                PaymentStep, CheckProduct, BuyProduct, ReadOrder, CompleteOrder, LockPayer,
                KaspiTopUp, LockToppedUp, TopUp, ModerationStep, ReadClub, ModerateClub, Fail,
                Doing
  <2>. QED
    BY <2>1 DEF SendCommand, LockInv, TypeInv, TypeOK, TablesType
<1>4. CASE CleanupStep \/ AbandonSweep \/ Tick \/ UNCHANGED vars
  BY <1>4 DEF CleanupStep, ScanExpired, ExpirePc, FlushExpired, CommitExpired, AbandonSweep,
              Tick, vars
<1>. QED  BY <1>1, <1>2, <1>3, <1>4 DEF Next

(* The background leaves the requests and their locks alone.               *)
LEMMA BackgroundLocks ==
  ASSUME LockInv, CleanupStep \/ AbandonSweep \/ Tick \/ UNCHANGED vars,
         NEW s \in Requests
  PROVE  /\ at' = at /\ call' = call /\ orm' = orm
         /\ \A x \in Rows : lockedBy[x] = s => lockedBy'[x] = s
<1>1. s # Cleaner /\ s # Null
  BY NamesAssumption
<1>. QED
  BY <1>1 DEF CleanupStep, ScanExpired, ExpirePc, FlushExpired, CommitExpired, AbandonSweep,
              Tick, Released, outside, vars, LockInv, TypeInv, TypeOK, TablesType

LEMMA NextLockInv == LockInv /\ [Next]_vars => LockInv'
<1>. SUFFICES ASSUME LockInv, [Next]_vars  PROVE LockInv'
  OBVIOUS
<1>1. TypeInv'
  BY NextTypeInv DEF LockInv
<1>2. HoldInv'
  <2>. SUFFICES ASSUME NEW s \in Requests  PROVE HoldsOk(s)'
    BY DEF HoldInv
  <2>0. s # Null
    BY NamesAssumption
  <2>1. ASSUME NEW r \in Requests, NEW c \in Calls[r], Arrive(r, c)  PROVE HoldsOk(s)'
    <3>1. CASE r = s
      <4>1. at'[s] = "start"
        BY <2>1, <3>1 DEF Arrive, LockInv, TypeInv, TypeOK, TablesType
      <4>. QED  BY <4>1 DEF HoldsOk, PaysFor, KeepsPc, Moderates, Doing
    <3>2. CASE r # s
      <4>1. /\ at'[s] = at[s] /\ call'[s] = call[s] /\ orm'[s] = orm[s]
            /\ lockedBy' = lockedBy
        BY <2>1, <3>2 DEF Arrive, LockInv, TypeInv, TypeOK, TablesType
      <4>. QED  BY <4>1, HoldsStays
    <3>. QED  BY <3>1, <3>2
  <2>2. ASSUME NEW r \in Requests, Step(r) \/ Fail(r)  PROVE HoldsOk(s)'
    <3>1. CASE r = s
      BY <2>2, <3>1, OwnLocksTaken
    <3>2. CASE r # s
      <4>1. at'[s] = at[s] /\ call'[s] = call[s] /\ orm'[s] = orm[s]
        BY <2>2, <3>2, RequestsStep DEF LockInv
      <4>2. \A x \in Rows : lockedBy[x] = s => lockedBy'[x] = s
        BY <2>0, <2>2, <3>2, LocksStep DEF LocksOfOthersStay, LockInv
      <4>. QED  BY <4>1, <4>2, HoldsStays
    <3>. QED  BY <3>1, <3>2
  <2>3. CASE CleanupStep \/ AbandonSweep \/ Tick \/ UNCHANGED vars
    <3>1. /\ at'[s] = at[s] /\ call'[s] = call[s] /\ orm'[s] = orm[s]
          /\ \A x \in Rows : lockedBy[x] = s => lockedBy'[x] = s
      BY <2>3, BackgroundLocks
    <3>. QED  BY <3>1, HoldsStays
  <2>. QED  BY <2>1, <2>2, <2>3 DEF Next
<1>3. InsertInv'
  <2>. SUFFICES ASSUME NEW r \in Requests, at'[r] \notin {"send", "done"}, bookings'[r] # Null
                PROVE  FALSE
    BY DEF InsertInv
  <2>1. at[r] \notin {"send", "done"}
    BY FinishedStays
  <2>2. bookings[r] = Null
    BY <2>1 DEF LockInv, InsertInv
  <2>3. BookSeat(r) \/ CreateRequest(r)
    BY <2>2, BookingsStep
  <2>. QED
    BY <2>3 DEF BookSeat, CreateRequest, Commit, LockInv, TypeInv, TypeOK, TablesType
<1>. QED  BY <1>1, <1>2, <1>3 DEF LockInv

LEMMA LockInvariant == Spec => []LockInv
<1>1. Init => LockInv
  BY InitLockInv
<1>2. LockInv /\ [Next]_vars => LockInv'
  BY NextLockInv
<1>. QED  BY <1>1, <1>2, PTL DEF Spec

(* The row locks exclude each other: never are two handlers at the same    *)
(* time past the locking of the same user, computer or booking.            *)
THEOREM LocksExclude == Spec => []LockedSections
<1>1. LockInv => LockedSections
  <2>. SUFFICES ASSUME LockInv, NEW r \in Requests, NEW s \in Requests, r # s
                PROVE  /\ \A u \in Users : ~(PaysFor(r, u) /\ PaysFor(s, u))
                       /\ \A p \in Pcs : ~(KeepsPc(r, p) /\ KeepsPc(s, p))
                       /\ \A b \in Requests : ~(Moderates(r, b) /\ Moderates(s, b))
    BY DEF LockedSections
  <2>1. HoldsOk(r) /\ HoldsOk(s)
    BY DEF LockInv, HoldInv
  <2>. QED  BY <2>1 DEF HoldsOk
<1>. QED  BY <1>1, LockInvariant, PTL

-----------------------------------------------------------------------------
(* What was checked under the locks is still so when the handler commits.  *)

(* The computer book_seat is about to sell is free.                        *)
SeatFreeInv ==
  \A r \in Requests : Doing(r, {"book_seat"}, "commit") => pcs[call[r].pc].status = "free"

(* The request create_booking_request is about to insert has no twin.      *)
NoTwinInv ==
  \A r \in Requests :
    Doing(r, {"create_booking_request"}, "commit") =>
      PendingOf(call[r].actor, call[r].pc) = {}

SaleInv == LockInv /\ SeatFreeInv

AskInv == LockInv /\ NoTwinInv /\ OnePendingPerSeat

(* The steps that write computers.                                         *)
LEMMA WhoWritesSeats ==
  ASSUME [Next]_vars
  PROVE  \/ UNCHANGED pcs
         \/ CommitExpired
         \/ \E r \in Requests : BookSeat(r) \/ Confirm(r) \/ SetSeat(r)
<1>1. ASSUME NEW r \in Requests, Step(r) \/ Fail(r)
      PROVE  UNCHANGED pcs \/ BookSeat(r) \/ Confirm(r) \/ SetSeat(r)
  BY <1>1 DEF Step, BookingStep, LockActiveUser, FlushSeat, DebitFails, CheckSeat, ReadSeat,
              CloseActiveBookings, CheckRequest, CreateRequest, LockBooking, CheckConfirm,
              CheckReject, LockRefunded, Reject, LockOtherUser, SendCommand, PaymentStep,
              CheckProduct, BuyProduct, ReadOrder, CompleteOrder, LockPayer, KaspiTopUp,
              LockToppedUp, TopUp, ModerationStep, ReadClub, ModerateClub, Fail, Refuse,
              Proceed, tables
<1>2. ASSUME ~UNCHANGED pcs
      PROVE  CommitExpired \/ \E r \in Requests : Step(r) \/ Fail(r)
  BY <1>2 DEF Next, Arrive, CleanupStep, ScanExpired, ExpirePc, FlushExpired, AbandonSweep,
              Tick, vars, tables
<1>. QED  BY <1>1, <1>2

(* Nobody but the holder of its lock writes a computer's row.              *)
LEMMA LockedPcStays ==
  ASSUME LockInv, [Next]_vars, NEW p \in Pcs, NEW s \in Requests, lockedBy[p] = s,
         at'[s] = at[s]
  PROVE  pcs'[p] = pcs[p]
<1>0. s # Null /\ s # Cleaner
  BY NamesAssumption
<1>1. ASSUME NEW r \in Requests, BookSeat(r)  PROVE pcs'[p] = pcs[p]
  <2>1. at[r] = "commit" /\ at'[r] = "send" /\ KeepsPc(r, call[r].pc)
    BY <1>1 DEF BookSeat, Doing, Commit, LockInv, TypeInv, TypeOK, TablesType, KeepsPc
  <2>2. call[r].pc \in Pcs /\ lockedBy[call[r].pc] = r
    BY <1>1, <2>1, Typed, CallFields DEF LockInv, HoldInv, HoldsOk, BookSeat, Doing
  <2>3. call[r].pc # p
    BY <2>1, <2>2
  <2>. QED  BY <1>1, <2>3 DEF BookSeat, LockInv, TypeInv, TypeOK, TablesType
<1>2. ASSUME NEW r \in Requests, Confirm(r)  PROVE pcs'[p] = pcs[p]
  <2>. DEFINE pc == bookings[call[r].booking].pc
  <2>1. at[r] = "commit" /\ at'[r] = "done" /\ KeepsPc(r, pc) /\ call[r].op = "confirm_request"
    BY <1>2 DEF Confirm, Doing, Commit, LockInv, TypeInv, TypeOK, TablesType, KeepsPc
  <2>2. pc \in Pcs /\ lockedBy[pc] = r
    BY <2>1, Typed, CallFields DEF LockInv, HoldInv, HoldsOk, HandlerOk, Moderating
  <2>3. pc # p
    BY <2>1, <2>2
  <2>. QED  BY <1>2, <2>3 DEF Confirm, LockInv, TypeInv, TypeOK, TablesType
<1>3. ASSUME NEW r \in Requests, SetSeat(r)  PROVE pcs'[p] = pcs[p]
  <2>1. /\ at[r] = "commit" /\ at'[r] \in {"send", "done"}
        /\ call[r].op \in {"free_seat", "update_computer_status"} /\ Unblocked(r)
    BY <1>3 DEF SetSeat, Doing, Commit, LockInv, TypeInv, TypeOK, TablesType
  <2>2. CASE call[r].pc # p
    BY <1>3, <2>2 DEF SetSeat, LockInv, TypeInv, TypeOK, TablesType
  <2>3. CASE PcSetBy(r) # orm[r].pc /\ call[r].pc = p
    <3>1. KeepsPc(r, p)
      BY <2>1, <2>3 DEF KeepsPc, Doing
    <3>. QED  BY <2>1, <3>1 DEF LockInv, HoldInv, HoldsOk
  <2>4. CASE PcSetBy(r) = orm[r].pc /\ call[r].pc = p
    <3>1. FlushedPc(p, orm[r].pc, PcSetBy(r)) = pcs[p]
      BY <2>4 DEF FlushedPc, Column, LockInv, TypeInv, TypeOK, TablesType, PcRow
    <3>. QED
      BY <1>3, <2>4, <3>1 DEF SetSeat, LockInv, TypeInv, TypeOK, TablesType
  <2>. QED  BY <2>2, <2>3, <2>4
<1>4. ASSUME CommitExpired  PROVE pcs'[p] = pcs[p]
  BY <1>0, <1>4 DEF CommitExpired, LockInv, TypeInv, TypeOK, TablesType
<1>5. CASE UNCHANGED pcs
  BY <1>5
<1>. QED  BY <1>1, <1>2, <1>3, <1>4, <1>5, WhoWritesSeats

(* A request is past its checks either because it has just passed them or  *)
(* because it was before.                                                  *)
LEMMA PastChecks ==
  ASSUME LockInv, [Next]_vars, NEW r \in Requests, at'[r] = "commit", at[r] # "commit",
         call'[r].op \in {"book_seat", "create_booking_request"}
  PROVE  /\ call' = call
         /\ \/ CheckSeat(r) /\ BookingVerdict(r) = "ok"
            \/ CheckRequest(r) /\ RequestVerdict(r) = "ok"
         /\ UNCHANGED <<pcs, bookings>>
<1>1. Step(r)
  <2>1. ASSUME NEW s \in Requests, NEW c \in Calls[s], Arrive(s, c)  PROVE FALSE
    BY <2>1 DEF Arrive, LockInv, TypeInv, TypeOK, TablesType
  <2>2. ASSUME NEW s \in Requests, s # r, Step(s) \/ Fail(s)  PROVE FALSE
    BY <2>2, RequestsStep DEF LockInv
  <2>3. ASSUME Fail(r)  PROVE FALSE
    BY <2>3 DEF Fail, Refuse, LockInv, TypeInv, TypeOK, TablesType
  <2>4. ASSUME CleanupStep \/ AbandonSweep \/ Tick \/ UNCHANGED vars  PROVE FALSE
    BY <2>4, BackgroundLocks
  <2>. QED  BY <2>1, <2>2, <2>3, <2>4 DEF Next
<1>2. call' = call
  BY <1>1, RequestsStep DEF LockInv
<1>3. at' \in [Requests -> Phases] /\ at \in [Requests -> Phases] /\ HandlerOk(r)
  BY NextTypeInv DEF LockInv, TypeInv, TypeOK, TablesType, HandlerInv
<1>4. ASSUME (\E a : Refuse(r, a)) \/ (\E phase \in {"send", "done"} : Commit(r, phase))
             \/ Proceed(r, "user") \/ Proceed(r, "booking") \/ SendCommand(r)
      PROVE  FALSE
  BY <1>3, <1>4 DEF Refuse, Commit, Proceed, SendCommand
<1>5. \/ CheckSeat(r) /\ BookingVerdict(r) = "ok" /\ Proceed(r, "commit")
      \/ CheckRequest(r) /\ RequestVerdict(r) = "ok" /\ Proceed(r, "commit")
  <2>1. ASSUME BookingStep(r)
        PROVE  \/ CheckSeat(r) /\ BookingVerdict(r) = "ok" /\ Proceed(r, "commit")
               \/ CheckRequest(r) /\ RequestVerdict(r) = "ok" /\ Proceed(r, "commit")
               \/ (\E a : Refuse(r, a)) \/ (\E phase \in {"send", "done"} : Commit(r, phase))
               \/ Proceed(r, "user") \/ Proceed(r, "booking") \/ SendCommand(r)
    BY <1>2, <1>3, <2>1 DEF HandlerOk, BookingStep, LockActiveUser, FlushSeat, CheckSeat,
                            BookSeat, ReadSeat, CloseActiveBookings, SetSeat, CheckRequest,
                            CreateRequest, LockBooking, CheckConfirm, Confirm, CheckReject,
                            LockRefunded, Reject, Doing
  <2>2. ASSUME DebitFails(r)  PROVE FALSE
    BY <1>4, <2>2 DEF DebitFails
  <2>3. ASSUME PaymentStep(r) \/ ModerationStep(r)
        PROVE  FALSE
    <3>1. call[r].op \in {"buy_product", "complete_order", "kaspi_test_top_up",
                          "top_up_balance", "block_club", "restore_club"}
      <4>1. CASE PaymentStep(r)
        BY <4>1 DEF PaymentStep, LockActiveUser, CheckProduct, BuyProduct, ReadOrder,
           CompleteOrder, LockPayer, KaspiTopUp, LockToppedUp, TopUp, Doing
      <4>2. CASE ModerationStep(r)
        BY <4>2 DEF ModerationStep, ReadClub, ModerateClub, Doing
      <4>. QED  BY <2>3, <4>1, <4>2
    <3>. QED  BY <1>2, <3>1
  <2>. QED  BY <1>1, <1>4, <2>1, <2>2, <2>3 DEF Step
<1>. QED  BY <1>2, <1>5 DEF Proceed, tables

(* A sale: the computer that was free when it was checked, under its lock, *)
(* stays free until the sale commits.                                      *)
LEMMA NextSaleInv == SaleInv /\ [Next]_vars => SaleInv'
<1>. SUFFICES ASSUME SaleInv, [Next]_vars,
                     NEW r \in Requests, Doing(r, {"book_seat"}, "commit")'
              PROVE  pcs'[call'[r].pc].status = "free"
  BY NextLockInv DEF SaleInv, SeatFreeInv
<1>1. LockInv /\ LockInv'
  BY NextLockInv DEF SaleInv
<1>2. CASE at[r] = "commit"
  <2>1. call'[r] = call[r]
    <3>1. CASE \E s \in Requests : \E c \in Calls[s] : Arrive(s, c)
      BY <1>2, <3>1 DEF Arrive, LockInv, SaleInv, TypeInv, TypeOK, TablesType
    <3>2. CASE \E s \in Requests : Step(s) \/ Fail(s)
      BY <1>1, <3>2, RequestsStep DEF LockInv
    <3>3. CASE CleanupStep \/ AbandonSweep \/ Tick \/ UNCHANGED vars
      BY <1>1, <3>3, BackgroundLocks
    <3>. QED  BY <3>1, <3>2, <3>3 DEF Next
  <2>2. Doing(r, {"book_seat"}, "commit") /\ at'[r] = at[r]
    BY <1>2, <2>1 DEF Doing
  <2>3. call[r].pc \in Pcs /\ lockedBy[call[r].pc] = r
    <3>1. call[r].pc \in Pcs
      BY <1>1, <2>2, Typed, CallFields DEF LockInv, Doing
    <3>2. KeepsPc(r, call[r].pc)
      BY <2>2 DEF KeepsPc, Doing
    <3>. QED  BY <1>1, <3>1, <3>2 DEF LockInv, HoldInv, HoldsOk
  <2>4. pcs'[call[r].pc] = pcs[call[r].pc]
    BY <1>1, <2>2, <2>3, LockedPcStays
  <2>. QED  BY <2>1, <2>2, <2>4 DEF SaleInv, SeatFreeInv
<1>3. CASE at[r] # "commit"
  <2>1. at'[r] = "commit" /\ call'[r].op = "book_seat"
    BY DEF Doing
  <2>2. /\ call' = call /\ UNCHANGED <<pcs, bookings>>
        /\ \/ CheckSeat(r) /\ BookingVerdict(r) = "ok"
           \/ CheckRequest(r) /\ RequestVerdict(r) = "ok"
    BY <1>1, <1>3, <2>1, PastChecks
  <2>3. BookingVerdict(r) = "ok"
    BY <2>1, <2>2 DEF CheckRequest, Doing
  <2>. QED  BY <2>2, <2>3 DEF BookingVerdict
<1>. QED  BY <1>2, <1>3

(* book_seat never sells a computer that is not free at that very moment,  *)
(* whatever the administrator, the cleanup task, a confirmation or another *)
(* client did between its check and its commit.                            *)
THEOREM SaleIsExclusive == Spec => SoldWhileFree
<1>1. Init => SaleInv
  BY InitLockInv DEF SaleInv, SeatFreeInv, Init, TablesInit, Doing
<1>2. SaleInv /\ [Next]_vars => SaleInv'
  BY NextSaleInv
<1>3. SaleInv /\ [Next]_vars =>
        [\A b \in Requests :
           /\ bookings[b] = Null /\ bookings'[b] # Null
           /\ bookings'[b].status = "active"
           => pcs[bookings'[b].pc].status = "free"]_vars
  <2>. SUFFICES ASSUME SaleInv, [Next]_vars, NEW b \in Requests,
                       bookings[b] = Null, bookings'[b] # Null, bookings'[b].status = "active"
                PROVE  pcs[bookings'[b].pc].status = "free"
    OBVIOUS
  <2>1. BookSeat(b) \/ CreateRequest(b)
    BY BookingsStep DEF SaleInv
  <2>2. CASE BookSeat(b)
    <3>1. bookings'[b].pc = call[b].pc
      BY <2>2 DEF BookSeat, NewBooking, SaleInv, LockInv, TypeInv, TypeOK, TablesType
    <3>. QED  BY <2>2, <3>1 DEF BookSeat, SaleInv, SeatFreeInv
  <2>3. CASE CreateRequest(b)
    <3>1. bookings'[b].status = "pending"
      BY <2>3 DEF CreateRequest, NewBooking, SaleInv, LockInv, TypeInv, TypeOK, TablesType
    <3>. QED  BY <3>1
  <2>. QED  BY <2>1, <2>2, <2>3
<1>. QED  BY <1>1, <1>2, <1>3, PTL DEF Spec, SoldWhileFree

(* The pending bookings of a client for a computer grow by its own commit  *)
(* alone.                                                                  *)
LEMMA PendingStep ==
  ASSUME LockInv, [Next]_vars, NEW u \in Users, NEW p \in Pcs, NEW b \in PendingOf(u, p)'
  PROVE  b \in PendingOf(u, p) \/ (CreateRequest(b) /\ call[b].actor = u /\ call[b].pc = p)
<1>1. /\ b \in Requests /\ bookings'[b] # Null
      /\ bookings'[b].user = u /\ bookings'[b].pc = p /\ bookings'[b].status = "pending"
  BY DEF PendingOf
<1>2. CASE bookings[b] # Null
  BY <1>1, <1>2, BookingsStep DEF BookingKept, PendingOf
<1>3. CASE bookings[b] = Null
  <2>1. CASE BookSeat(b)
    <3>1. bookings'[b].status = "active"
      BY <1>1, <2>1 DEF BookSeat, NewBooking, LockInv, TypeInv, TypeOK, TablesType
    <3>. QED  BY <1>1, <3>1
  <2>2. CASE CreateRequest(b)
    BY <1>1, <2>2 DEF CreateRequest, NewBooking, LockInv, TypeInv, TypeOK, TablesType
  <2>. QED  BY <1>1, <1>3, <2>1, <2>2, BookingsStep
<1>. QED  BY <1>2, <1>3

LEMMA NextAskInv == AskInv /\ [Next]_vars => AskInv'
<1>. SUFFICES ASSUME AskInv, [Next]_vars  PROVE AskInv'
  OBVIOUS
<1>1. LockInv /\ LockInv'
  BY NextLockInv DEF AskInv
<1>2. NoTwinInv'
  <2>. SUFFICES ASSUME NEW r \in Requests, Doing(r, {"create_booking_request"}, "commit")'
                PROVE  PendingOf(call[r].actor, call[r].pc)' = {}
    BY DEF NoTwinInv
  <2>0. call'[r].actor \in Users /\ call'[r].pc \in Pcs
    BY <1>1, CallFields DEF LockInv, TypeInv, HandlerInv, HandlerOk, Doing
  <2>1. CASE at[r] = "commit"
    <3>1. call'[r] = call[r]
      <4>1. CASE \E s \in Requests : \E c \in Calls[s] : Arrive(s, c)
        BY <1>1, <2>1, <4>1 DEF Arrive, LockInv, TypeInv, TypeOK, TablesType
      <4>2. CASE \E s \in Requests : Step(s) \/ Fail(s)
        BY <1>1, <4>2, RequestsStep DEF LockInv
      <4>3. CASE CleanupStep \/ AbandonSweep \/ Tick \/ UNCHANGED vars
        BY <1>1, <4>3, BackgroundLocks
      <4>. QED  BY <4>1, <4>2, <4>3 DEF Next
    <3>2. Doing(r, {"create_booking_request"}, "commit") /\ at'[r] = "commit"
      BY <2>1, <3>1 DEF Doing
    <3>3. ASSUME NEW b \in PendingOf(call[r].actor, call[r].pc)'  PROVE FALSE
      <4>1. CASE CreateRequest(b)
        <5>1. b \in Requests /\ at[b] = "commit" /\ at'[b] = "done"
          BY <1>1, <3>3, <4>1 DEF PendingOf, CreateRequest, Doing, Commit, LockInv, TypeInv,
                                  TypeOK, TablesType
        <5>2. b # r
          BY <3>2, <5>1
        <5>3. CASE call[b].actor = call[r].actor
          <6>1. PaysFor(b, call[r].actor) /\ PaysFor(r, call[r].actor)
            BY <3>2, <4>1, <5>3 DEF PaysFor, CreateRequest, Doing
          <6>. QED
            BY <1>1, <2>0, <3>1, <5>1, <5>2, <6>1 DEF LockInv, HoldInv, HoldsOk
        <5>4. CASE call[b].actor # call[r].actor
          BY <1>1, <2>0, <3>1, <3>2, <3>3, <5>4, PendingStep DEF AskInv, NoTwinInv
        <5>. QED  BY <5>3, <5>4
      <4>2. CASE ~CreateRequest(b)
        BY <1>1, <2>0, <3>1, <3>2, <3>3, <4>2, PendingStep DEF AskInv, NoTwinInv
      <4>. QED  BY <4>1, <4>2
    <3>. QED  BY <3>3
  <2>2. CASE at[r] # "commit"
    <3>1. at'[r] = "commit" /\ call'[r].op = "create_booking_request"
      BY DEF Doing
    <3>2. /\ call' = call /\ UNCHANGED <<pcs, bookings>>
          /\ \/ CheckSeat(r) /\ BookingVerdict(r) = "ok"
             \/ CheckRequest(r) /\ RequestVerdict(r) = "ok"
      BY <1>1, <2>2, <3>1, PastChecks
    <3>3. RequestVerdict(r) = "ok"
      BY <3>1, <3>2 DEF CheckSeat, Doing
    <3>. QED  BY <3>2, <3>3 DEF RequestVerdict, PendingOf
  <2>. QED  BY <2>1, <2>2
<1>3. OnePendingPerSeat'
  <2>. SUFFICES ASSUME NEW u \in Users, NEW p \in Pcs,
                       NEW a \in PendingOf(u, p)', NEW b \in PendingOf(u, p)'
                PROVE  a = b
    BY DEF OnePendingPerSeat
  <2>1. ASSUME NEW x \in PendingOf(u, p)', CreateRequest(x), call[x].actor = u,
               call[x].pc = p, NEW y \in PendingOf(u, p)'
        PROVE  x = y
    <3>1. x \in Requests /\ y \in Requests
      BY <2>1 DEF PendingOf
    <3>2. PendingOf(u, p) = {}
      BY <2>1, <3>1 DEF AskInv, NoTwinInv, CreateRequest
    <3>3. CreateRequest(y)
      BY <1>1, <2>1, <3>2, PendingStep
    <3>. QED
      BY <1>1, <2>1, <3>1, <3>3 DEF CreateRequest, Commit, LockInv, TypeInv, TypeOK, TablesType,
                                    Doing
  <2>. QED  BY <1>1, <2>1, PendingStep DEF AskInv, OnePendingPerSeat
<1>. QED  BY <1>1, <1>2, <1>3 DEF AskInv

(* Overlapping create_booking_request calls never leave a client with two  *)
(* pending requests for one computer: the check for a twin and the insert  *)
(* happen under the lock of the client's own row.                          *)
THEOREM NoTwinRequests == Spec => []OnePendingPerSeat
<1>1. Init => AskInv
  BY InitLockInv DEF AskInv, NoTwinInv, OnePendingPerSeat, PendingOf, Init, TablesInit, Doing
<1>2. AskInv /\ [Next]_vars => AskInv'
  BY NextAskInv
<1>3. AskInv => OnePendingPerSeat
  BY DEF AskInv
<1>. QED  BY <1>1, <1>2, <1>3, PTL DEF Spec

-----------------------------------------------------------------------------
(* Who sits at a computer was granted it.                                  *)

(* A request is still pending while a manager who found it so decides it.  *)
PendingInv ==
  \A r \in Requests :
    Doing(r, Moderating, "commit") \/ Doing(r, {"reject_request"}, "refund") =>
      StillPending(call[r].booking)

GrantInv == LockInv /\ PendingInv /\ SeatWasGranted

(* Only its own step takes a request past its start.                       *)
LEMMA MovedByItself ==
  ASSUME LockInv, [Next]_vars, NEW r \in Requests, at'[r] \notin {"new", "start"}
  PROVE  call'[r] = call[r] /\ (at'[r] = at[r] \/ Step(r) \/ Fail(r))
<1>1. ASSUME NEW s \in Requests, NEW c \in Calls[s], Arrive(s, c)
      PROVE  call'[r] = call[r] /\ at'[r] = at[r]
  BY <1>1 DEF Arrive, LockInv, TypeInv, TypeOK, TablesType
<1>2. ASSUME NEW s \in Requests, Step(s) \/ Fail(s)
      PROVE  call'[r] = call[r] /\ (at'[r] = at[r] \/ Step(r) \/ Fail(r))
  BY <1>2, RequestsStep DEF LockInv
<1>. QED  BY <1>1, <1>2, BackgroundLocks DEF Next

(* Nobody but the manager who locked it writes a booking's row.            *)
LEMMA LockedBookingStays ==
  ASSUME LockInv, [Next]_vars, NEW b \in Requests, NEW s \in Requests, Moderates(s, b),
         at'[s] = at[s]
  PROVE  bookings'[b] = bookings[b]
<1>0. lockedBy[b] = s /\ bookings[b] # Null /\ s # Null /\ s # Cleaner
  BY NamesAssumption DEF LockInv, HoldInv, HoldsOk, TypeInv, LockedRowsInv
<1>1. ASSUME NEW r \in Requests, BookSeat(r) \/ CreateRequest(r)
      PROVE  bookings'[b] = bookings[b]
  <2>1. b # r
    BY <1>0, <1>1 DEF LockInv, InsertInv, BookSeat, CreateRequest, Doing
  <2>. QED  BY <1>1, <2>1 DEF BookSeat, CreateRequest, LockInv, TypeInv, TypeOK, TablesType
<1>2. ASSUME NEW r \in Requests, SetSeat(r)  PROVE bookings'[b] = bookings[b]
  <2>1. r # s
    BY <1>2 DEF SetSeat, Doing, Moderates
  <2>. QED  BY <1>0, <1>2, <2>1 DEF SetSeat, ClosedBy
<1>3. ASSUME NEW r \in Requests, Confirm(r) \/ Reject(r)  PROVE bookings'[b] = bookings[b]
  <2>1. at[r] = "commit" /\ at'[r] = "done" /\ Moderates(r, call[r].booking)
    BY <1>3 DEF Confirm, Reject, Doing, Commit, Moderates, LockInv, TypeInv, TypeOK, TablesType
  <2>2. call[r].booking # b
    BY <1>0, <2>1 DEF LockInv, HoldInv, HoldsOk
  <2>. QED  BY <1>3, <2>2 DEF Confirm, Reject, LockInv, TypeInv, TypeOK, TablesType
<1>4. ASSUME CommitExpired  PROVE bookings'[b] = bookings[b]
  BY <1>0, <1>4 DEF CommitExpired
<1>5. \/ UNCHANGED bookings \/ CommitExpired
      \/ \E r \in Requests : \/ BookSeat(r) \/ CreateRequest(r) \/ SetSeat(r)
                             \/ Confirm(r) \/ Reject(r)
  BY WhoWritesBookings
<1>. QED  BY <1>1, <1>2, <1>3, <1>4, <1>5

(* A manager decides a request that was pending when he locked it.         *)
LEMMA NextPendingInv == LockInv /\ PendingInv /\ [Next]_vars => PendingInv'
<1>. SUFFICES ASSUME LockInv, PendingInv, [Next]_vars, NEW r \in Requests,
                     (Doing(r, Moderating, "commit") \/ Doing(r, {"reject_request"}, "refund"))'
              PROVE  StillPending(call[r].booking)'
  BY DEF PendingInv
<1>. DEFINE b == call[r].booking
<1>0. call'[r] = call[r] /\ call[r].op \in Moderating /\ at'[r] \in {"commit", "refund"}
  BY MovedByItself DEF Doing, Moderating
<1>1. CASE at'[r] = at[r]
  <2>1. b \in Requests
    BY <1>0, <1>1, Typed, CallFields DEF LockInv
  <2>2. Moderates(r, b) /\ StillPending(b)
    BY <1>0, <1>1 DEF Moderates, PendingInv, Doing, Moderating
  <2>. QED  BY <1>0, <1>1, <2>1, <2>2, LockedBookingStays DEF StillPending
<1>2. CASE at'[r] # at[r]
  <2>1. Step(r) \/ Fail(r)
    BY <1>0, <1>2, MovedByItself
  <2>2. CheckConfirm(r) \/ CheckReject(r) \/ LockRefunded(r)
    <3>1. ASSUME (\E a : Refuse(r, a)) \/ (\E phase \in {"send", "done"} : Commit(r, phase))
                 \/ Proceed(r, "user") \/ Proceed(r, "booking") \/ SendCommand(r)
          PROVE  FALSE
      BY <1>0, <3>1 DEF Refuse, Commit, Proceed, SendCommand, LockInv, TypeInv, TypeOK, TablesType
    <3>2. ASSUME PaymentStep(r) \/ ModerationStep(r)
          PROVE  FALSE
      BY <1>0, <3>2 DEF PaymentStep, LockActiveUser, CheckProduct, BuyProduct, ReadOrder,
         CompleteOrder, LockPayer, KaspiTopUp, LockToppedUp, TopUp, ModerationStep, ReadClub,
         ModerateClub, Doing, Moderating
    <3>3. ASSUME CloseActiveBookings(r) \/ FlushSeat(r)  PROVE FALSE
      BY <1>0, <3>3
      DEF CloseActiveBookings, FlushSeat, LockInv, TypeInv, HandlerInv, HandlerOk, Moderating
    <3>4. ASSUME BookingStep(r)
          PROVE  CheckConfirm(r) \/ CheckReject(r) \/ LockRefunded(r)
      BY <1>0, <3>1, <3>3, <3>4 DEF BookingStep, LockActiveUser, CheckSeat, BookSeat,
                                    ReadSeat, SetSeat, CheckRequest, CreateRequest, LockBooking,
                                    Confirm, Reject, Doing, Moderating
    <3>5. ~Fail(r) /\ ~DebitFails(r)
      BY <3>1 DEF Fail, DebitFails
    <3>. QED  BY <2>1, <3>2, <3>4, <3>5 DEF Step
  <2>3. StillPending(b) /\ UNCHANGED bookings
    BY <1>0, <2>2
    DEF CheckConfirm, CheckReject, LockRefunded, LockOtherUser, Refuse, Proceed, tables,
        PendingInv, LockInv, TypeInv, TypeOK, TablesType
  <2>. QED  BY <1>0, <2>3 DEF StillPending
<1>. QED  BY <1>1, <1>2

(* The booking b grants its client the computer p until its end.           *)
Grants(b, p, occupant, endTime) ==
  /\ bookings[b] # Null
  /\ bookings[b].user = occupant /\ bookings[b].pc = p
  /\ bookings[b].status \in {"active", "completed", "expired"}
  /\ endTime \in {bookings[b].endsAt, Null}

(* What was granted is never pending again and never rejected.             *)
LEMMA GrantStays ==
  ASSUME LockInv, PendingInv, [Next]_vars, NEW b \in Requests, NEW p, NEW occupant, NEW endTime,
         Grants(b, p, occupant, endTime)
  PROVE  Grants(b, p, occupant, endTime)'
<1>1. bookings[b] \in BookingRow /\ BookingKept(b)
  BY BookingsStep DEF Grants, LockInv, TypeInv, TypeOK, TablesType
<1>2. ASSUME NEW h, NEW status \in {"completed", "expired"}, bookings' = ClosedBy(h, status)
      PROVE  bookings'[b].status \in {bookings[b].status, status}
  BY <1>1, <1>2 DEF ClosedBy, BookingRow
<1>3. ASSUME NEW r \in Requests, BookSeat(r) \/ CreateRequest(r)
      PROVE  bookings'[b] = bookings[b]
  <2>1. b # r
    BY <1>3 DEF LockInv, InsertInv, BookSeat, CreateRequest, Doing, Grants
  <2>. QED  BY <1>3, <2>1 DEF BookSeat, CreateRequest, LockInv, TypeInv, TypeOK, TablesType
<1>4. ASSUME NEW r \in Requests, Confirm(r)
      PROVE  bookings'[b].status \in {bookings[b].status, "active"}
  BY <1>1, <1>4 DEF Confirm, BookingRow, LockInv, TypeInv, TypeOK, TablesType
<1>5. ASSUME NEW r \in Requests, Reject(r)  PROVE bookings'[b] = bookings[b]
  <2>1. StillPending(call[r].booking)
    BY <1>5 DEF Reject, Doing, PendingInv, Moderating
  <2>2. b # call[r].booking
    BY <2>1 DEF StillPending, Grants
  <2>. QED  BY <1>5, <2>2 DEF Reject, LockInv, TypeInv, TypeOK, TablesType
<1>6. bookings'[b].status \in {"active", "completed", "expired"}
  <2>1. CASE CommitExpired
    <3>1. bookings' = ClosedBy(Cleaner, "expired")
      BY <2>1 DEF CommitExpired, ClosedBy
    <3>. QED  BY <1>2, <3>1 DEF Grants
  <2>2. ASSUME NEW r \in Requests, SetSeat(r)
        PROVE  bookings'[b].status \in {"active", "completed", "expired"}
    BY <1>2, <2>2 DEF SetSeat, Grants
  <2>. QED  BY <1>3, <1>4, <1>5, <2>1, <2>2, WhoWritesBookings DEF Grants
<1>. QED  BY <1>1, <1>6 DEF Grants, BookingKept

(* A computer's row comes to show a client only by a sale or by a          *)
(* confirmation; everything else leaves or clears its columns.             *)
LEMMA SeatStep ==
  ASSUME LockInv, [Next]_vars, NEW p \in Pcs
  PROVE  \/ /\ pcs'[p].occupant \in {pcs[p].occupant, Null}
            /\ pcs'[p].endTime \in {pcs[p].endTime, Null}
         \/ \E r \in Requests : BookSeat(r) /\ call[r].pc = p
         \/ \E r \in Requests : Confirm(r) /\ bookings[call[r].booking].pc = p
<1>1. ASSUME NEW r \in Requests, BookSeat(r), call[r].pc # p  PROVE pcs'[p] = pcs[p]
  BY <1>1 DEF BookSeat, LockInv, TypeInv, TypeOK, TablesType
<1>2. ASSUME NEW r \in Requests, Confirm(r), bookings[call[r].booking].pc # p
      PROVE  pcs'[p] = pcs[p]
  BY <1>2 DEF Confirm, LockInv, TypeInv, TypeOK, TablesType
<1>3. ASSUME NEW r \in Requests, SetSeat(r)
      PROVE  /\ pcs'[p].occupant \in {pcs[p].occupant, Null}
             /\ pcs'[p].endTime \in {pcs[p].endTime, Null}
  <2>1. CASE call[r].pc # p
    BY <1>3, <2>1 DEF SetSeat, LockInv, TypeInv, TypeOK, TablesType
  <2>2. CASE call[r].pc = p
    <3>1. pcs'[p] = FlushedPc(p, orm[r].pc, PcSetBy(r))
      BY <1>3, <2>2 DEF SetSeat, LockInv, TypeInv, TypeOK, TablesType
    <3>2. orm[r].pc \in PcRow
      BY DEF LockInv, TypeInv, TypeOK, TablesType, OrmType
    <3>3. /\ PcSetBy(r).occupant \in {orm[r].pc.occupant, Null}
          /\ PcSetBy(r).endTime \in {orm[r].pc.endTime, Null}
      BY <3>2 DEF PcSetBy, FreePc, PcRow
    <3>. QED  BY <3>1, <3>3 DEF FlushedPc, Column
  <2>. QED  BY <2>1, <2>2
<1>4. ASSUME CommitExpired
      PROVE  /\ pcs'[p].occupant \in {pcs[p].occupant, Null}
             /\ pcs'[p].endTime \in {pcs[p].endTime, Null}
  BY <1>4 DEF CommitExpired, ReleasedPc, Column
<1>. QED  BY <1>1, <1>2, <1>3, <1>4, WhoWritesSeats

LEMMA NextGrantInv == GrantInv /\ [Next]_vars => GrantInv'
<1>. SUFFICES ASSUME GrantInv, [Next]_vars  PROVE GrantInv'
  OBVIOUS
<1>1. LockInv /\ LockInv' /\ PendingInv /\ PendingInv'
  BY NextLockInv, NextPendingInv DEF GrantInv
<1>2. SeatWasGranted'
  <2>. SUFFICES ASSUME NEW p \in Pcs, pcs'[p].occupant # Null
                PROVE  \E b \in Requests : Grants(b, p, pcs[p].occupant, pcs[p].endTime)'
    BY DEF SeatWasGranted, Grants
  <2>1. CASE /\ pcs'[p].occupant \in {pcs[p].occupant, Null}
             /\ pcs'[p].endTime \in {pcs[p].endTime, Null}
    <3>1. PICK b \in Requests : Grants(b, p, pcs[p].occupant, pcs[p].endTime)
      BY <2>1 DEF GrantInv, SeatWasGranted, Grants
    <3>2. Grants(b, p, pcs'[p].occupant, pcs'[p].endTime)
      BY <2>1, <3>1 DEF Grants
    <3>. QED  BY <1>1, <3>2, GrantStays DEF Grants
  <2>2. ASSUME NEW r \in Requests, BookSeat(r), call[r].pc = p
        PROVE  Grants(r, p, pcs[p].occupant, pcs[p].endTime)'
    <3>1. /\ pcs'[p].occupant = call[r].actor /\ pcs'[p].endTime = orm[r].until
          /\ bookings'[r] = NewBooking(r, "active", Price[call[r].package], orm[r].until)
      BY <1>1, <2>2 DEF BookSeat, LockInv, TypeInv, TypeOK, TablesType
    <3>2. bookings'[r] # Null
      BY <1>1, <2>2, InsertedRow
    <3>. QED  BY <2>2, <3>1, <3>2 DEF Grants, NewBooking
  <2>3. ASSUME NEW r \in Requests, Confirm(r), bookings[call[r].booking].pc = p
        PROVE  \E b \in Requests : Grants(b, p, pcs[p].occupant, pcs[p].endTime)'
    <3>1. CASE orm[r].pc.status # "free"
      BY <2>1, <2>3, <3>1 DEF Confirm
    <3>2. CASE orm[r].pc.status = "free"
      <4>. DEFINE b == call[r].booking
      <4>1. b \in Requests /\ bookings[b] # Null
        BY <1>1, <2>3, Typed, CallFields
        DEF Confirm, Doing, HandlerOk, Moderating, LockInv
      <4>2. BookingKept(b) /\ bookings'[b].status = "active"
        <5>1. bookings[b] \in BookingRow
          BY <1>1, <4>1 DEF LockInv, TypeInv, TypeOK, TablesType
        <5>. QED
          BY <1>1, <2>3, <4>1, <5>1, BookingsStep
          DEF Confirm, BookingRow, LockInv, TypeInv, TypeOK, TablesType
      <4>3. pcs'[p].occupant = bookings[b].user /\ pcs'[p].endTime = bookings[b].endsAt
        BY <1>1, <2>3, <3>2 DEF Confirm, Holder, LockInv, TypeInv, TypeOK, TablesType
      <4>. QED  BY <2>3, <4>1, <4>2, <4>3 DEF Grants, BookingKept
    <3>. QED  BY <3>1, <3>2
  <2>. QED  BY <1>1, <2>1, <2>2, <2>3, SeatStep
<1>. QED  BY <1>1, <1>2 DEF GrantInv

(* Nobody is shown at a computer that was not sold or confirmed to him:    *)
(* not by a request decided twice, by a status change made from a row read *)
(* before, by the cleanup task, or by any of them overlapping.             *)
THEOREM SeatsAreGranted == Spec => []SeatWasGranted
<1>1. Init => GrantInv
  BY InitLockInv DEF GrantInv, PendingInv, SeatWasGranted, Init, TablesInit, FreePc, Doing
<1>2. GrantInv /\ [Next]_vars => GrantInv'
  BY NextGrantInv
<1>3. GrantInv => SeatWasGranted
  BY DEF GrantInv
<1>. QED  BY <1>1, <1>2, <1>3, PTL DEF Spec

-----------------------------------------------------------------------------
(* Who makes which calls, and what they hold.                              *)

CalledInv == \A r \in Requests : at[r] # "new" => call[r] \in Calls[r]

LEMMA NextCalledInv == LockInv /\ CalledInv /\ [Next]_vars => CalledInv'
<1>. SUFFICES ASSUME LockInv, CalledInv, [Next]_vars, NEW r \in Requests, at'[r] # "new"
              PROVE  call'[r] \in Calls[r]
  BY DEF CalledInv
<1>1. ASSUME NEW s \in Requests, NEW c \in Calls[s], Arrive(s, c)
      PROVE  call'[r] \in Calls[r]
  BY <1>1 DEF Arrive, CalledInv, LockInv, TypeInv, TypeOK, TablesType
<1>2. ASSUME NEW s \in Requests, Step(s) \/ Fail(s)
      PROVE  call'[r] \in Calls[r]
  <2>1. call' = call /\ at[r] # "new"
    BY <1>2, RequestsStep DEF LockInv
  <2>. QED  BY <2>1 DEF CalledInv
<1>. QED  BY <1>1, <1>2, BackgroundLocks DEF Next, CalledInv

(* No request touches what the cleanup task has read.                      *)
LEMMA SweepUntouched ==
  ASSUME NEW s \in Requests, Step(s) \/ Fail(s)
  PROVE  sweep' = sweep
<1>1. ASSUME BookingStep(s)  PROVE sweep' = sweep
  BY <1>1 DEF BookingStep, LockActiveUser, FlushSeat, CheckSeat, BookSeat, ReadSeat,
              CloseActiveBookings, SetSeat, CheckRequest, CreateRequest, LockBooking,
              CheckConfirm, Confirm, CheckReject, LockRefunded, LockOtherUser, Reject,
              SendCommand, Refuse, Commit, Proceed, outside
<1>2. ASSUME PaymentStep(s)  PROVE sweep' = sweep
  BY <1>2 DEF PaymentStep, LockActiveUser, CheckProduct, BuyProduct, ReadOrder,
     CompleteOrder, LockPayer, KaspiTopUp, LockToppedUp, LockOtherUser, TopUp, Refuse, Commit,
     Proceed, outside
<1>3. ASSUME ModerationStep(s) \/ DebitFails(s) \/ Fail(s)  PROVE sweep' = sweep
  BY <1>3 DEF ModerationStep, ReadClub, ModerateClub, DebitFails, Fail, Refuse, Commit,
     Proceed, outside
<1>. QED  BY <1>1, <1>2, <1>3 DEF Step

(* The locks a request or the cleanup task holds.                          *)
Held(h) == {x \in Rows : lockedBy[x] = h}

HeldOk(r) ==
  /\ at[r] \in {"new", "start", "update", "send", "done"} => Held(r) = {}
  /\ at[r] = "user" => Held(r) \subseteq Users
  /\ at[r] \in {"booking", "refund", "flush"} => Held(r) \subseteq Requests

HeldInv == \A r \in Requests : HeldOk(r)

SweepHeldInv ==
  /\ sweep.at = "idle" => Held(Cleaner) = {}
  /\ sweep.todo # {} => Held(Cleaner) \subseteq Requests

(* A statement adds what it needs, a commit and a refusal leave nothing.   *)
LEMMA HeldByItself ==
  ASSUME LockInv, NEW r \in Requests
  PROVE  /\ lockedBy' = LockNeeded(r) => Held(r)' \subseteq Held(r) \cup Needs(r)
         /\ UNCHANGED lockedBy => Held(r)' = Held(r)
         /\ (\E a : Refuse(r, a)) \/ (\E phase \in {"send", "done"} : Commit(r, phase)) =>
              Held(r)' = {} /\ at'[r] \in {"send", "done"}
<1>1. r # Null
  BY NamesAssumption
<1>2. lockedBy' = Released(r) => Held(r)' = {}
  BY <1>1 DEF Held, Released
<1>3. (\E a : Refuse(r, a)) \/ (\E phase \in {"send", "done"} : Commit(r, phase)) =>
        lockedBy' = Released(r) /\ at'[r] \in {"send", "done"}
  BY DEF Refuse, Commit, LockInv, TypeInv, TypeOK, TablesType
<1>. QED  BY <1>2, <1>3 DEF Held, LockNeeded

LEMMA HeldByOthers ==
  ASSUME LockInv, NEW h \in Holders, NEW s \in Requests, s # h, Step(s) \/ Fail(s)
  PROVE  Held(h)' \subseteq Held(h)
<1>1. s # Null /\ h # Null
  BY NamesAssumption DEF Holders
<1>2. \A x \in Rows : lockedBy'[x] \in {lockedBy[x], s, Null}
  BY LockCases DEF Refuse, Commit, Released, LockNeeded
<1>. QED  BY <1>1, <1>2 DEF Held

LEMMA HeldInBackground ==
  ASSUME LockInv, NEW r \in Requests, CleanupStep \/ AbandonSweep \/ Tick \/ UNCHANGED vars
  PROVE  Held(r)' \subseteq Held(r)
<1>1. Cleaner # r /\ r # Null
  BY NamesAssumption
<1>2. \A x \in Rows : lockedBy'[x] \in {lockedBy[x], Cleaner, Null}
  BY DEF CleanupStep, ScanExpired, ExpirePc, FlushExpired, CommitExpired, AbandonSweep, Tick,
         Released, vars, LockInv, TypeInv, TypeOK, TablesType
<1>. QED  BY <1>1, <1>2 DEF Held

(* A handler that stays where it is holds no more than before.             *)
LEMMA HeldStays ==
  ASSUME NEW r \in Requests, HeldOk(r), Held(r)' \subseteq Held(r), at'[r] = at[r]
  PROVE  HeldOk(r)'
BY DEF HeldOk

LEMMA OwnLocksHeld ==
  ASSUME LockInv, NEW r \in Requests, HeldOk(r), Step(r) \/ Fail(r)
  PROVE  HeldOk(r)'
<1>. DEFINE c == call[r]
<1>0. at[r] # "new" /\ call' = call /\ HandlerOk(r) /\ c \in CallType
  BY RequestsStep, Typed DEF LockInv
<1>1. CASE (\E a : Refuse(r, a)) \/ (\E phase \in {"send", "done"} : Commit(r, phase))
  BY <1>1, HeldByItself DEF HeldOk
<1>2. ASSUME NEW phase, Proceed(r, phase)
      PROVE  at'[r] = phase
  BY <1>2 DEF Proceed, LockInv, TypeInv, TypeOK, TablesType
<1>3. ASSUME NEW ops, LockActiveUser(r, ops),
             ops \subseteq {"book_seat", "create_booking_request", "buy_product"}
      PROVE  HeldOk(r)'
  <2>1. at[r] = "start" /\ at'[r] = "user" /\ Needs(r) = {c.actor} /\ lockedBy' = LockNeeded(r)
    BY <1>2, <1>3, NeedsOf DEF LockActiveUser, Doing
  <2>2. Held(r)' \subseteq {c.actor} /\ c.actor \in Users
    BY <1>0, <2>1, HeldByItself, CallFields DEF HeldOk
  <2>. QED  BY <2>1, <2>2 DEF HeldOk
<1>4. CASE at'[r] = "commit"
  BY <1>4 DEF HeldOk
<1>5. CASE BookingStep(r)
  <2>1. CASE LockActiveUser(r, {"book_seat", "create_booking_request"})
    BY <1>3, <2>1
  <2>2. CASE CheckSeat(r) \/ CheckRequest(r) \/ CheckConfirm(r) \/ FlushSeat(r)
    BY <1>1, <1>2, <1>4, <2>2 DEF CheckSeat, CheckRequest, CheckConfirm, FlushSeat
  <2>3. CASE BookSeat(r) \/ SetSeat(r) \/ CreateRequest(r) \/ Confirm(r) \/ Reject(r)
    BY <1>1, <2>3 DEF BookSeat, SetSeat, CreateRequest, Confirm, Reject
  <2>4. CASE /\ ReadSeat(r) /\ UNCHANGED lockedBy
             /\ \E phase \in {"update", "flush"} : Proceed(r, phase)
    <3>1. at[r] = "start" /\ at'[r] \in {"update", "flush"}
      BY <1>2, <2>4 DEF ReadSeat, Doing
    <3>2. Held(r)' = {}
      BY <2>4, <3>1, HeldByItself DEF HeldOk
    <3>. QED  BY <3>1, <3>2 DEF HeldOk
  <2>5. CASE CloseActiveBookings(r)
    <3>1. at[r] = "update" /\ at'[r] = "flush" /\ lockedBy' = LockNeeded(r)
      BY <1>2, <2>5 DEF CloseActiveBookings
    <3>2. Held(r)' \subseteq Requests
      BY <3>1, NeedsOf, HeldByItself DEF HeldOk, ActiveOn
    <3>. QED  BY <3>1, <3>2 DEF HeldOk
  <2>6. ASSUME NEW phase \in {"booking", "refund"}, Doing(r, Moderating, "start"),
               lockedBy' = LockNeeded(r), Proceed(r, phase)
        PROVE  HeldOk(r)'
    <3>1. at[r] = "start" /\ at'[r] \in {"booking", "refund"} /\ c.booking \in Requests
      BY <1>0, <1>2, <2>6, CallFields DEF Doing
    <3>2. Held(r)' \subseteq {c.booking}
      BY <2>6, <3>1, NeedsOf, HeldByItself DEF HeldOk, Doing
    <3>. QED  BY <3>1, <3>2 DEF HeldOk
  <2>7. CASE LockBooking(r)
    BY <1>1, <2>6, <2>7 DEF LockBooking, Doing, Moderating
  <2>8. CASE CheckReject(r)
    <3>1. \/ \E a : Refuse(r, a)
          \/ /\ Doing(r, Moderating, "start") /\ lockedBy' = LockNeeded(r)
             /\ Proceed(r, IF bookings[c.booking].paid > 0 THEN "refund" ELSE "commit")
      BY <2>8 DEF CheckReject, Doing, Moderating
    <3>2. CASE bookings[c.booking].paid > 0
      BY <1>1, <2>6, <3>1, <3>2
    <3>3. CASE ~(bookings[c.booking].paid > 0)
      BY <1>1, <1>2, <1>4, <3>1, <3>3
    <3>. QED  BY <3>2, <3>3
  <2>9. CASE LockRefunded(r)
    BY <1>2, <1>4, <2>9 DEF LockRefunded, LockOtherUser
  <2>10. CASE SendCommand(r)
    <3>1. at[r] = "send" /\ at'[r] = "done" /\ UNCHANGED lockedBy
      BY <2>10 DEF SendCommand, LockInv, TypeInv, TypeOK, TablesType
    <3>. QED  BY <3>1, HeldByItself DEF HeldOk
  <2>11. ReadSeat(r) =>
           \/ \E a : Refuse(r, a)
           \/ UNCHANGED lockedBy /\ \E phase \in {"update", "flush"} : Proceed(r, phase)
    BY DEF ReadSeat
  <2>. QED
    BY <1>1, <1>5, <2>1, <2>2, <2>3, <2>4, <2>5, <2>7, <2>8, <2>9, <2>10, <2>11 DEF BookingStep
<1>6. CASE PaymentStep(r)
  <2>1. CASE LockActiveUser(r, {"buy_product"})
    BY <1>3, <2>1
  <2>2. CASE CheckProduct(r) \/ ReadOrder(r) \/ LockPayer(r)
    BY <1>1, <1>2, <1>4, <2>2 DEF CheckProduct, ReadOrder, LockPayer
  <2>3. CASE BuyProduct(r) \/ CompleteOrder(r) \/ KaspiTopUp(r) \/ TopUp(r)
    BY <1>1, <2>3 DEF BuyProduct, CompleteOrder, KaspiTopUp, TopUp
  <2>4. CASE LockToppedUp(r)
    BY <1>1, <1>2, <1>4, <2>4 DEF LockToppedUp, LockOtherUser
  <2>. QED  BY <1>6, <2>1, <2>2, <2>3, <2>4 DEF PaymentStep
<1>7. CASE ModerationStep(r)
  BY <1>1, <1>2, <1>4, <1>7 DEF ModerationStep, ReadClub, ModerateClub
<1>8. CASE DebitFails(r) \/ Fail(r)
  BY <1>1, <1>8 DEF DebitFails, Fail
<1>. QED  BY <1>5, <1>6, <1>7, <1>8 DEF Step

LEMMA NextHeldInv == LockInv /\ HeldInv /\ [Next]_vars => HeldInv'
<1>. SUFFICES ASSUME LockInv, HeldInv, [Next]_vars, NEW r \in Requests  PROVE HeldOk(r)'
  BY DEF HeldInv
<1>0. HeldOk(r)
  BY DEF HeldInv
<1>1. ASSUME NEW s \in Requests, NEW c \in Calls[s], Arrive(s, c)
      PROVE  HeldOk(r)'
  <2>1. Held(r)' = Held(r)
    BY <1>1 DEF Arrive, Held
  <2>2. CASE s # r
    <3>1. at'[r] = at[r]
      BY <1>1, <2>2 DEF Arrive, LockInv, TypeInv, TypeOK, TablesType
    <3>. QED  BY <1>0, <2>1, <3>1, HeldStays
  <2>3. CASE s = r
    <3>1. at[r] = "new" /\ at'[r] = "start"
      BY <1>1, <2>3 DEF Arrive, LockInv, TypeInv, TypeOK, TablesType
    <3>. QED  BY <1>0, <2>1, <3>1 DEF HeldOk
  <2>. QED  BY <2>2, <2>3
<1>2. ASSUME NEW s \in Requests, s # r, Step(s) \/ Fail(s)  PROVE HeldOk(r)'
  <2>1. at'[r] = at[r]
    BY <1>2, RequestsStep DEF LockInv
  <2>. QED  BY <1>0, <1>2, <2>1, HeldStays, HeldByOthers DEF Holders
<1>3. CASE CleanupStep \/ AbandonSweep \/ Tick \/ UNCHANGED vars
  <2>1. at'[r] = at[r]
    BY <1>3, BackgroundLocks
  <2>. QED  BY <1>0, <1>3, <2>1, HeldStays, HeldInBackground
<1>. QED  BY <1>0, <1>1, <1>2, <1>3, OwnLocksHeld DEF Next

LEMMA NextSweepHeldInv == LockInv /\ SweepHeldInv /\ [Next]_vars => SweepHeldInv'
<1>. SUFFICES ASSUME LockInv, SweepHeldInv, [Next]_vars  PROVE SweepHeldInv'
  OBVIOUS
<1>0. Cleaner \in Holders /\ Cleaner \notin Requests /\ Cleaner # Null
  BY NamesAssumption DEF Holders
<1>1. ASSUME NEW s \in Requests, Step(s) \/ Fail(s)  PROVE SweepHeldInv'
  <2>1. UNCHANGED sweep
    BY <1>1, SweepUntouched
  <2>. QED  BY <1>0, <1>1, <2>1, HeldByOthers DEF SweepHeldInv
<1>2. CASE ScanExpired \/ Tick \/ UNCHANGED vars
  BY <1>2 DEF ScanExpired, Tick, vars, outside, SweepHeldInv, Held
<1>3. ASSUME NEW p \in Pcs, ExpirePc(p)  PROVE SweepHeldInv'
  <2>1. \A x \in Rows : lockedBy'[x] = Cleaner => x \in Requests \/ lockedBy[x] = Cleaner
    BY <1>3 DEF ExpirePc, ActiveOn
  <2>2. sweep.at = "work" /\ sweep'.at = "work" /\ sweep.todo # {}
    BY <1>3 DEF ExpirePc, LockInv, TypeInv, TypeOK, TablesType, SweepType
  <2>. QED  BY <2>1, <2>2 DEF SweepHeldInv, Held
<1>4. ASSUME NEW p \in Pcs, FlushExpired(p)  PROVE SweepHeldInv'
  BY <1>4 DEF FlushExpired, outside, SweepHeldInv
<1>5. CASE CommitExpired \/ AbandonSweep
  <2>1. lockedBy' = Released(Cleaner)
    BY <1>5 DEF CommitExpired, AbandonSweep
  <2>. QED  BY <1>0, <2>1 DEF SweepHeldInv, Held, Released
<1>6. ASSUME NEW s \in Requests, NEW c \in Calls[s], Arrive(s, c)  PROVE SweepHeldInv'
  BY <1>6 DEF Arrive, outside, SweepHeldInv, Held
<1>. QED  BY <1>1, <1>2, <1>3, <1>4, <1>5, <1>6 DEF Next, CleanupStep

-----------------------------------------------------------------------------
(* Who waits in a circle.                                                  *)

WaitInv == LockInv /\ HeldInv /\ SweepHeldInv

(* What a request that waits can need, by how far it has got.              *)
LEMMA WaitsFor ==
  ASSUME WaitInv, NEW r \in Requests, Needs(r) # {}
  PROVE  \/ at[r] = "start" /\ Needs(r) \subseteq Rows
         \/ at[r] = "update" /\ Needs(r) \subseteq Requests
         \/ at[r] = "refund" /\ Needs(r) \subseteq Users
         \/ at[r] \in {"user", "booking", "flush"} /\ Needs(r) \subseteq Pcs
         \/ at[r] = "commit" /\ call[r].op \in StaffOps
<1>. DEFINE c == call[r]
<1>1. at[r] \in Phases \ {"new", "send", "done"}
  BY DEF Needs, WaitInv, LockInv, TypeInv, TypeOK, TablesType, Phases
<1>2. c \in CallType /\ HandlerOk(r)
  BY <1>1, Typed DEF WaitInv, LockInv
<1>3. CASE at[r] = "start"
  BY <1>2, <1>3, CallFields DEF Needs, LockOrder, Moderating, Rows
<1>4. CASE at[r] = "user"
  BY <1>2, <1>4, CallFields DEF Needs, LockOrder
<1>5. CASE at[r] \in {"booking", "refund"}
  <2>1. bookings[c.booking] # Null /\ c.booking \in Requests
    BY <1>2, <1>5, CallFields DEF HandlerOk, Moderating
  <2>2. bookings[c.booking].user \in Users /\ bookings[c.booking].pc \in Pcs
    BY <1>5, <2>1, Typed DEF WaitInv, LockInv
  <2>. QED  BY <1>5, <2>2, NeedsOf
<1>6. CASE at[r] = "update"
  BY <1>6, NeedsOf DEF ActiveOn
<1>7. CASE at[r] = "flush"
  <2>1. c.pc \in Pcs
    BY <1>2, <1>7, CallFields DEF HandlerOk
  <2>. QED  BY <1>7, <2>1 DEF Needs
<1>8. CASE at[r] = "commit"
  BY <1>8 DEF Needs, StaffOps
<1>. QED  BY <1>1, <1>3, <1>4, <1>5, <1>6, <1>7, <1>8 DEF Phases

(* Short of their last flush everybody locks bookings first, then clients, *)
(* then computers, and of several computers only the cleanup task holds    *)
(* some while it waits for others: of transactions that wait for each      *)
(* other none could hold a row the next one waits for.                     *)
LEMMA CirclesHaveALastFlush ==
  ASSUME WaitInv
  PROVE  CirclesNeedForeignKeys
<1>. SUFFICES ASSUME NEW S \in SUBSET Waiting, InCircle(S)
              PROVE  \E r \in S \cap Requests : at[r] = "commit" /\ call[r].op \in StaffOps
  BY DEF CirclesNeedForeignKeys
<1>0. Cleaner \notin Requests /\ Cleaner # Null
  BY NamesAssumption
<1>1. S \subseteq Requests \cup {Cleaner} /\ S # {}
  BY DEF Waiting, InCircle, Holders
<1>2. ASSUME NEW r \in S \cap Requests
      PROVE  \E x \in Needs(r) : lockedBy[x] \in S \ {r}
  <2>1. PICK t \in S : t \in Blockers(r)
    BY <1>0 DEF InCircle, BlockersOf
  <2>. QED  BY <2>1 DEF Blockers
<1>3. Cleaner \in S =>
        \/ sweep.todo # {} /\ \E x \in Requests : lockedBy[x] \in S \ {Cleaner}
        \/ sweep.todo = {} /\ \E x \in Pcs : lockedBy[x] \in S \ {Cleaner}
  <2>. SUFFICES ASSUME Cleaner \in S
                PROVE  \/ sweep.todo # {} /\ \E x \in Requests : lockedBy[x] \in S \ {Cleaner}
                       \/ sweep.todo = {} /\ \E x \in Pcs : lockedBy[x] \in S \ {Cleaner}
    OBVIOUS
  <2>1. PICK t \in S : t \in SweepBlockers
    BY DEF InCircle, BlockersOf
  <2>2. UNION {ActiveOn(p) : p \in sweep.todo} \subseteq Requests /\ sweep.mine \subseteq Pcs
    BY DEF ActiveOn, WaitInv, LockInv, TypeInv, TypeOK, TablesType, SweepType
  <2>. QED  BY <2>1, <2>2 DEF SweepBlockers
<1>4. SUFFICES ASSUME \A r \in S \cap Requests :
                        ~(at[r] = "commit" /\ call[r].op \in StaffOps)
               PROVE  FALSE
  OBVIOUS
<1>5. ASSUME NEW r \in S \cap Requests
      PROVE  /\ Needs(r) # {}
             /\ \/ at[r] = "start" /\ Needs(r) \subseteq Rows
                \/ at[r] = "update" /\ Needs(r) \subseteq Requests
                \/ at[r] = "refund" /\ Needs(r) \subseteq Users
                \/ at[r] \in {"user", "booking", "flush"} /\ Needs(r) \subseteq Pcs
  BY <1>2, <1>4, WaitsFor
<1>6. ASSUME NEW r \in S \cap Requests, NEW x \in Rows, lockedBy[x] = r
      PROVE  \/ at[r] = "user" /\ x \in Users
             \/ at[r] \in {"booking", "refund", "flush"} /\ x \in Requests
  BY <1>5, <1>6 DEF WaitInv, HeldInv, HeldOk, Held
<1>7. ASSUME NEW x \in Pcs, lockedBy[x] \in S \ {Cleaner}  PROVE FALSE
  BY <1>1, <1>6, <1>7, NamesAssumption DEF Rows
<1>8. ASSUME Cleaner \in S  PROVE sweep.todo # {} /\ Held(Cleaner) \subseteq Requests
  BY <1>3, <1>7, <1>8 DEF WaitInv, SweepHeldInv
<1>9. \A x \in Pcs : lockedBy[x] \notin S
  BY <1>7, <1>8, NamesAssumption DEF Held, Rows
<1>10. ASSUME NEW r \in S \cap Requests  PROVE at[r] \in {"start", "update", "refund"}
  BY <1>2, <1>5, <1>9
<1>11. \A x \in Users : lockedBy[x] \notin S
  <2>. SUFFICES ASSUME NEW x \in Users, lockedBy[x] \in S  PROVE FALSE
    OBVIOUS
  <2>1. x \in Rows /\ x \notin Requests
    BY NamesAssumption DEF Rows
  <2>2. lockedBy[x] # Cleaner
    BY <1>8, <2>1 DEF Held
  <2>. QED  BY <1>1, <1>6, <1>10, <2>1, <2>2
<1>12. ASSUME NEW r \in S \cap Requests  PROVE at[r] \in {"start", "update"}
  BY <1>2, <1>5, <1>10, <1>11
<1>13. ASSUME NEW x \in Rows, lockedBy[x] \in S  PROVE lockedBy[x] = Cleaner
  BY <1>1, <1>6, <1>12, <1>13
<1>14. Cleaner \notin S
  BY <1>3, <1>13 DEF Rows
<1>15. PICK r \in S \cap Requests : TRUE
  BY <1>1, <1>14
<1>16. PICK x \in Needs(r) : lockedBy[x] \in S
  BY <1>2
<1>17. x \in Rows
  BY <1>5, <1>16 DEF Rows
<1>. QED  BY <1>13, <1>14, <1>16, <1>17

(* However many clients book, request, buy, pay and free their seats while *)
(* the cleanup task runs, none of their transactions are aborted as        *)
(* deadlocked unless a manager or a superadmin is in the circle, at the    *)
(* last flush of a release, an override, a decision or a top-up.           *)
THEOREM DeadlocksNeedStaff == Spec => []CirclesNeedForeignKeys
<1>1. Init => WaitInv
  <2>. SUFFICES ASSUME Init  PROVE HeldInv /\ SweepHeldInv
    BY InitLockInv DEF WaitInv
  <2>1. \A h \in Holders : Held(h) = {}
    BY NamesAssumption DEF Init, TablesInit, Held, Holders
  <2>2. (\A r \in Requests : at[r] = "new") /\ sweep = NoSweep
    BY DEF Init, TablesInit
  <2>. QED  BY <2>1, <2>2 DEF HeldInv, HeldOk, SweepHeldInv, Holders
<1>2. WaitInv /\ [Next]_vars => WaitInv'
  BY NextLockInv, NextHeldInv, NextSweepHeldInv DEF WaitInv
<1>3. WaitInv => CirclesNeedForeignKeys
  BY CirclesHaveALastFlush
<1>. QED  BY <1>1, <1>2, <1>3, PTL DEF Spec

-----------------------------------------------------------------------------
(* A computer's row is all of a session or nothing of one.                 *)

(* The administrator's dialog is used to free computers only.              *)
OverridesOnlyFree ==
  \A r \in Requests : \A c \in Calls[r] : c.op = "update_computer_status" => c.status = "free"

NobodyConfirms == \A r \in Requests : \A c \in Calls[r] : c.op # "confirm_request"

(* A request without an end is not confirmed.                              *)
ConfirmedSessionsEnd ==
  \/ NobodyConfirms
  \/ \A r \in Requests : \A c \in Calls[r] : c.op = "create_booking_request" => c.endsAt # Null

WholeRow(row) ==
  \/ row = FreePc
  \/ row.status = "busy" /\ row.occupant # Null /\ row.endTime # Null

EndsInv ==
  NobodyConfirms \/ \A b \in Requests : bookings[b] # Null => bookings[b].endsAt # Null

(* The rows are whole, and so are the copies that handlers and the cleanup *)
(* task write them from.                                                   *)
RowsWhole ==
  /\ \A p \in Pcs : WholeRow(pcs[p])
  /\ \A r \in Requests : WholeRow(orm[r].pc)
  /\ \A p \in Pcs : WholeRow(sweep.seen[p])
  /\ \A p \in sweep.mine : sweep.seen[p].status = "busy"

WholeInv == LockInv /\ CalledInv /\ EndsInv /\ RowsWhole

LEMMA NextEndsInv ==
  ASSUME LockInv, CalledInv, EndsInv, [Next]_vars, ConfirmedSessionsEnd
  PROVE  EndsInv'
<1>. SUFFICES ASSUME ~NobodyConfirms, NEW b \in Requests, bookings'[b] # Null
              PROVE  bookings'[b].endsAt # Null
  BY DEF EndsInv
<1>1. CASE bookings[b] # Null
  BY <1>1, BookingsStep DEF EndsInv, BookingKept
<1>2. CASE bookings[b] = Null
  <2>1. CASE BookSeat(b)
    <3>1. bookings'[b].endsAt = orm[b].until /\ at[b] # "new"
      BY <2>1 DEF BookSeat, NewBooking, Doing, LockInv, TypeInv, TypeOK, TablesType
    <3>. QED  BY <3>1, Typed, NamesAssumption DEF LockInv, OrmType
  <2>2. CASE CreateRequest(b)
    <3>1. /\ bookings'[b].endsAt = call[b].endsAt /\ call[b].op = "create_booking_request"
          /\ call[b] \in Calls[b]
      BY <2>2 DEF CreateRequest, NewBooking, Doing, CalledInv, LockInv, TypeInv, TypeOK,
                  TablesType
    <3>. QED  BY <3>1 DEF ConfirmedSessionsEnd
  <2>. QED  BY <1>2, <2>1, <2>2, BookingsStep
<1>. QED  BY <1>1, <1>2

(* A session's Computer object is one that was in the table, or none.      *)
LEMMA CopiesStep ==
  ASSUME LockInv, [Next]_vars, NEW r \in Requests
  PROVE  orm'[r].pc \in {orm[r].pc, FreePc} \cup {pcs[p] : p \in Pcs}
<1>. DEFINE Copied(s) == \/ orm' = orm
                         \/ orm' = [orm EXCEPT ![s] = EmptyOrm]
                         \/ \E n : orm' = [orm EXCEPT ![s].balance = n]
                         \/ \E n : orm' = [orm EXCEPT ![s].until = n]
                         \/ \E k : orm' = [orm EXCEPT ![s].club = k]
                         \/ \E p \in Pcs : orm' = [orm EXCEPT ![s].pc = pcs[p]]
                         \/ \E p \in Pcs : \E k :
                              orm' = [orm EXCEPT ![s].pc = pcs[p], ![s].club = k]
<1>1. ASSUME NEW s \in Requests, Step(s) \/ Fail(s)  PROVE Copied(s)
  <2>0. at[s] # "new" /\ call[s] \in CallType /\ HandlerOk(s)
    BY <1>1, RequestsStep, Typed DEF LockInv
  <2>1. CASE \/ \E a : Refuse(s, a)
             \/ \E phase \in {"send", "done"} : Commit(s, phase)
             \/ UNCHANGED orm
    BY <2>1 DEF Refuse, Commit
  <2>2. ASSUME NEW u, NEW phase, LockOtherUser(s, u, phase)  PROVE Copied(s)
    BY <2>2 DEF LockOtherUser
  <2>3. CASE CheckConfirm(s)
    <3>1. call[s].booking \in Requests /\ bookings[call[s].booking] # Null
      BY <2>0, <2>3, CallFields DEF CheckConfirm, Doing, HandlerOk, Moderating
    <3>2. bookings[call[s].booking].pc \in Pcs
      BY <2>0, <3>1, Typed DEF LockInv
    <3>. QED  BY <2>1, <2>3, <3>2 DEF CheckConfirm
  <2>4. CASE ReadSeat(s)
    <3>1. call[s].pc \in Pcs
      BY <2>0, <2>4, CallFields DEF ReadSeat, Doing
    <3>. QED  BY <2>1, <2>4, <3>1 DEF ReadSeat
  <2>5. CASE CheckSeat(s)
    BY <2>1, <2>5 DEF CheckSeat
  <2>6. CASE BookingStep(s)
    BY <2>1, <2>2, <2>3, <2>4, <2>5, <2>6 DEF BookingStep, LockActiveUser, FlushSeat, BookSeat,
      CloseActiveBookings, SetSeat, CheckRequest, CreateRequest, LockBooking, Confirm,
      CheckReject, LockRefunded, Reject, SendCommand
  <2>7. CASE PaymentStep(s)
    BY <2>1, <2>2, <2>7 DEF PaymentStep, LockActiveUser, CheckProduct, BuyProduct, ReadOrder,
       CompleteOrder, LockPayer, KaspiTopUp, LockToppedUp, TopUp
  <2>8. CASE ModerationStep(s) \/ DebitFails(s) \/ Fail(s)
    BY <2>1, <2>8 DEF ModerationStep, ReadClub, ModerateClub, DebitFails, Fail
  <2>. QED  BY <1>1, <2>6, <2>7, <2>8 DEF Step
<1>2. ASSUME NEW s \in Requests, Copied(s)
      PROVE  orm'[r].pc \in {orm[r].pc, FreePc} \cup {pcs[p] : p \in Pcs}
  <2>0. orm \in [Requests -> OrmType] /\ orm[s] \in OrmType
    BY DEF LockInv, TypeInv, TypeOK, TablesType
  <2>1. CASE orm' = orm \/ orm' = [orm EXCEPT ![s] = EmptyOrm]
    BY <2>0, <2>1 DEF EmptyOrm
  <2>2. ASSUME NEW n, \/ orm' = [orm EXCEPT ![s].balance = n]
                      \/ orm' = [orm EXCEPT ![s].until = n]
                      \/ orm' = [orm EXCEPT ![s].club = n]
        PROVE  orm'[r].pc = orm[r].pc
    BY <2>0, <2>2 DEF OrmType
  <2>3. ASSUME NEW p \in Pcs, orm' = [orm EXCEPT ![s].pc = pcs[p]]
        PROVE  orm'[r].pc \in {orm[r].pc, pcs[p]}
    BY <2>0, <2>3 DEF OrmType
  <2>4. ASSUME NEW p \in Pcs, NEW k, orm' = [orm EXCEPT ![s].pc = pcs[p], ![s].club = k]
        PROVE  orm'[r].pc \in {orm[r].pc, pcs[p]}
    <3>1. r # s => orm'[r] = orm[r]
      BY <2>0, <2>4
    <3>2. orm'[s] = [orm[s] EXCEPT !.pc = pcs[p], !.club = k]
      BY <2>0, <2>4
    <3>3. orm'[s].pc = pcs[p]
      BY <2>0, <3>2 DEF OrmType
    <3>. QED  BY <3>1, <3>3
  <2>. QED  BY <1>2, <2>1, <2>2, <2>3, <2>4
<1>3. ASSUME NEW s \in Requests, NEW c \in Calls[s], Arrive(s, c)  PROVE Copied(s)
  BY <1>3 DEF Arrive
<1>4. CASE CleanupStep \/ AbandonSweep \/ Tick \/ UNCHANGED vars
  BY <1>4 DEF CleanupStep, ScanExpired, ExpirePc, FlushExpired, CommitExpired, AbandonSweep,
              Tick, vars
<1>. HIDE DEF Copied
<1>. QED  BY <1>1, <1>2, <1>3, <1>4 DEF Next

(* A row written from a whole copy over a whole row is whole.              *)
LEMMA FreedRowIsWhole ==
  ASSUME NEW p \in Pcs, NEW loaded, WholeRow(pcs[p]), WholeRow(loaded),
         pcs[p] \in PcRow, loaded \in PcRow
  PROVE  WholeRow(FlushedPc(p, loaded, FreePc))
<1>1. CASE loaded = FreePc
  BY <1>1 DEF FlushedPc, Column, FreePc, WholeRow, PcRow
<1>2. CASE loaded.status = "busy" /\ loaded.occupant # Null /\ loaded.endTime # Null
  BY <1>2 DEF FlushedPc, Column, FreePc, WholeRow
<1>. QED  BY <1>1, <1>2 DEF WholeRow

LEMMA SweepStep ==
  ASSUME LockInv, [Next]_vars, RowsWhole
  PROVE  /\ \A p \in Pcs : WholeRow(sweep'.seen[p])
         /\ \A p \in sweep'.mine : sweep'.seen[p].status = "busy"
<1>1. CASE ScanExpired
  <2>1. /\ sweep'.seen = [p \in Pcs |-> IF p \in ExpiredPcs THEN pcs[p] ELSE FreePc]
        /\ sweep'.mine = ExpiredPcs
    BY <1>1 DEF ScanExpired
  <2>. QED  BY <2>1 DEF ExpiredPcs, RowsWhole, WholeRow
<1>2. CASE CommitExpired \/ AbandonSweep
  <2>1. sweep'.seen = [p \in Pcs |-> FreePc] /\ sweep'.mine = {}
    BY <1>2 DEF CommitExpired, AbandonSweep, NoSweep
  <2>. QED  BY <2>1 DEF WholeRow
<1>3. ASSUME NEW q \in Pcs, ExpirePc(q)  PROVE sweep'.seen = sweep.seen /\ sweep'.mine = sweep.mine
  BY <1>3 DEF ExpirePc, LockInv, TypeInv, TypeOK, TablesType, SweepType
<1>4. ASSUME NEW s \in Requests, Step(s) \/ Fail(s)  PROVE sweep' = sweep
  BY <1>4, SweepUntouched
<1>5. ASSUME sweep' = sweep
      PROVE  /\ \A p \in Pcs : WholeRow(sweep'.seen[p])
             /\ \A p \in sweep'.mine : sweep'.seen[p].status = "busy"
  BY <1>5 DEF RowsWhole
<1>6. ASSUME NEW s \in Requests, NEW c \in Calls[s], Arrive(s, c)  PROVE sweep' = sweep
  BY <1>6 DEF Arrive, outside
<1>7. CASE Tick \/ (\E q \in Pcs : FlushExpired(q)) \/ UNCHANGED vars
  BY <1>5, <1>7 DEF Tick, FlushExpired, vars, outside
<1>. QED  BY <1>1, <1>2, <1>3, <1>4, <1>5, <1>6, <1>7 DEF Next, CleanupStep, RowsWhole

LEMMA NextRowsWhole ==
  ASSUME WholeInv, [Next]_vars, OverridesOnlyFree
  PROVE  RowsWhole'
<1>0. LockInv /\ RowsWhole /\ (\A p \in Pcs : pcs[p] \in PcRow /\ WholeRow(pcs[p]))
  BY DEF WholeInv, LockInv, RowsWhole, TypeInv, TypeOK, TablesType
<1>1. ASSUME NEW p \in Pcs  PROVE WholeRow(pcs'[p])
  <2>1. ASSUME NEW r \in Requests, BookSeat(r)  PROVE WholeRow(pcs'[p])
    <3>1. call[r].actor # Null /\ orm[r].until # Null
      BY <1>0, <2>1, Typed, CallFields, NamesAssumption DEF BookSeat, Doing, LockInv, OrmType
    <3>2. pcs'[p] = IF p = call[r].pc
                    THEN [status |-> "busy", occupant |-> call[r].actor,
                          endTime |-> orm[r].until]
                    ELSE pcs[p]
      BY <1>0, <2>1 DEF BookSeat, LockInv, TypeInv, TypeOK, TablesType
    <3>. QED  BY <1>0, <3>1, <3>2 DEF WholeRow
  <2>2. ASSUME NEW r \in Requests, Confirm(r)  PROVE WholeRow(pcs'[p])
    <3>. DEFINE b == call[r].booking
    <3>1. b \in Requests /\ bookings[b] # Null /\ call[r] \in Calls[r]
      BY <1>0, <2>2, Typed, CallFields
      DEF Confirm, Doing, LockInv, HandlerOk, Moderating, WholeInv, CalledInv
    <3>2. bookings[b].user # Null /\ bookings[b].endsAt # Null
      <4>1. bookings[b].endsAt # Null
        BY <2>2, <3>1 DEF WholeInv, EndsInv, NobodyConfirms, Confirm, Doing
      <4>2. bookings[b].user \in Users
        BY <1>0, <2>2, <3>1, Typed DEF Confirm, Doing, LockInv
      <4>. QED  BY <4>1, <4>2, NamesAssumption
    <3>3. \/ pcs'[p] = pcs[p]
          \/ pcs'[p] = [status |-> "busy", occupant |-> bookings[b].user,
                        endTime |-> bookings[b].endsAt]
      BY <1>0, <2>2 DEF Confirm, Holder, LockInv, TypeInv, TypeOK, TablesType
    <3>. QED  BY <1>0, <3>2, <3>3 DEF WholeRow
  <2>3. ASSUME NEW r \in Requests, SetSeat(r)  PROVE WholeRow(pcs'[p])
    <3>1. PcSetBy(r) = FreePc
      <4>1. call[r] \in Calls[r]
        BY <2>3 DEF WholeInv, CalledInv, SetSeat, Doing
      <4>. QED  BY <2>3, <4>1 DEF OverridesOnlyFree, SetSeat, Doing, PcSetBy
    <3>2. pcs'[p] \in {pcs[p], FlushedPc(p, orm[r].pc, FreePc)}
      BY <1>0, <2>3, <3>1 DEF SetSeat, LockInv, TypeInv, TypeOK, TablesType
    <3>3. orm[r].pc \in PcRow /\ WholeRow(orm[r].pc)
      BY <1>0 DEF RowsWhole, LockInv, TypeInv, TypeOK, TablesType, OrmType
    <3>. QED  BY <1>0, <3>2, <3>3, FreedRowIsWhole
  <2>4. CASE CommitExpired
    <3>1. CASE p \in sweep.mine
      <4>1. sweep.seen[p].status = "busy" /\ WholeRow(sweep.seen[p])
        BY <1>0, <3>1 DEF RowsWhole
      <4>2. sweep.seen[p].occupant # Null
        BY <4>1 DEF WholeRow, FreePc
      <4>3. pcs'[p] = FreePc
        BY <2>4, <3>1, <4>2 DEF CommitExpired, ReleasedPc, Column, FreePc
      <4>. QED  BY <4>3 DEF WholeRow
    <3>2. CASE p \notin sweep.mine
      BY <1>0, <2>4, <3>2 DEF CommitExpired
    <3>. QED  BY <3>1, <3>2
  <2>. QED  BY <1>0, <2>1, <2>2, <2>3, <2>4, WhoWritesSeats
<1>2. ASSUME NEW r \in Requests  PROVE WholeRow(orm'[r].pc)
  BY <1>0, CopiesStep DEF RowsWhole, WholeRow
<1>. QED  BY <1>0, <1>1, <1>2, SweepStep DEF RowsWhole

(* A computer is shown as all of a session or as free, although it is sold *)
(* and freed by handlers that write only the columns that differ from a    *)
(* row they read before: as long as an administrator overrides a status by *)
(* "free" only and every confirmed session has an end.                     *)
THEOREM SeatsStayWhole ==
  ASSUME OverridesOnlyFree, ConfirmedSessionsEnd
  PROVE  Spec => []SeatIsWhole
<1>1. Init => WholeInv
  BY InitLockInv
  DEF Init, TablesInit, WholeInv, CalledInv, EndsInv, RowsWhole, WholeRow, EmptyOrm, NoSweep
<1>2. WholeInv /\ [Next]_vars => WholeInv'
  BY NextLockInv, NextCalledInv, NextEndsInv, NextRowsWhole DEF WholeInv
<1>3. WholeInv => SeatIsWhole
  BY DEF WholeInv, RowsWhole, WholeRow, SeatIsWhole
<1>. QED  BY <1>1, <1>2, <1>3, PTL DEF Spec

=============================================================================
