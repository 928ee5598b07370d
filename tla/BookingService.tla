--------------------------- MODULE BookingService ---------------------------
(***************************************************************************)
(* core/services/booking_service.py and the administrator's manual status  *)
(* change (web/admin.py).  A computer is sold in two ways:                 *)
(*   book_seat               the client pays the tariff and sits down;     *)
(*   create_booking_request  the client asks, leaves the club's deposit if *)
(*                           it wants one, and a manager confirms or       *)
(*                           rejects the request later.                    *)
(* free_seat, update_computer_status and the cleanup task end a session.   *)
(***************************************************************************)
EXTENDS Transactions

NewBooking(r, status, paid, ends) ==
  [user |-> call[r].actor, pc |-> call[r].pc, status |-> status, paid |-> paid,
   endsAt |-> ends]

Holder(b) == bookings[b].user

-----------------------------------------------------------------------------
(* book_seat                                                               *)

(* What the checks answer, in their order, once both rows are locked.  A   *)
(* tariff of price 0 passes them.                                          *)
BookingVerdict(r) ==
  LET c == call[r] IN
  IF pcs[c.pc].status # "free" \/ ~Open(c.pc) THEN "409"
  ELSE IF <<c.package, c.pc>> \notin Fits THEN "404"
  ELSE IF orm[r].balance < Price[c.package] THEN "402"
  ELSE "ok"

CheckSeat(r) ==
  /\ Doing(r, {"book_seat"}, "user")
  /\ Unblocked(r)
  /\ \/ /\ BookingVerdict(r) # "ok"
        /\ Refuse(r, BookingVerdict(r))
     \/ /\ BookingVerdict(r) = "ok"
        /\ lockedBy' = LockNeeded(r)
        /\ orm' = [orm EXCEPT ![r].until = now + Minutes[call[r].package]]
        /\ Proceed(r, "commit")

BookSeat(r) ==
  LET c == call[r] IN
  /\ Doing(r, {"book_seat"}, "commit")
  /\ pcs' = [pcs EXCEPT ![c.pc] = [status |-> "busy", occupant |-> c.actor,
                                   endTime |-> orm[r].until]]
  /\ bookings' = [bookings EXCEPT ![r] =
                    NewBooking(r, "active", Price[c.package], orm[r].until)]
  /\ Debit(r, c.actor, Price[c.package], "booking_debit", r)
  /\ Commit(r, "send")
  /\ UNCHANGED <<clubs, orders, payments>>

-----------------------------------------------------------------------------
(* free_seat and update_computer_status: the computer is read without a    *)
(* lock, the active bookings are closed by an UPDATE that locks them, and  *)
(* the computer is written by the flush of the commit from what was read   *)
(* first.  The flush updates computers before it inserts fraud_signals:    *)
(* the computer's row stays locked while the foreign keys of the signal    *)
(* wait for users.                                                         *)

ReadSeat(r) ==
  LET c == call[r] IN
  /\ Doing(r, {"free_seat", "update_computer_status"}, "start")
  /\ \/ /\ ~Manages(c.actor, ClubOf[c.pc])
        /\ c.op = "free_seat" => pcs[c.pc].occupant # c.actor
        /\ Refuse(r, "403")
     \/ /\ \/ Manages(c.actor, ClubOf[c.pc])
           \/ c.op = "free_seat" /\ pcs[c.pc].occupant = c.actor
        /\ orm' = [orm EXCEPT ![r].pc = pcs[c.pc], ![r].club = clubs[ClubOf[c.pc]]]
        /\ UNCHANGED lockedBy
        /\ Proceed(r, IF c.op = "free_seat" \/ c.status = "free" THEN "update" ELSE "flush")

CloseActiveBookings(r) ==
  /\ at[r] = "update"
  /\ Unblocked(r)
  /\ lockedBy' = LockNeeded(r)
  /\ UNCHANGED orm
  /\ Proceed(r, "flush")

FlushSeat(r) ==
  /\ at[r] = "flush"
  /\ Unblocked(r)
  /\ lockedBy' = LockNeeded(r)
  /\ UNCHANGED orm
  /\ Proceed(r, "commit")

(* The bookings a holder's UPDATE ... WHERE status = 'active' has changed. *)
ClosedBy(h, status) ==
  [b \in Requests |-> IF lockedBy[b] = h THEN [bookings[b] EXCEPT !.status = status]
                      ELSE bookings[b]]

SetSeat(r) ==
  LET c == call[r] IN
  /\ Doing(r, {"free_seat", "update_computer_status"}, "commit")
  /\ Unblocked(r)
  /\ pcs' = [pcs EXCEPT ![c.pc] = FlushedPc(c.pc, orm[r].pc, PcSetBy(r))]
  /\ bookings' = ClosedBy(r, "completed")
  /\ Commit(r, IF c.op = "free_seat" THEN "send" ELSE "done")
  /\ UNCHANGED <<balance, clubs, orders, payments, ledger>>

-----------------------------------------------------------------------------
(* create_booking_request                                                  *)

PendingOf(u, pc) ==
  {b \in Requests : /\ bookings[b] # Null
                    /\ bookings[b].user = u /\ bookings[b].pc = pc
                    /\ bookings[b].status = "pending"}

RequestVerdict(r) ==
  LET c == call[r] IN
  IF ~Open(c.pc) \/ PendingOf(c.actor, c.pc) # {} THEN "409"
  ELSE IF orm[r].balance < Deposit(ClubOf[c.pc]) THEN "402"
  ELSE "ok"

CheckRequest(r) ==
  /\ Doing(r, {"create_booking_request"}, "user")
  /\ Unblocked(r)
  /\ \/ /\ RequestVerdict(r) # "ok"
        /\ Refuse(r, RequestVerdict(r))
     \/ /\ RequestVerdict(r) = "ok"
        /\ lockedBy' = LockNeeded(r)
        /\ UNCHANGED orm
        /\ Proceed(r, "commit")

CreateRequest(r) ==
  LET c == call[r]
      deposit == Deposit(ClubOf[c.pc]) IN
  /\ Doing(r, {"create_booking_request"}, "commit")
  /\ bookings' = [bookings EXCEPT ![r] = NewBooking(r, "pending", deposit, c.endsAt)]
  /\ \/ deposit > 0 /\ Debit(r, c.actor, deposit, "booking_deposit", r)
     \/ deposit = 0 /\ UNCHANGED <<balance, ledger>>
  /\ Commit(r, "done")
  /\ UNCHANGED <<pcs, clubs, orders, payments>>

-----------------------------------------------------------------------------
(* confirm_request                                                         *)

(* A slip: the status of the locked booking is not looked at.              *)
StillPendingOrNot(b) == bookings[b] # Null

StillPending(b) == bookings[b].status = "pending"

(* Both moderation handlers first lock the booking's row.                  *)
LockBooking(r) ==
  LET c == call[r] IN
  /\ Doing(r, {"confirm_request"}, "start")
  /\ Unblocked(r)
  /\ \/ bookings[c.booking] = Null /\ Refuse(r, "404")
     \/ /\ bookings[c.booking] # Null
        /\ lockedBy' = LockNeeded(r)
        /\ UNCHANGED orm
        /\ Proceed(r, "booking")

CheckConfirm(r) ==
  LET b == call[r].booking
      pc == bookings[b].pc IN
  /\ Doing(r, {"confirm_request"}, "booking")
  /\ Unblocked(r)
  /\ \/ ~Manages(call[r].actor, ClubOf[pc]) /\ Refuse(r, "403")
     \/ Manages(call[r].actor, ClubOf[pc]) /\ ~StillPending(b) /\ Refuse(r, "409")
     \/ /\ Manages(call[r].actor, ClubOf[pc]) /\ StillPending(b)
        /\ lockedBy' = LockNeeded(r)
        /\ orm' = [orm EXCEPT ![r].pc = pcs[pc]]
        /\ Proceed(r, "commit")

(* The booking becomes active whether or not the computer was free.        *)
Confirm(r) ==
  LET b == call[r].booking
      pc == bookings[b].pc IN
  /\ Doing(r, {"confirm_request"}, "commit")
  /\ Unblocked(r)
  /\ bookings' = [bookings EXCEPT ![b].status = "active"]
  /\ pcs' = IF orm[r].pc.status = "free"
            THEN [pcs EXCEPT ![pc] = [status |-> "busy", occupant |-> Holder(b),
                                      endTime |-> bookings[b].endsAt]]
            ELSE pcs
  /\ Commit(r, "done")
  /\ UNCHANGED <<balance, clubs, orders, payments, ledger>>

-----------------------------------------------------------------------------
(* reject_request                                                          *)

CheckReject(r) ==
  LET c == call[r]
      b == c.booking IN
  /\ Doing(r, {"reject_request"}, "start")
  /\ Unblocked(r)
  /\ \/ bookings[b] = Null /\ Refuse(r, "404")
     \/ /\ bookings[b] # Null
        /\ ~Manages(c.actor, ClubOf[bookings[b].pc])
        /\ Refuse(r, "403")
     \/ /\ bookings[b] # Null
        /\ Manages(c.actor, ClubOf[bookings[b].pc])
        /\ ~StillPending(b)
        /\ Refuse(r, "409")
     \/ /\ bookings[b] # Null
        /\ Manages(c.actor, ClubOf[bookings[b].pc])
        /\ StillPending(b)
        /\ lockedBy' = LockNeeded(r)
        /\ UNCHANGED orm
        /\ Proceed(r, IF bookings[b].paid > 0 THEN "refund" ELSE "commit")

LockRefunded(r) ==
  /\ Doing(r, {"reject_request"}, "refund")
  /\ LockOtherUser(r, Holder(call[r].booking), "commit")

Reject(r) ==
  LET b == call[r].booking IN
  /\ Doing(r, {"reject_request"}, "commit")
  /\ Unblocked(r)
  /\ bookings' = [bookings EXCEPT ![b].status = "rejected"]
  /\ \/ /\ bookings[b].paid > 0
        /\ Credit(r, Holder(b), call[r].actor, bookings[b].paid, "booking_refund", b)
     \/ bookings[b].paid = 0 /\ UNCHANGED <<balance, ledger>>
  /\ Commit(r, "done")
  /\ UNCHANGED <<pcs, clubs, orders, payments>>

-----------------------------------------------------------------------------
(* After the commit book_seat and free_seat command the computer's client; *)
(* safe_send_pc_command swallows every error, so the command may be lost.  *)

SendCommand(r) ==
  /\ at[r] = "send"
  /\ at' = [at EXCEPT ![r] = "done"]
  /\ \/ screen' = [screen EXCEPT ![call[r].pc] =
                     IF call[r].op = "book_seat" THEN "unlocked" ELSE "locked"]
     \/ LossySockets /\ UNCHANGED screen
  /\ UNCHANGED <<tables, lockedBy, call, orm, answer, now, sweep>>

BookingStep(r) ==
  \/ LockActiveUser(r, {"book_seat", "create_booking_request"})
  \/ CheckSeat(r) \/ BookSeat(r)
  \/ ReadSeat(r) \/ CloseActiveBookings(r) \/ FlushSeat(r) \/ SetSeat(r)
  \/ CheckRequest(r) \/ CreateRequest(r)
  \/ LockBooking(r) \/ CheckConfirm(r) \/ Confirm(r)
  \/ CheckReject(r) \/ LockRefunded(r) \/ Reject(r)
  \/ SendCommand(r)

=============================================================================
