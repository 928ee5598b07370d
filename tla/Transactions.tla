---------------------------- MODULE Transactions ----------------------------
(***************************************************************************)
(* What every handler shares: the arrival of a request and its             *)
(* authentication, row locks, the unit of work of the session, refusal,    *)
(* failure, commit and deadlock detection, and core/finance.py.            *)
(***************************************************************************)
EXTENDS Tables

(* core.services.access.user_can_manage_club and core.tenancy.can_manage_* *)
Manages(u, club) ==
  u \in SuperAdmins \/ (Owner[club] = u /\ clubs[club] = "active")

Open(pc) == clubs[ClubOf[pc]] = "active"

Deposit(club) == IF BookingMode[club] = "prepaid" THEN BookingDeposit[club] ELSE 0

(* A slip: the UPDATE that closes bookings forgets its status filter.      *)
ActiveOnAnyStatus(pc) ==
  {b \in Requests : bookings[b] # Null /\ bookings[b].pc = pc}

ActiveOn(pc) ==
  {b \in Requests : bookings[b] # Null /\ bookings[b].pc = pc /\ bookings[b].status = "active"}

Doing(r, ops, phase) == at[r] = phase /\ call[r].op \in ops

-----------------------------------------------------------------------------
(* The unit of work.  A flush writes only the columns whose value differs  *)
(* from the one the session loaded; a column the handler set to the value  *)
(* it had loaded keeps whatever the row holds by now.                      *)

Column(current, loaded, set) == IF set = loaded THEN current ELSE set

FlushedPc(pc, loaded, set) ==
  [status   |-> Column(pcs[pc].status, loaded.status, set.status),
   occupant |-> Column(pcs[pc].occupant, loaded.occupant, set.occupant),
   endTime  |-> Column(pcs[pc].endTime, loaded.endTime, set.endTime)]

(* The Computer object as free_seat or update_computer_status leaves it.   *)
PcSetBy(r) ==
  IF call[r].op = "free_seat" \/ call[r].status = "free"
  THEN FreePc
  ELSE [orm[r].pc EXCEPT !.status = call[r].status]

-----------------------------------------------------------------------------
(* Row locks.  Needs(r) are the rows the next statement of r locks: FOR    *)
(* UPDATE, the rows an UPDATE changes, and, in the inserts and updates of  *)
(* the last flush (phase "commit"), the users a foreign key locks FOR KEY  *)
(* SHARE.  Only a FOR UPDATE holder can make it wait for those; they are   *)
(* waited for and not kept, since a request that has got the last of them  *)
(* commits without waiting for anything else.                              *)

(* The administrator's change leaves a fraud signal that refers to both    *)
(* users; free_seat does so when it found that the actor manages the club. *)
Overrides(r) ==
  \/ call[r].op = "update_computer_status"
  \/ /\ call[r].op = "free_seat"
     /\ \/ call[r].actor \in SuperAdmins
        \/ Owner[ClubOf[call[r].pc]] = call[r].actor /\ orm[r].club = "active"

UsersOf(S) == S \ {Null}

(* A slip: create_booking_request locks the computer before the client.    *)
LockOrderMixed(r) ==
  IF call[r].op = "create_booking_request" THEN <<call[r].pc, call[r].actor>>
  ELSE <<call[r].actor, call[r].pc>>

(* The two rows a sale locks, in this order.                               *)
LockOrder(r) == <<call[r].actor, call[r].pc>>

Needs(r) ==
  LET c == call[r] IN
  CASE at[r] = "start" /\ c.op \in {"buy_product", "kaspi_test_top_up"} -> {c.actor}
    [] at[r] = "start" /\ c.op \in {"book_seat", "create_booking_request"} -> {LockOrder(r)[1]}
    [] at[r] = "start" /\ c.op = "top_up_balance" -> {c.user}
    [] at[r] = "start" /\ c.op \in {"confirm_request", "reject_request"} -> {c.booking}
    [] at[r] = "user" /\ c.op \in {"book_seat", "create_booking_request"} -> {LockOrder(r)[2]}
    [] at[r] = "booking" -> {bookings[c.booking].pc}
    [] at[r] = "refund" -> {bookings[c.booking].user}
    [] at[r] = "update" -> ActiveOn(c.pc)
    [] at[r] = "flush" -> IF PcSetBy(r) # orm[r].pc THEN {c.pc} ELSE {}
    [] at[r] = "commit" /\ c.op \in {"free_seat", "update_computer_status"} ->
         IF Overrides(r) THEN UsersOf({c.actor, orm[r].pc.occupant}) ELSE {}
    [] at[r] = "commit" /\ c.op = "confirm_request" ->
         IF orm[r].pc.status = "free" THEN {bookings[c.booking].user} ELSE {}
    [] at[r] = "commit" /\ c.op = "reject_request" ->
         IF bookings[c.booking].paid > 0 THEN {c.actor} ELSE {}
    [] at[r] = "commit" /\ c.op = "top_up_balance" -> {c.actor}
    [] OTHER -> {}

Blockers(r) == {lockedBy[x] : x \in Needs(r)} \ {Null, r}

Unblocked(r) == Blockers(r) = {}

(* Slips: a SELECT that has lost its FOR UPDATE, in one handler or another. *)
LockNeededNotBy(r, op) ==
  [x \in Rows |-> IF x \in Needs(r) /\ call[r].op # op THEN r ELSE lockedBy[x]]
LockNeededNotByReject(r)  == LockNeededNotBy(r, "reject_request")
LockNeededNotByRequest(r) == LockNeededNotBy(r, "create_booking_request")
LockNeededNotByBook(r)    == LockNeededNotBy(r, "book_seat")

LockNeeded(r) == [x \in Rows |-> IF x \in Needs(r) THEN r ELSE lockedBy[x]]

Released(h) == [x \in Rows |-> IF lockedBy[x] = h THEN Null ELSE lockedBy[x]]

-----------------------------------------------------------------------------
(* The life of a request.                                                  *)

(* The dependency get_current_user loads the actor's row, without a lock,  *)
(* in the session the handler goes on using.                               *)
Arrive(r, c) ==
  /\ at[r] = "new"
  /\ call' = [call EXCEPT ![r] = c]
  /\ at' = [at EXCEPT ![r] = "start"]
  /\ orm' = [orm EXCEPT ![r].balance = balance[c.actor]]
  /\ UNCHANGED <<tables, lockedBy, answer, outside>>

(* A slip: the session of a refused request stays open, with its locks.     *)
RefuseStaysOpen(r, a) ==
  /\ at' = [at EXCEPT ![r] = "done"]
  /\ answer' = [answer EXCEPT ![r] = a]
  /\ orm' = [orm EXCEPT ![r] = EmptyOrm]
  /\ UNCHANGED <<tables, lockedBy, call, outside>>

(* The handler raises or returns early: the session closes, nothing it     *)
(* wrote survives, its locks are gone.                                     *)
Refuse(r, a) ==
  /\ at' = [at EXCEPT ![r] = "done"]
  /\ answer' = [answer EXCEPT ![r] = a]
  /\ orm' = [orm EXCEPT ![r] = EmptyOrm]
  /\ lockedBy' = Released(r)
  /\ UNCHANGED <<tables, call, outside>>

(* A statement or the commit raises: the server lost the connection or the *)
(* transaction was chosen as a deadlock victim.                            *)
Fail(r) ==
  /\ at[r] \in {"start", "user", "booking", "refund", "update", "flush", "commit"}
  /\ Refuse(r, "failed")

(* The handler goes on to its next statement.                              *)
Proceed(r, phase) ==
  /\ at' = [at EXCEPT ![r] = phase]
  /\ UNCHANGED <<tables, call, answer, outside>>

(* The transaction commits; the caller gives the writes.                   *)
Commit(r, phase) ==
  /\ at' = [at EXCEPT ![r] = phase]
  /\ answer' = [answer EXCEPT ![r] = "ok"]
  /\ orm' = [orm EXCEPT ![r] = EmptyOrm]
  /\ lockedBy' = Released(r)
  /\ UNCHANGED <<call, outside>>

-----------------------------------------------------------------------------
(* core/finance.py: the handler changes the balance attribute of the User  *)
(* object its session holds, and the flush writes that value.              *)

Record(u, actor, amount, after, kind, ref) ==
  /\ balance' = [balance EXCEPT ![u] = after]
  /\ ledger' = Append(ledger, [user |-> u, actor |-> actor, amount |-> amount,
                               after |-> after, kind |-> kind, ref |-> ref])

DebitRaises(r, amount) == amount <= 0 \/ orm[r].balance < amount

(* A slip: the guard looks at the object, the statement subtracts in SQL.  *)
DebitInSql(r, u, amount, kind, ref) ==
  /\ ~DebitRaises(r, amount)
  /\ Record(u, Null, -amount, balance[u] - amount, kind, ref)

Debit(r, u, amount, kind, ref) ==
  /\ ~DebitRaises(r, amount)
  /\ Record(u, Null, -amount, orm[r].balance - amount, kind, ref)

(* What the handler has flushed is rolled back: nothing catches the error  *)
(* of debit_user_balance.                                                  *)
Charge(r) ==
  LET c == call[r] IN
  CASE c.op = "book_seat"              -> Price[c.package]
    [] c.op = "create_booking_request" -> Deposit(ClubOf[c.pc])
    [] c.op = "buy_product"            -> ProductPrice[c.product]

DebitFails(r) ==
  /\ Doing(r, {"book_seat", "create_booking_request", "buy_product"}, "commit")
  /\ call[r].op = "create_booking_request" => Charge(r) > 0
  /\ DebitRaises(r, Charge(r))
  /\ Refuse(r, "500")

Credit(r, u, actor, amount, kind, ref) ==
  Record(u, actor, amount, orm[r].balance + amount, kind, ref)

(* SELECT ... FOR UPDATE of the actor: the row is locked, but the session  *)
(* has the object already and keeps the attributes it loaded before.       *)
LockActiveUser(r, ops) ==
  /\ Doing(r, ops, "start")
  /\ Unblocked(r)
  /\ lockedBy' = LockNeeded(r)
  /\ UNCHANGED orm
  /\ Proceed(r, "user")

(* A slip: the other user is selected without FOR UPDATE.                  *)
LockOtherUserNot(r, u, phase) ==
  /\ orm' = [orm EXCEPT ![r].balance = IF u = call[r].actor THEN @ ELSE balance[u]]
  /\ UNCHANGED lockedBy
  /\ Proceed(r, phase)

(* SELECT ... FOR UPDATE of another user loads it fresh; of the actor, it  *)
(* keeps the attributes loaded by get_current_user.                        *)
LockOtherUser(r, u, phase) ==
  /\ Unblocked(r)
  /\ lockedBy' = LockNeeded(r)
  /\ orm' = [orm EXCEPT ![r].balance = IF u = call[r].actor THEN @ ELSE balance[u]]
  /\ Proceed(r, phase)

=============================================================================
