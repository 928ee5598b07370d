------------------------------ MODULE Payments ------------------------------
(***************************************************************************)
(* core/services/order_service.py, core/services/payment_service.py and    *)
(* the administrator's top_up_balance and complete_order (web/admin.py):   *)
(* everything but bookings that moves money.                               *)
(***************************************************************************)
EXTENDS Transactions

(* buy_product: like a tariff's, a price of 0 passes the checks.           *)
OrderVerdict(r) ==
  LET p == call[r].product IN
  IF clubs[ProductClub[p]] # "active" THEN "409"
  ELSE IF orm[r].balance < ProductPrice[p] THEN "402"
  ELSE "ok"

NewOrder(r) ==
  [user |-> call[r].actor, product |-> call[r].product,
   paid |-> ProductPrice[call[r].product], status |-> "new"]

(* A slip: the order is committed, not flushed, before it is charged.      *)
CheckProductEarlyCommit(r) ==
  /\ Doing(r, {"buy_product"}, "user")
  /\ \/ OrderVerdict(r) # "ok" /\ Refuse(r, OrderVerdict(r))
     \/ /\ OrderVerdict(r) = "ok"
        /\ orders' = [orders EXCEPT ![r] = NewOrder(r)]
        /\ at' = [at EXCEPT ![r] = "commit"]
        /\ UNCHANGED <<balance, pcs, clubs, bookings, payments, ledger, lockedBy, call, orm,
                       answer, outside>>

CheckProduct(r) ==
  /\ Doing(r, {"buy_product"}, "user")
  /\ \/ OrderVerdict(r) # "ok" /\ Refuse(r, OrderVerdict(r))
     \/ OrderVerdict(r) = "ok" /\ UNCHANGED <<lockedBy, orm>> /\ Proceed(r, "commit")

BuyProduct(r) ==
  LET c == call[r] IN
  /\ Doing(r, {"buy_product"}, "commit")
  /\ orders' = [orders EXCEPT ![r] = NewOrder(r)]
  /\ Debit(r, c.actor, ProductPrice[c.product], "order_debit", r)
  /\ Commit(r, "done")
  /\ UNCHANGED <<pcs, clubs, bookings, payments>>

(* complete_order reads the order without a lock; completing it twice is   *)
(* harmless.                                                               *)
ReadOrder(r) ==
  LET o == orders[call[r].order] IN
  /\ Doing(r, {"complete_order"}, "start")
  /\ \/ o = Null /\ Refuse(r, "404")
     \/ o # Null /\ ~Manages(call[r].actor, ProductClub[o.product]) /\ Refuse(r, "403")
     \/ o # Null /\ Manages(call[r].actor, ProductClub[o.product])
        /\ \/ o.status = "completed" /\ Refuse(r, "ok")
           \/ o.status = "new" /\ UNCHANGED <<lockedBy, orm>> /\ Proceed(r, "commit")

CompleteOrder(r) ==
  /\ Doing(r, {"complete_order"}, "commit")
  /\ orders' = [orders EXCEPT ![call[r].order].status = "completed"]
  /\ Commit(r, "done")
  /\ UNCHANGED <<balance, pcs, clubs, bookings, payments, ledger>>

-----------------------------------------------------------------------------
(* kaspi_test_top_up: the amount is checked before the user is locked.     *)

KaspiAmount(n) == MinKaspi <= n /\ n <= MaxKaspi

LockPayer(r) ==
  \/ /\ Doing(r, {"kaspi_test_top_up"}, "start")
     /\ ~KaspiAmount(call[r].amount)
     /\ Refuse(r, "400")
  \/ /\ Doing(r, {"kaspi_test_top_up"}, "start")
     /\ KaspiAmount(call[r].amount)
     /\ Unblocked(r)
     /\ lockedBy' = LockNeeded(r)
     /\ UNCHANGED orm
     /\ Proceed(r, "commit")

KaspiTopUp(r) ==
  LET c == call[r] IN
  /\ Doing(r, {"kaspi_test_top_up"}, "commit")
  /\ payments' = [payments EXCEPT ![r] = [user |-> c.actor, amount |-> c.amount]]
  /\ Credit(r, c.actor, Null, c.amount, "kaspi_test_top_up", r)
  /\ Commit(r, "done")
  /\ UNCHANGED <<pcs, clubs, bookings, orders>>

-----------------------------------------------------------------------------
(* top_up_balance, by a superadmin.                                        *)

LockToppedUp(r) ==
  LET c == call[r] IN
  /\ Doing(r, {"top_up_balance"}, "start")
  /\ \/ c.actor \notin SuperAdmins /\ Refuse(r, "403")
     \/ c.actor \in SuperAdmins /\ c.amount <= 0 /\ Refuse(r, "400")
     \/ c.actor \in SuperAdmins /\ c.amount > 0 /\ LockOtherUser(r, c.user, "commit")

TopUp(r) ==
  LET c == call[r] IN
  /\ Doing(r, {"top_up_balance"}, "commit")
  /\ Unblocked(r)
  /\ Credit(r, c.user, c.actor, c.amount, "admin_top_up", Null)
  /\ Commit(r, "done")
  /\ UNCHANGED <<pcs, clubs, bookings, orders, payments>>

PaymentStep(r) ==
  \/ LockActiveUser(r, {"buy_product"}) \/ CheckProduct(r) \/ BuyProduct(r)
  \/ ReadOrder(r) \/ CompleteOrder(r)
  \/ LockPayer(r) \/ KaspiTopUp(r)
  \/ LockToppedUp(r) \/ TopUp(r)

=============================================================================
