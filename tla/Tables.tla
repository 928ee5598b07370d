------------------------------- MODULE Tables -------------------------------
(***************************************************************************)
(* The database of the computer-club service and the HTTP requests that    *)
(* work on it: the tables users, computers, clubs, bookings, orders,       *)
(* payment_transactions and balance_transactions, PostgreSQL row locks,    *)
(* and for every request the state its SQLAlchemy session keeps between    *)
(* two statements.                                                         *)
(*                                                                         *)
(* A request runs as one transaction at READ COMMITTED.  Between two of    *)
(* its awaits any other request may run, so a handler is cut into one      *)
(* action per statement that reads or locks; its writes become visible to  *)
(* the others in one commit action, which also releases its locks.         *)
(***************************************************************************)
EXTENDS Integers, Sequences, FiniteSets

CONSTANTS
  Users,            \* rows of users
  SuperAdmins,      \* the users whose role is superadmin
  Clubs,            \* rows of clubs
  Owner,            \* clubs.owner_id (owners have a club-admin role)
  BookingMode,      \* clubs.booking_mode
  BookingDeposit,   \* clubs.booking_deposit
  Pcs,              \* rows of computers
  ClubOf,           \* computers.club_id
  Packages,         \* rows of packages (tariffs)
  Price,            \* packages.price
  Minutes,          \* packages.duration_minutes
  Fits,             \* <<package, pc>>: same club and same category
  Products,         \* rows of products
  ProductPrice,     \* products.price
  ProductClub,      \* products.club_id
  MinKaspi,         \* settings.kaspi_test_min_amount
  MaxKaspi,         \* settings.kaspi_test_max_amount
  OpeningBalance,   \* users.balance when the behaviour starts
  Requests,         \* one element per HTTP request the service receives
  Calls,            \* the calls each of them may make
  LossySockets,     \* whether a WebSocket command may get lost
  Cleaner,          \* the background cleanup task, as a lock holder
  Null,             \* SQL NULL, and "nobody"
  MaxTime           \* bound on the clock

-----------------------------------------------------------------------------
(* Rows.  A booking, an order or a payment has the name of the request     *)
(* that inserted it: every handler inserts at most one of them.            *)

PcStatus      == {"free", "busy", "reserved"}
BookingStatus == {"pending", "active", "completed", "expired", "rejected"}
ClubStatus    == {"active", "blocked"}
Kinds         == {"booking_debit", "booking_deposit", "booking_refund",
                  "order_debit", "kaspi_test_top_up", "admin_top_up"}

PcRow == [status : PcStatus, occupant : Users \cup {Null}, endTime : Nat \cup {Null}]

BookingRow == [user : Users, pc : Pcs, status : BookingStatus, paid : Nat,
               endsAt : Nat \cup {Null}]

OrderRow == [user : Users, product : Products, paid : Nat, status : {"new", "completed"}]

PaymentRow == [user : Users, amount : Nat]

LedgerRow == [user : Users, actor : Users \cup {Null}, amount : Int, after : Nat,
              kind : Kinds, ref : Requests \cup {Null}]

FreePc == [status |-> "free", occupant |-> Null, endTime |-> Null]

(* The calls a client can make: the operation, the authenticated user and  *)
(* the operation's own arguments.                                          *)
CallType ==
  [op : {"book_seat"}, actor : Users, pc : Pcs, package : Packages]
    \cup [op : {"free_seat"}, actor : Users, pc : Pcs]
    \cup [op : {"create_booking_request"}, actor : Users, pc : Pcs,
          endsAt : Nat \cup {Null}]
    \cup [op : {"confirm_request", "reject_request"}, actor : Users, booking : Requests]
    \cup [op : {"update_computer_status"}, actor : Users, pc : Pcs, status : PcStatus]
    \cup [op : {"buy_product"}, actor : Users, product : Products]
    \cup [op : {"complete_order"}, actor : Users, order : Requests]
    \cup [op : {"kaspi_test_top_up"}, actor : Users, amount : Int]
    \cup [op : {"top_up_balance"}, actor : Users, user : Users, amount : Int]
    \cup [op : {"block_club", "restore_club"}, actor : Users, club : Clubs]

ASSUME TablesAssumption ==
  /\ SuperAdmins \subseteq Users
  /\ Owner \in [Clubs -> Users]
  /\ BookingMode \in [Clubs -> {"request", "prepaid"}]
  /\ BookingDeposit \in [Clubs -> Nat]
  /\ ClubOf \in [Pcs -> Clubs]
  /\ Price \in [Packages -> Nat]
  /\ Minutes \in [Packages -> Nat \ {0}]
  /\ Fits \subseteq Packages \X Pcs
  /\ ProductPrice \in [Products -> Nat]
  /\ ProductClub \in [Products -> Clubs]
  /\ MinKaspi \in Nat \ {0} /\ MaxKaspi \in Nat
  /\ OpeningBalance \in [Users -> Nat]
  /\ Calls \in [Requests -> SUBSET CallType]
  /\ LossySockets \in BOOLEAN
  /\ MaxTime \in Nat

(* Names of rows of different tables, and of lock holders, are distinct.   *)
ASSUME NamesAssumption ==
  /\ Users \cap Pcs = {} /\ Users \cap Requests = {} /\ Pcs \cap Requests = {}
  /\ Cleaner \notin Requests
  /\ Null \notin Users \cup Pcs \cup Requests \cup {Cleaner} \cup Nat
  /\ Null \notin BookingRow \cup OrderRow \cup PaymentRow \cup CallType

Rows    == Users \cup Pcs \cup Requests
Holders == Requests \cup {Cleaner}

-----------------------------------------------------------------------------
VARIABLES
  balance,    \* users.balance
  pcs,        \* computers: status, current_user_id, end_time
  clubs,      \* clubs.status
  bookings,   \* bookings, Null where the request inserted none
  orders,     \* orders, likewise
  payments,   \* payment_transactions, likewise
  ledger,     \* balance_transactions, in the order they were committed
  lockedBy,   \* who holds the row lock of a user, a computer or a booking
  call,       \* the call each request makes
  at,         \* how far its handler has got
  orm,        \* the objects its session has loaded and not refreshed
  answer,     \* the HTTP answer it got
  screen,     \* the last command each computer's client obeyed
  now,        \* the clock
  sweep       \* the running iteration of the cleanup task

tables  == <<balance, pcs, clubs, bookings, orders, payments, ledger>>
outside == <<screen, now, sweep>>
vars    == <<tables, lockedBy, call, at, orm, answer, outside>>

Phases  == {"new", "start", "user", "booking", "refund", "update", "flush", "commit", "send",
            "done"}
Answers == {"none", "ok", "400", "402", "403", "404", "409", "500", "failed"}

(* What a session remembers: the balance of the User object the handler    *)
(* charges or credits, the Computer and the Club object as they were       *)
(* loaded, and the end time it computed for the session being sold.        *)
OrmType == [balance : Nat, pc : PcRow, club : ClubStatus, until : Nat]

EmptyOrm == [balance |-> 0, pc |-> FreePc, club |-> "active", until |-> 0]

SweepType == [at : {"idle", "work"}, seen : [Pcs -> PcRow], todo : SUBSET Pcs,
              mine : SUBSET Pcs]

NoSweep == [at |-> "idle", seen |-> [p \in Pcs |-> FreePc], todo |-> {}, mine |-> {}]

TablesInit ==
  /\ balance = OpeningBalance
  /\ pcs = [p \in Pcs |-> FreePc]
  /\ clubs = [c \in Clubs |-> "active"]
  /\ bookings = [r \in Requests |-> Null]
  /\ orders = [r \in Requests |-> Null]
  /\ payments = [r \in Requests |-> Null]
  /\ ledger = <<>>
  /\ lockedBy = [x \in Rows |-> Null]
  /\ call = [r \in Requests |-> Null]
  /\ at = [r \in Requests |-> "new"]
  /\ orm = [r \in Requests |-> EmptyOrm]
  /\ answer = [r \in Requests |-> "none"]
  /\ screen = [p \in Pcs |-> "locked"]
  /\ now = 0
  /\ sweep = NoSweep

TablesType ==
  /\ balance \in [Users -> Nat]
  /\ pcs \in [Pcs -> PcRow]
  /\ clubs \in [Clubs -> ClubStatus]
  /\ bookings \in [Requests -> BookingRow \cup {Null}]
  /\ orders \in [Requests -> OrderRow \cup {Null}]
  /\ payments \in [Requests -> PaymentRow \cup {Null}]
  /\ ledger \in Seq(LedgerRow)
  /\ lockedBy \in [Rows -> Holders \cup {Null}]
  /\ call \in [Requests -> CallType \cup {Null}]
  /\ at \in [Requests -> Phases]
  /\ orm \in [Requests -> OrmType]
  /\ answer \in [Requests -> Answers]
  /\ screen \in [Pcs -> {"locked", "unlocked"}]
  /\ now \in Nat
  /\ sweep \in SweepType

=============================================================================
