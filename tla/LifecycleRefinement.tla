------------------------ MODULE LifecycleRefinement -------------------------
(***************************************************************************)
(* GameClubs implements BookingLifecycle: a booking's row is its status,   *)
(* and what the club keeps for it is what the ledger says.                 *)
(***************************************************************************)
EXTENDS GameClubs

StatusOf(b) == IF bookings[b] = Null THEN "none" ELSE bookings[b].status

KeptFor(b) == -LedgerSumOf(b, BookingKinds)

Lifecycle == INSTANCE BookingLifecycle
  WITH Bookings <- Requests,
       Prices   <- {Price[k] : k \in Packages},
       Deposits <- {Deposit(c) : c \in Clubs},
       status   <- [b \in Requests |-> StatusOf(b)],
       kept     <- [b \in Requests |-> KeptFor(b)]

(* Every behaviour of the handlers, read as statuses and ledger sums of    *)
(* bookings, is one of BookingLifecycle.  A booking sold, confirmed, freed *)
(* and expired by handlers that overlap in any way is still confirmed or   *)
(* rejected once, never resurrected, and its deposit returned exactly when *)
(* it is rejected.                                                         *)
BookingsFollowLifecycle == Lifecycle!Spec

=============================================================================
