-------------------------- MODULE BookingLifecycle --------------------------
(***************************************************************************)
(* What the club promises of a booking, whatever runs beside it: its       *)
(* status only moves forward, and the club keeps the client's money for    *)
(* exactly the bookings it did not reject.                                 *)
(***************************************************************************)
EXTENDS Naturals

CONSTANTS
  Bookings,
  Prices,     \* the prices of the tariffs
  Deposits    \* the deposits the clubs ask, 0 for none

VARIABLES
  status,     \* of every booking; "none" before it exists
  kept        \* the money the club keeps for it

lifecycle == <<status, kept>>

Init ==
  /\ status = [b \in Bookings |-> "none"]
  /\ kept = [b \in Bookings |-> 0]

Sell(b) ==
  /\ status[b] = "none"
  /\ status' = [status EXCEPT ![b] = "active"]
  /\ \E n \in Prices \ {0} : kept' = [kept EXCEPT ![b] = n]

Ask(b) ==
  /\ status[b] = "none"
  /\ status' = [status EXCEPT ![b] = "pending"]
  /\ \E n \in Deposits : kept' = [kept EXCEPT ![b] = n]

Confirm(b) ==
  /\ status[b] = "pending"
  /\ status' = [status EXCEPT ![b] = "active"]
  /\ UNCHANGED kept

Reject(b) ==
  /\ status[b] = "pending"
  /\ status' = [status EXCEPT ![b] = "rejected"]
  /\ kept' = [kept EXCEPT ![b] = 0]

(* Freeing a computer, or its session's end, closes all its bookings.      *)
Close(B, how) ==
  /\ \A b \in B : status[b] = "active"
  /\ status' = [b \in Bookings |-> IF b \in B THEN how ELSE status[b]]
  /\ UNCHANGED kept

Next ==
  \/ \E b \in Bookings : Sell(b) \/ Ask(b) \/ Confirm(b) \/ Reject(b)
  \/ \E B \in SUBSET Bookings : Close(B, "completed") \/ Close(B, "expired")

Spec == Init /\ [][Next]_lifecycle

=============================================================================
