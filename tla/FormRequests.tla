---------------------------- MODULE FormRequests ----------------------------
(***************************************************************************)
(* What the forms about a club share: the clubs and whether they are       *)
(* active, and the requests in which forms are sent.  A form is checked    *)
(* and what it needs is read first; what it writes is one transaction      *)
(* later, and a club may be blocked or restored in between.                *)
(***************************************************************************)
EXTENDS Integers, FiniteSets

CONSTANTS
  Clubs,
  Requests,   \* each sends at most one form
  None        \* SQL NULL, no row, no answer yet

VARIABLE active   \* the clubs whose status is active

(* The superadmin blocks a club, approves or restores it.                  *)
Moderate(c) ==
  active' = IF c \in active THEN active \ {c} ELSE active \union {c}

(* can_manage_club: the superadmin may always, the owner while it is       *)
(* active.  So nobody is refused then, and somebody may be otherwise.      *)
MayBeDenied(c) == c \notin active

(* An UPDATE sets only the columns that differ from what was read.         *)
Written(current, read, new) == IF new = read THEN current ELSE new

=============================================================================
