---------------------------- MODULE SeatNumbers -----------------------------
(***************************************************************************)
(* web/admin.py, add_computers and add_computer: computers of a club get   *)
(* the numbers after the largest one, or the number that was asked for.    *)
(* Both read first, without a lock, and insert in one transaction; the     *)
(* constraint uq_computers_club_number of models.py meets who was late.    *)
(***************************************************************************)
EXTENDS FormRequests

CONSTANTS
  Counts,         \* how many computers add_computers is asked for
  Numbers,        \* which number add_computer is asked for
  MaxCount        \* 200 in the code

ASSUME SeatNumbersAssumption ==
  /\ Counts \subseteq Int /\ Numbers \subseteq Int /\ MaxCount \in Nat
  /\ None \notin Clubs \union {"done", "error", "invalid", "exists", "denied"}

VARIABLES
  seats,    \* the rows of computers: club, number, and the request of each
  req       \* the requests: the numbers they decided to insert, the answer

vars == <<seats, req, active>>

NotSent == [club |-> None, wants |-> {}, batch |-> FALSE, open |-> FALSE, answer |-> None]

NumbersOf(c) == {s.number : s \in {t \in seats : t.club = c}}

(* func.max(number) or 0                                                   *)
LastNumber(c) ==
  IF NumbersOf(c) = {} THEN 0
  ELSE CHOOSE n \in NumbersOf(c) : \A m \in NumbersOf(c) : m <= n

(* The answer before anything is inserted, None to go on.                  *)
Sent(r, c, wants, batch, answer) ==
  /\ req[r] = NotSent
  /\ req' = [req EXCEPT ![r] =
       [club |-> c, batch |-> batch, open |-> answer = None, answer |-> answer,
        wants |-> IF answer = None THEN wants ELSE {}]]
  /\ UNCHANGED <<seats, active>>

DenyComputers(r, c) == MayBeDenied(c) /\ Sent(r, c, {}, FALSE, "denied")

AddComputers(r, c, count) ==
  Sent(r, c, {LastNumber(c) + i : i \in 1 .. count}, TRUE,
       IF count \in 1 .. MaxCount THEN None ELSE "invalid")

(* A slip: only the numbers of other computers are looked at.              *)
AddComputerUnchecked(r, c, number) ==
  Sent(r, c, {number}, FALSE, IF number \in NumbersOf(c) THEN "exists" ELSE None)

AddComputer(r, c, number) ==
  Sent(r, c, {number}, FALSE,
       IF number < 1 THEN "invalid"
       ELSE IF number \in NumbersOf(c) THEN "exists" ELSE None)

(* A slip: there is no constraint, the numbers were checked before.        *)
NoConstraint(r) == FALSE

Collides(r) == req[r].wants \intersect NumbersOf(req[r].club) # {}

Rows(r, numbers) == {[club |-> req[r].club, number |-> n, of |-> r] : n \in numbers}

End(r, a) == req' = [req EXCEPT ![r].open = FALSE, ![r].answer = a]

Inserted(r) ==
  /\ seats' = seats \union Rows(r, req[r].wants)
  /\ End(r, "done")

(* A slip: each computer is committed alone, up to the number that is      *)
(* there already.                                                          *)
RejectedLate(r) ==
  LET taken == NumbersOf(req[r].club) IN
  /\ seats' = seats \union
       Rows(r, {n \in req[r].wants : \A m \in taken \intersect req[r].wants : n < m})
  /\ End(r, "error")

(* The IntegrityError is not handled; the transaction is rolled back.      *)
Rejected(r) ==
  /\ End(r, "error")
  /\ UNCHANGED seats

Commit(r) ==
  /\ req[r].open
  /\ IF Collides(r) THEN Rejected(r) ELSE Inserted(r)
  /\ UNCHANGED active

CommitFails(r) ==
  /\ req[r].open
  /\ End(r, "error")
  /\ UNCHANGED <<seats, active>>

Init ==
  /\ active = Clubs
  /\ seats = {}
  /\ req = [r \in Requests |-> NotSent]

Next ==
  \/ \E r \in Requests, c \in Clubs :
       \/ \E n \in Counts : AddComputers(r, c, n)
       \/ \E n \in Numbers : AddComputer(r, c, n)
       \/ DenyComputers(r, c)
  \/ \E r \in Requests : Commit(r) \/ CommitFails(r)
  \/ \E c \in Clubs : Moderate(c) /\ UNCHANGED <<seats, req>>

Spec == Init /\ [][Next]_vars

-----------------------------------------------------------------------------
Answers == {None, "done", "error", "invalid", "exists", "denied"}

TypeOK ==
  /\ active \subseteq Clubs
  /\ seats \subseteq [club : Clubs, number : Nat \ {0}, of : Requests]
  /\ req \in [Requests -> [club : Clubs \union {None}, wants : SUBSET (Nat \ {0}),
                           batch : BOOLEAN, open : BOOLEAN, answer : Answers]]

(* As long as computers are added in batches only, those of a club are     *)
(* numbered 1, 2, 3 and so on, none left out and none twice, however the   *)
(* batches overlap and whichever of them fail (admin.py:380).              *)
BatchesAreConsecutive ==
  (\A r \in Requests : req[r].answer = "done" => req[r].batch) =>
    \A c \in Clubs :
      NumbersOf(c) = 1 .. Cardinality({s \in seats : s.club = c})

(* A request ends with all of its computers or with none of them: the one  *)
(* whose answer is an error has added nothing, even if only the last of    *)
(* its numbers was taken in the meantime.                                  *)
AllOrNothing ==
  \A r \in Requests :
    {s \in seats : s.of = r} = IF req[r].answer = "done" THEN Rows(r, req[r].wants) ELSE {}

=============================================================================
