------------------------------ MODULE Cleanup -------------------------------
(***************************************************************************)
(* The background task of main.py, cleanup_expired_sessions: every minute  *)
(* it releases the computers whose session has ended.                      *)
(***************************************************************************)
EXTENDS Transactions

(* A slip: only the sessions that end at this very moment are found.       *)
ExpiredPcsNow ==
  {p \in Pcs : pcs[p].status = "busy" /\ pcs[p].endTime = now}

ExpiredPcs ==
  {p \in Pcs : pcs[p].status = "busy" /\ pcs[p].endTime # Null /\ pcs[p].endTime <= now}

(* SELECT of the expired computers, without a lock; the loop below works   *)
(* on the objects it returned.                                             *)
ScanExpired ==
  /\ sweep.at = "idle"
  /\ ExpiredPcs # {}
  /\ sweep' = [at |-> "work",
               seen |-> [p \in Pcs |-> IF p \in ExpiredPcs THEN pcs[p] ELSE FreePc],
               todo |-> ExpiredPcs, mine |-> ExpiredPcs]
  /\ UNCHANGED <<tables, lockedBy, call, at, orm, answer, screen, now>>

(* One turn of the loop: the UPDATE of the active bookings, which locks    *)
(* them, then the lock command, sent before anything is committed.         *)
ExpirePc(p) ==
  /\ sweep.at = "work" /\ p \in sweep.todo
  /\ \A b \in ActiveOn(p) : lockedBy[b] \in {Null, Cleaner}
  /\ lockedBy' = [x \in Rows |-> IF x \in ActiveOn(p) THEN Cleaner ELSE lockedBy[x]]
  /\ sweep' = [sweep EXCEPT !.todo = @ \ {p}]
  /\ \/ screen' = [screen EXCEPT ![p] = "locked"]
     \/ LossySockets /\ UNCHANGED screen
  /\ UNCHANGED <<tables, call, at, orm, answer, now>>

(* A slip: the occupant's id is left in the row.                           *)
ReleasedPcKeepsOccupant(p) ==
  [status |-> "free", occupant |-> pcs[p].occupant, endTime |-> Null]

(* status and end_time were not free or NULL when they were read, so both  *)
(* columns are always written.                                             *)
ReleasedPc(p) ==
  [status |-> "free",
   occupant |-> Column(pcs[p].occupant, sweep.seen[p].occupant, Null),
   endTime |-> Null]

(* One commit for all of them.  Its flush updates the computers one by one *)
(* and keeps the rows it has got while it waits for the next.              *)
FlushExpired(p) ==
  /\ sweep.at = "work" /\ sweep.todo = {}
  /\ p \in sweep.mine /\ lockedBy[p] = Null
  /\ lockedBy' = [lockedBy EXCEPT ![p] = Cleaner]
  /\ UNCHANGED <<tables, call, at, orm, answer, outside>>

CommitExpired ==
  /\ sweep.at = "work" /\ sweep.todo = {}
  /\ \A p \in sweep.mine : lockedBy[p] = Cleaner
  /\ pcs' = [p \in Pcs |-> IF p \in sweep.mine THEN ReleasedPc(p) ELSE pcs[p]]
  /\ bookings' = [b \in Requests |-> IF lockedBy[b] = Cleaner
                                     THEN [bookings[b] EXCEPT !.status = "expired"]
                                     ELSE bookings[b]]
  /\ lockedBy' = Released(Cleaner)
  /\ sweep' = NoSweep
  /\ UNCHANGED <<balance, clubs, orders, payments, ledger, call, at, orm, answer, screen, now>>

(* Whom the next statement of the iteration may have to wait for.          *)
SweepBlockers ==
  {lockedBy[x] : x \in IF sweep.todo # {} THEN UNION {ActiveOn(p) : p \in sweep.todo}
                       ELSE sweep.mine} \ {Null, Cleaner}

(* An iteration that raises is logged and rolled back; the supervisor's    *)
(* loop starts another one a minute later.                                 *)
AbandonSweep ==
  /\ sweep.at = "work"
  /\ sweep' = NoSweep
  /\ lockedBy' = Released(Cleaner)
  /\ UNCHANGED <<tables, call, at, orm, answer, screen, now>>

CleanupStep ==
  ScanExpired \/ (\E p \in Pcs : ExpirePc(p) \/ FlushExpired(p)) \/ CommitExpired

=============================================================================
